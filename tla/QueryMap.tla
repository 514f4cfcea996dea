----------------------------- MODULE QueryMap -----------------------------
(***************************************************************************)
(* The queryMap function of the expressions (decode_query_string in        *)
(* data/cel.rs).  A query is the sequence of its parts between '&', a part *)
(* the sequence of the texts between its '='; Decoded is the percent       *)
(* decoding of a text, or the text itself when it cannot be decoded.       *)
(***************************************************************************)
EXTENDS SequencesExt

CONSTANTS Parts, Empty, Decoded, MaxParts

VARIABLES query, second, rest, map

vars == <<query, second, rest, map>>

\* The second argument: not given, a Bool or another value.
Second == {"none", "true", "false", "other"}

AllowRepeats == second = "true"

\* kv.next() twice: what follows a second '=' is dropped.
KeyOf(part) == Decoded[part[1]]
ValueOf(part) == IF Len(part) > 1 THEN Decoded[part[2]] ELSE Empty

\* A Value::String or a Value::List.
Single(v) == [list |-> FALSE, values |-> <<v>>]

\* Mutant: a later value of a repeated name wins.
OccupiedReplaces(old, v) ==
    IF AllowRepeats THEN [list |-> TRUE, values |-> Append(old.values, v)] ELSE Single(v)

\* Entry::Occupied.
Occupied(old, v) ==
    IF AllowRepeats THEN [list |-> TRUE, values |-> Append(old.values, v)] ELSE old

Init ==
    /\ query \in SeqOf(Parts, MaxParts) \ {<<>>}
    /\ second \in Second
    /\ rest = query
    /\ map = [k \in {} |-> Single(Empty)]

\* One turn of the loop over the parts.
DecodePart ==
    /\ rest # <<>>
    /\ LET k == KeyOf(Head(rest))
           val == ValueOf(Head(rest))
           entry == IF k \in DOMAIN map THEN Occupied(map[k], val) ELSE Single(val)
       IN  map' = [x \in DOMAIN map \cup {k} |-> IF x = k THEN entry ELSE map[x]]
    /\ rest' = Tail(rest)
    /\ UNCHANGED <<query, second>>

Next == DecodePart

Spec == Init /\ [][Next]_vars

-----------------------------------------------------------------------------
\* The values of a name, in the order of the query.
ValuesOf(k) ==
    LET ofName == SelectSeq(query, LAMBDA part : KeyOf(part) = k)
    IN  [i \in DOMAIN ofName |-> ValueOf(ofName[i])]

\* The map has an entry for every name, names that are spelt differently but
\* decode to the same text being one: with true as the second argument all its
\* values, in a list when there are several, and with false the first one.  The
\* comment of decode_query_string wants a list without the argument too, where
\* the code gives one value: there, only that the first value comes first.
MapOfQuery ==
    rest = <<>> =>
        /\ DOMAIN map = {KeyOf(query[i]) : i \in DOMAIN query}
        /\ \A k \in DOMAIN map :
             /\ map[k].values[1] = ValuesOf(k)[1]
             /\ second = "true" =>
                    map[k].values = ValuesOf(k) /\ map[k].list = (Len(ValuesOf(k)) > 1)
             /\ second = "false" => map[k] = Single(ValuesOf(k)[1])
=============================================================================
