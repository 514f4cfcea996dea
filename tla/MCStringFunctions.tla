------------------------- MODULE MCStringFunctions -------------------------
(***************************************************************************)
(* The string functions on all short strings and arguments.  A behaviour   *)
(* picks the arguments of a call and evaluates every function on them.     *)
(***************************************************************************)
EXTENDS StringFunctions

CONSTANTS MaxLen, MaxArg, MaxInt

Strings(n) == UNION {[1..k -> DOMAIN Size] : k \in 0..n}

VARIABLES s, arg, n, k, out

vars == <<s, arg, n, k, out>>

Nothing == [done |-> FALSE]

Init ==
    /\ s \in Strings(MaxLen)
    /\ arg \in Strings(MaxArg)
    /\ n \in -MaxInt..MaxInt
    /\ k \in 0..MaxLen
    /\ out = Nothing

Evaluate ==
    /\ out = Nothing
    /\ out' = [done |-> TRUE,
               index |-> index_of_from(s, arg, n), last |-> last_index_of_from(s, arg, n),
               char |-> char_at(s, n), cut |-> substring_to(s, k, n),
               pieces |-> split_n(s, arg, n), few |-> replace_n(s, arg, <<"b">>, n)]
    /\ UNCHANGED <<s, arg, n, k>>

Next == Evaluate

Spec == Init /\ [][Next]_vars

-----------------------------------------------------------------------------
(* Properties, each for all strings and arguments within the bounds.  The  *)
(* bounds reach indices below -2^UsizeBits and above 2^UsizeBits: an index *)
(* stands for its remainder, which is small again for some of them.        *)

\* What n is as a usize.
Index == n % 2^UsizeBits

\* arg is at byte i of s.
At(i) == \E m \in 0..Len(s) : ByteLen(Take(s, m)) = i /\ Take(Drop(s, m), Len(arg)) = arg

\* indexOf from n finds the first occurrence at or after the byte n stands for,
\* counted from the start of the string, or -1; from the start it is the plain
\* indexOf.
IndexOfFindsFirst ==
    out.done /\ Index < ByteLen(s) /\ out.index # -2 =>
        /\ IF out.index = -1 THEN \A i \in Index..ByteLen(s) : ~At(i)
           ELSE out.index >= Index /\ At(out.index) /\ \A i \in Index..(out.index - 1) : ~At(i)
        /\ Index = 0 => out.index = index_of(s, arg) /\ out.last = last_index_of(s, arg)

\* A slice panics exactly when it starts inside a character, for both searches.
PanicsInsideCharacter ==
    out.done => \A r \in {out.index, out.last} :
        (r = -2) = (Index < ByteLen(s) /\ Boundary(s, Index) = {})

\* split and join are inverse, with a limit as well, which bounds the list,
\* unless the limit stands for 0; replacing every separator by itself, or none
\* of them, changes nothing.
SplitJoins ==
    out.done => /\ join(split(s, arg), arg) = s
                /\ Len(out.pieces) <= Index
                /\ Index # 0 => join(out.pieces, arg) = s
                /\ replace(s, arg, arg) = s
                /\ Index = 0 => out.few = s

\* The two parts of a string cut at a character make the string, and charAt
\* is the substring of one character.
SubstringsMakeString ==
    out.done => /\ k <= Index => out.cut = SubSeq(s, k + 1, IF Index < Len(s) THEN Index ELSE Len(s))
                /\ k <= Len(s) => substring_to(s, 0, k) \o substring(s, k) = s
                /\ Index < Len(s) => out.char = substring_to(s, Index, Index + 1)

\* A negative index, short of one that wraps to a small one, counts as beyond
\* the end: no character, no occurrence, no limit.
NegativeIsBeyond ==
    out.done /\ n < 0 /\ n + 2^UsizeBits >= Max({ByteLen(s), Len(s) + 2, k}) =>
        /\ out.char = Error
        /\ out.index = -1
        /\ out.pieces = split(s, arg)
        /\ out.few = replace(s, arg, <<"b">>)
        /\ out.cut = Drop(s, k)
=============================================================================
