---------------------------- MODULE EventParser ----------------------------
(***************************************************************************)
(* Server-sent events of a response body that arrives in chunks: the line  *)
(* parser, the event parser and the strategy that keeps the last two       *)
(* events for the token usage task (src/src/kuadrant/pipeline/tasks/       *)
(* token_usage.rs and token_usage/).                                       *)
(*                                                                         *)
(* Characters are the classes the parser tells apart.  "n" is a name       *)
(* character, and the name <<"n">> stands for the field name data; "h1"    *)
(* and "h2" are the two bytes of one more name character.                  *)
(***************************************************************************)
EXTENDS Naturals, SequencesExt

CONSTANTS
    Chunks,      \* the pieces a body may arrive in: sequences of Chars
    MaxChunks    \* bound on their number

Chars == {"n", ":", "space", "cr", "lf", "bom", "h1", "h2"}

VARIABLES
    buffer,            \* EventParser: characters not yet consumed
    data,              \* EventBuilder: data of the event being built
    last_two_events,   \* SseStrategy: <<last, second to last>>, <<>> for None
    parsing,           \* is the loop of parse running?
    chunks,            \* chunks fed
    text, events       \* history: accepted characters, dispatched events

vars == <<buffer, data, last_two_events, parsing, chunks, text, events>>

IsEol(c) == c \in {"cr", "lf"}

-----------------------------------------------------------------------------
(* sse_line_parser: the first line of the buffer.                          *)

Ends(b) == {i \in DOMAIN b : IsEol(b[i])}

\* Mutant: a carriage return at the end of the buffer ends the line.
HasLineEager(b) == Ends(b) # {}

\* The parsers are streaming ones: a carriage return that is the last
\* character of the buffer may be the first half of a line end.
HasLine(b) == Ends(b) # {} /\ (b[Min(Ends(b))] = "lf" \/ Min(Ends(b)) < Len(b))

Line(b) == SubSeq(b, 1, Min(Ends(b)) - 1)

\* Mutant: the line end stays in the buffer.
RestUnread(b) == SubSeq(b, Min(Ends(b)), Len(b))

Rest(b) ==
    LET n == Min(Ends(b))
        crlf == b[n] = "cr" /\ n < Len(b) /\ b[n + 1] = "lf"
    IN  SubSeq(b, (IF crlf THEN n + 2 ELSE n + 1), Len(b))

\* field: the name ends at the first colon, and one space after it is skipped.
ColonAt(l) == Min({i \in DOMAIN l : l[i] = ":"} \cup {Len(l) + 1})

\* The line is neither empty nor a comment, and its field is data.
IsData(l) == SubSeq(l, 1, ColonAt(l) - 1) = <<"n">>

Value(l) ==
    LET v == SubSeq(l, ColonAt(l) + 1, Len(l))
    IN  IF v # <<>> /\ Head(v) = "space" THEN Tail(v) ELSE v

-----------------------------------------------------------------------------
(* EventBuilder                                                            *)

Add(d, l) ==
    IF IsData(l) THEN (IF d = <<>> THEN d ELSE Append(d, "lf")) \o Value(l) ELSE d

\* dispatch: the data of the event; no event if it is empty.
WithoutLastLf(d) == IF d # <<>> /\ Last(d) = "lf" THEN Front(d) ELSE d

\* Mutant: the slots of the two events are mixed up.
PushEventSwapped(pair, e) == <<pair[2], e>>

PushEvent(pair, e) == <<e, pair[1]>>

-----------------------------------------------------------------------------
(* EventParser::parse                                                      *)

\* String::from_utf8: every two-byte character is complete.
IsUtf8(chunk) ==
    \A i \in DOMAIN chunk :
        /\ chunk[i] = "h1" => i < Len(chunk) /\ chunk[i + 1] = "h2"
        /\ chunk[i] = "h2" => i > 1 /\ chunk[i - 1] = "h1"

Init ==
    /\ buffer = <<>> /\ data = <<>> /\ last_two_events = <<<<>>, <<>>>>
    /\ parsing = FALSE /\ chunks = 0
    /\ text = <<>> /\ events = <<>>

\* feed_buffer ignores the error of a chunk that is not UTF-8.
FeedRejected(chunk) ==
    /\ ~IsUtf8(chunk)
    /\ UNCHANGED <<buffer, parsing, text>>

FeedAccepted(chunk) ==
    /\ IsUtf8(chunk)
    /\ buffer' = buffer \o chunk
    /\ text' = text \o chunk
    /\ parsing' = TRUE

FeedBuffer(chunk) ==
    /\ ~parsing /\ chunks < MaxChunks
    /\ chunks' = chunks + 1
    /\ FeedRejected(chunk) \/ FeedAccepted(chunk)
    /\ UNCHANGED <<data, last_two_events, events>>

\* A line that is not empty is added to the event.
ParseLine ==
    /\ parsing /\ HasLine(buffer) /\ Line(buffer) # <<>>
    /\ data' = Add(data, Line(buffer))
    /\ buffer' = Rest(buffer)
    /\ UNCHANGED <<last_two_events, parsing, chunks, text, events>>

\* An empty line completes the event, and the builder starts anew.
ParseEmptyLine ==
    /\ parsing /\ HasLine(buffer) /\ Line(buffer) = <<>>
    /\ data' = <<>>
    /\ buffer' = Rest(buffer)
    /\ LET e == WithoutLastLf(data)
       IN  IF data = <<>> THEN UNCHANGED <<last_two_events, events>>
           ELSE /\ last_two_events' = PushEvent(last_two_events, e)
                /\ events' = Append(events, e)
    /\ UNCHANGED <<parsing, chunks, text>>

ParseIncomplete ==
    /\ parsing /\ ~HasLine(buffer)
    /\ parsing' = FALSE
    /\ UNCHANGED <<buffer, data, last_two_events, chunks, text, events>>

Parse == ParseLine \/ ParseEmptyLine \/ ParseIncomplete

Next == (\E chunk \in Chunks : FeedBuffer(chunk)) \/ Parse

Spec == Init /\ [][Next]_vars

FairSpec == Spec /\ WF_vars(Parse)

-----------------------------------------------------------------------------
(* The events of a whole body, without a parser.                           *)

\* Where lines end: at every line end but a last carriage return.
LineEnds(t) ==
    {i \in DOMAIN t : \/ t[i] = "lf"
                      \/ t[i] = "cr" /\ i < Len(t) /\ t[i + 1] # "lf"}

\* The numbers up to n that are in S, in order.
Ordered(S, n) == SelectSeq([i \in 1..n |-> i], LAMBDA i : i \in S)

Lines(t) ==
    LET ends == <<0>> \o Ordered(LineEnds(t), Len(t))
    IN  [j \in 1..(Len(ends) - 1) |->
            SelectSeq(SubSeq(t, ends[j] + 1, ends[j + 1]), LAMBDA c : ~IsEol(c))]

\* The values of the data lines between two empty lines, from the first one
\* that is not empty.
Values(lines) ==
    LET vs == [i \in DOMAIN SelectSeq(lines, IsData) |-> Value(SelectSeq(lines, IsData)[i])]
        k  == Min({i \in DOMAIN vs : vs[i] # <<>>} \cup {Len(vs) + 1})
    IN  SubSeq(vs, k, Len(vs))

Joined(vs) == FlattenSeq([i \in DOMAIN vs |-> IF i = 1 THEN vs[i] ELSE <<"lf">> \o vs[i]])

EventsOf(t) ==
    LET ls     == Lines(t)
        blanks == <<0>> \o Ordered({j \in DOMAIN ls : ls[j] = <<>>}, Len(ls))
        groups == [b \in 1..(Len(blanks) - 1) |->
                      Values(SubSeq(ls, blanks[b] + 1, blanks[b + 1] - 1))]
        full   == SelectSeq(groups, LAMBDA vs : vs # <<>>)
    IN  [e \in DOMAIN full |-> WithoutLastLf(Joined(full[e]))]

-----------------------------------------------------------------------------
(* Properties.                                                             *)

\* However the accepted text is cut into chunks, between a carriage return and
\* its line feed too, parse has found the events of the whole text and keeps
\* the characters after its last line.
ChunkingInvisible ==
    ~parsing =>
        /\ events = EventsOf(text)
        /\ buffer = SubSeq(text, Max(LineEnds(text) \cup {0}) + 1, Len(text))

\* extract_property reads the usage from the second to last event of the body,
\* the one before the end marker, and finds none if there are fewer than two.
UsageIsSecondToLast ==
    ~parsing => LET es == EventsOf(text)
                IN  last_two_events[2] = IF Len(es) < 2 THEN <<>> ELSE es[Len(es) - 1]

\* The loops of parse and parse_one_event end for every chunk.
ParseEnds == parsing ~> ~parsing
=============================================================================
