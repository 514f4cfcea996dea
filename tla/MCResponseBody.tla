-------------------------- MODULE MCResponseBody --------------------------
(***************************************************************************)
(* The response body: the task that reads it and the parser of events.     *)
(* BodyReader has its own, coarser events, so the two share no state and a *)
(* behaviour is one of either; the other stays in an initial state.        *)
(***************************************************************************)
EXTENDS BodyReader

\* Fields of every kind that extract_property tells apart.
MCFields == [total |-> "number", model |-> "string", detail |-> "object", none |-> "absent"]

\* Fields that extract_property supports.
SupportedFields == [total |-> "number", model |-> "string"]

VARIABLES part, characters, data, last_two_events, parsing, chunks, text, events

parser == <<characters, data, last_two_events, parsing, chunks, text, events>>

\* Pieces of a body: a data line and its parts, so that it can be cut
\* anywhere, all line ends, a comment and a character of two bytes.
Pieces ==
    {<<"n", ":", "space", "n">>, <<"n">>, <<":">>, <<"cr">>, <<"lf">>, <<"lf", "lf">>,
     <<"cr", "lf", "n", ":">>, <<"n", ":", "h1">>, <<"h2", "lf">>, <<"h1", "h2">>}

Events == INSTANCE EventParser WITH buffer <- characters, Chunks <- Pieces, MaxChunks <- 5

ASSUME PiecesAssumption == Pieces \subseteq Seq(Events!Chars)

MCInit ==
    /\ part \in {"events", "body"}
    /\ BodyInit
    /\ Events!Init
    /\ part = "events" => ~sse

ParseEvents == part = "events" /\ Events!Parse /\ UNCHANGED <<part, bodyVars>>

MCNext ==
    \/ ParseEvents
    \/ part = "events" /\ (\E piece \in Pieces : Events!FeedBuffer(piece)) /\ UNCHANGED <<part, bodyVars>>
    \/ part = "body" /\ BodyNext /\ UNCHANGED <<part, parser>>

MCSpec == MCInit /\ [][MCNext]_<<part, bodyVars, parser>> /\ WF_<<part, bodyVars, parser>>(ParseEvents)

-----------------------------------------------------------------------------
\* The properties of the parser.

\* However a body is cut, parse finds the events of the whole text.
ChunkingInvisible == Events!ChunkingInvisible

\* The usage is read from the second to last event (extract_property).
UsageIsSecondToLast == Events!UsageIsSecondToLast

\* The loops of parse and parse_one_event end for every piece.
ParseEnds == Events!ParseEnds
=============================================================================
