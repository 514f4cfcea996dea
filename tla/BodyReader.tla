----------------------------- MODULE BodyReader -----------------------------
(***************************************************************************)
(* How the token usage task reads the body of a response (src/src/         *)
(* kuadrant/pipeline/tasks/token_usage.rs): the host shows the body in     *)
(* pieces, the filter may hold a piece for a guard, and the pipeline is    *)
(* evaluated for every body callback and for every gRPC answer between     *)
(* them.  What else the pipeline does is left open: whether a guard call   *)
(* waits at the end of a callback is a choice (KuadrantFilter has it).     *)
(*                                                                         *)
(* A body is the sequence of its bytes 1..n.  EventParser has the parser   *)
(* of events in full; here an event ends with a byte of EventEnds.         *)
(***************************************************************************)
EXTENDS Naturals, SequencesExt

CONSTANTS
    Length,       \* number of bytes of the body
    Wide,         \* bytes that start a character of two bytes
    EventEnds,    \* bytes that end an event
    Fields,       \* [expected_response_fields -> kind of JSON value, or "absent"]
    MaxAnswers,   \* bound on the gRPC answers during the body
    HostFails     \* may a host call fail?

ASSUME LengthAssumption == Length \in Nat

VARIABLES
    sse,                    \* is the content type text/event-stream?
    task,                   \* "queued", "done" or "failed"
    strategy,               \* "none", "json" or "sse"
    buffer,                 \* bytes the strategy took
    values,                 \* ctx: fields of the response body that were set
    response_body_size, response_end_of_stream,   \* ctx
    stage,                  \* "request", "body", "ended" or "trailers"
    delivered,              \* number of bytes the host has delivered
    held,                   \* bytes the host keeps while the filter holds them
    answers,
    reread, cut             \* history: see the end of Apply

reader == <<task, strategy, buffer, values>>
ctx == <<response_body_size, response_end_of_stream>>
bodyVars == <<sse, reader, ctx, stage, delivered, held, answers, reread, cut>>

Body == [i \in 1..Length |-> i]

-----------------------------------------------------------------------------
(* The strategies.                                                         *)

\* select_strategy
SelectStrategy == IF sse THEN "sse" ELSE "json"

\* A piece that starts or ends inside a character.
IsCut(bytes) ==
    bytes # <<>> /\ (Last(bytes) \in Wide \/ \E i \in Wide : Head(bytes) = i + 1)

\* Mutant: a piece replaces what was read before.
FeedReplaces(s, b, bytes) == bytes

\* feed_buffer; the parser of events drops a piece that is not UTF-8.
Feed(s, b, bytes) == IF s = "sse" /\ IsCut(bytes) THEN b ELSE b \o bytes

EventsOf(b) ==
    LET ends == SelectSeq([i \in DOMAIN b |-> i], LAMBDA i : b[i] \in EventEnds)
    IN  [k \in DOMAIN ends |-> SubSeq(b, (IF k = 1 THEN 1 ELSE ends[k - 1] + 1), ends[k])]

\* The text extract_property parses: the whole buffer, or the second to last
\* event; <<>> if there is none.
Text(s, b) ==
    CASE s = "json"              -> b
      [] Len(EventsOf(b)) >= 2   -> EventsOf(b)[Len(EventsOf(b)) - 1]
      [] OTHER                   -> <<>>

\* The document that holds the fields, the only text that parses as JSON with
\* them: the body, or its event before the end marker.
Document == Text(SelectStrategy, Body)

Present == {f \in DOMAIN Fields : Fields[f] # "absent"}

\* Null, arrays and objects are not supported.
Supported == {f \in Present : Fields[f] \in {"bool", "number", "string"}}

\* Mutant: a field is set from whatever text there is.
ExtractAny(s, b) == DOMAIN Fields

Extract(s, b) == IF Text(s, b) = Document THEN Supported ELSE {}

-----------------------------------------------------------------------------
(* TokenUsageTask::apply, for an eval in which the host shows the bytes    *)
(* window: <<>> outside of a body callback, unless it holds the body.      *)

Idle == UNCHANGED <<task, buffer, values, reread, cut>>

\* The headers are pending, or the host fails to give them.
ApplyWithoutHeaders ==
    /\ strategy = "none" /\ UNCHANGED strategy
    /\ \/ stage' = "request" /\ Idle
       \/ HostFails /\ task' = "failed" /\ UNCHANGED <<buffer, values, reread, cut>>

\* The body is pending: the task is requeued with its strategy.
ApplyPending(window) ==
    /\ response_body_size' > 0 /\ window = <<>>
    /\ Idle

ApplyFails ==
    /\ response_body_size' > 0 /\ HostFails
    /\ task' = "failed"
    /\ UNCHANGED <<buffer, values, reread, cut>>

\* get_http_response_body(0, body_size): as much of the host's window as the
\* size in the context asks for.  The size is that of the last body callback,
\* so an answer that comes later asks for the bytes of that callback again; it
\* gets them if the host still holds them, and nothing if it passed them on.
Read(window) == SubSeq(window, 1, Min({response_body_size', Len(window)}))

\* Mutant: an empty piece at the end is waited out.
FinishNotEmpty(window) == response_end_of_stream' /\ window # <<>>

Finish(window) == response_end_of_stream'

ApplyReads(window) ==
    /\ buffer' = Feed(strategy', buffer, Read(window))
    /\ IF Finish(window)
       THEN task' = "done" /\ values' = Extract(strategy', buffer')
       ELSE UNCHANGED <<task, values>>
    /\ reread' = (reread \/ \E x \in Range(Read(window)) : x <= delivered)
    /\ cut' = (cut \/ IsCut(Read(window)))

Apply(window) ==
    IF task # "queued" THEN UNCHANGED <<reader, reread, cut>>
    ELSE \/ ApplyWithoutHeaders
         \/ /\ strategy # "none" \/ stage' # "request"
            /\ strategy' = IF strategy = "none" THEN SelectStrategy ELSE strategy
            /\ ApplyPending(window) \/ ApplyFails \/ ApplyReads(window)

-----------------------------------------------------------------------------
(* The callbacks of the filter.                                            *)

BodyInit ==
    /\ sse \in BOOLEAN
    /\ task = "queued" /\ strategy = "none" /\ buffer = <<>> /\ values = {}
    /\ response_body_size = 0 /\ response_end_of_stream = FALSE
    /\ stage = "request" /\ delivered = 0 /\ held = <<>> /\ answers = 0
    /\ reread = FALSE /\ cut = FALSE

\* on_http_request_headers and _body
OnRequest ==
    /\ stage = "request"
    /\ UNCHANGED <<sse, ctx, stage, delivered, held, answers>>
    /\ Apply(<<>>)

OnHttpResponseHeaders ==
    /\ stage = "request"
    /\ stage' = "body"
    /\ UNCHANGED <<sse, ctx, delivered, held, answers>>
    /\ Apply(<<>>)

\* The host shows what it holds and the n bytes that arrived; it keeps them if
\* the callback returns Pause.
OnHttpResponseBody(n, eos) ==
    /\ stage = "body" /\ delivered + n <= Length
    /\ IF eos THEN delivered + n = Length ELSE n > 0
    /\ stage' = IF eos THEN "ended" ELSE "body"
    /\ delivered' = delivered + n
    /\ LET window == held \o SubSeq(Body, delivered + 1, delivered + n)
       IN  /\ response_body_size' = Len(window)
           /\ response_end_of_stream' = eos
           /\ Apply(window)
           /\ held' \in {<<>>, window}
    /\ UNCHANGED <<sse, answers>>

\* on_grpc_call_response: the pipeline is evaluated, and the host lets go of
\* what it holds if the filter resumes the response.
OnGrpcCallResponse ==
    /\ answers < MaxAnswers
    /\ answers' = answers + 1
    /\ UNCHANGED <<sse, ctx, stage, delivered>>
    /\ Apply(held)
    /\ held' \in {<<>>, held}

\* The body ends with trailers: its last piece had no end_of_stream, and the
\* filter, which has no callback for trailers, is not told.  The host passes
\* on what it holds.
OnHttpResponseTrailers ==
    /\ stage = "body" /\ delivered = Length
    /\ stage' = "trailers"
    /\ held' = <<>>
    /\ UNCHANGED <<sse, reader, ctx, delivered, answers, reread, cut>>

BodyNext ==
    \/ OnRequest \/ OnHttpResponseHeaders \/ OnGrpcCallResponse \/ OnHttpResponseTrailers
    \/ \E n \in 0..Length, eos \in BOOLEAN : OnHttpResponseBody(n, eos)

BodySpec == BodyInit /\ [][BodyNext]_bodyVars

-----------------------------------------------------------------------------
(* Properties.                                                             *)

\* The JSON strategy has every byte the host delivered, wherever the body is
\* cut, inside characters too, and whatever is evaluated between two pieces;
\* in order and once, unless the filter held a piece before the end: then the
\* host shows it again and it is read again.
BodyReadInOrder ==
    task = "queued" /\ strategy = "json" =>
        /\ Range(buffer) = 1..delivered
        /\ ~reread => buffer = SubSeq(Body, 1, delivered)

\* Fields are set once, when the host says that the body has ended, and that
\* always settles the task, also when the last piece is empty: nothing is
\* extracted from a part of the body.  A body that ends with trailers leaves
\* the task in the queue, with no field set.
EndSettles ==
    /\ stage = "ended" => task # "queued"
    /\ task = "done" \/ values # {} => stage = "ended" /\ task = "done"

\* No field is set that the body does not have; every field of a supported kind
\* is set, unless a host call failed, a held piece was read twice, or a piece of
\* events was cut inside a character.
FieldsAreSet ==
    task = "done" => /\ values \subseteq Present
                     /\ ~reread /\ (sse => ~cut) => Supported \subseteq values

\* The task reads the body and sets its fields (TokenUsageTask): in order and
\* without a gap, settling exactly at the end_of_stream, and every supported
\* field with the exceptions stated above.
BodyIsRead == BodyReadInOrder /\ EndSettles /\ FieldsAreSet

-----------------------------------------------------------------------------
(* What the repository says of the body, where the code disagrees.         *)

\* README.md, responseBodyJSON: if the value is found, the function returns it.
\* A task that is done without a failure of the host has set every field that
\* the body has.
FoundIsReturned == task = "done" => values = Present
=============================================================================
