----------------------------- MODULE SpanBuffer -----------------------------
(***************************************************************************)
(* The spans of the streams of one worker: the bounded buffer of ended     *)
(* spans they share (src/src/tracing/processor.rs), the request span a     *)
(* stream keeps entered from one callback to the next (src/src/kuadrant/   *)
(* context.rs), the spans of its tasks and the export at teardown.         *)
(*                                                                         *)
(* The registry of the tracing crate is external.  A new span is a child   *)
(* of the one entered last and not left yet, whichever stream entered it.  *)
(* A span ends when its handle is dropped and all its children have ended. *)
(*                                                                         *)
(* A worker runs one callback at a time: what one of them still has to do  *)
(* comes before anything else (Idle).                                      *)
(***************************************************************************)
EXTENDS Naturals, Sequences

CONSTANTS
    Streams,         \* streams with a tracing action in their action set
    MaxTasks,        \* bound on the task spans of a stream
    MaxBufferSize    \* max_buffer_size

ASSUME BufferAssumption == MaxBufferSize \in Nat \ {0}
ASSUME TasksAssumption == MaxTasks \in Nat

VARIABLES
    open,        \* [spans that have not ended -> the parent, or NoSpan]
    held,        \* spans with a handle
    entered,     \* request spans, in the order they were entered
    buffer,      \* ended spans that wait for an export
    life,        \* of each stream: "new", "running", "torn down" or "deleted"
    tasks,       \* the number of task spans each stream has had
    agenda,      \* what the callback has still to do
    exported,    \* spans of accepted exports
    lost,        \* spans of exports the host refused
    since        \* history: spans that ended since the last export

spanVars == <<open, held, entered, buffer, life, tasks, agenda, exported, lost, since>>

RequestSpan(s) == <<s, 0>>
TaskSpan(s, i) == <<s, i>>
NoSpan == <<>>
Spans == Streams \X (0..MaxTasks)

\* The handles of s: of tasks that are queued or deferred.
TaskHandles(s) == {x \in held : x[1] = s /\ x[2] > 0}

\* Handles to drop, in the order of the tasks, and the export after them.
Item(spans, export) == [drop |-> spans, export |-> export]

-----------------------------------------------------------------------------
(* BufferingSpanProcessor                                                  *)

\* Mutants: nothing makes room for the span, or the span itself is dropped.
OnEndGrows(b, span) == Append(b, span)
OnEndDropsNewest(b, span) == IF Len(b) >= MaxBufferSize THEN b ELSE Append(b, span)

OnEnd(b, span) == Append(IF Len(b) >= MaxBufferSize THEN Tail(b) ELSE b, span)

\* Mutant: the exported spans stay in the buffer.
AfterTakeKept(b) == b

\* What take_pending_spans leaves in the buffer.
AfterTake(b) == <<>>

-----------------------------------------------------------------------------
(* The registry.                                                           *)

Current == IF entered = <<>> THEN NoSpan ELSE entered[Len(entered)]

NewSpan(x) ==
    /\ open' = [y \in DOMAIN open \cup {x} |-> IF y = x THEN Current ELSE open[y]]
    /\ held' = held \cup {x}

\* The spans to end: no handle is left, and no child.
Ending == {x \in DOMAIN open \ held : \A y \in DOMAIN open : open[y] # x}

\* The span x ends; its parent may be next.
EndSpan(x) ==
    /\ open' = [y \in DOMAIN open \ {x} |-> open[y]]
    /\ buffer' = OnEnd(buffer, x) /\ since' = Append(since, x)
    /\ UNCHANGED <<held, entered, life, tasks, agenda, exported, lost>>

\* The guard of a request span leaves it.
Leave(x) ==
    \/ \E i \in DOMAIN entered :
          /\ entered[i] = x
          /\ entered' = SubSeq(entered, 1, i - 1) \o SubSeq(entered, i + 1, Len(entered))
    \/ (\A i \in DOMAIN entered : entered[i] # x) /\ UNCHANGED entered

-----------------------------------------------------------------------------
(* The rest of a callback.                                                 *)

\* The first of the handles goes.
DropHandle ==
    /\ Ending = {} /\ agenda # <<>>
    /\ \E x \in agenda[1].drop :
          /\ \A y \in agenda[1].drop : x[2] <= y[2]
          /\ held' = held \ {x}
          /\ Leave(x)
          /\ agenda' = <<Item(agenda[1].drop \ {x}, agenda[1].export)>> \o Tail(agenda)
    /\ UNCHANGED <<open, buffer, life, tasks, exported, lost, since>>

\* The host takes the export call or refuses it; nobody keeps the spans.
DispatchExport(accepted) ==
    /\ exported' = IF accepted THEN exported \o buffer ELSE exported
    /\ lost' = IF accepted THEN lost ELSE lost \o buffer
    /\ buffer' = AfterTake(buffer) /\ since' = <<>>

\* All the handles are gone, and the export is due, if any.
HandlesDropped ==
    /\ Ending = {} /\ agenda # <<>> /\ agenda[1].drop = {}
    /\ agenda' = Tail(agenda)
    /\ IF agenda[1].export = "none" THEN UNCHANGED <<buffer, exported, lost, since>>
       ELSE DispatchExport(agenda[1].export = "accepted")
    /\ UNCHANGED <<open, held, entered, life, tasks>>

Idle == Ending = {} /\ agenda = <<>>

-----------------------------------------------------------------------------
(* The streams.                                                            *)

SpanInit ==
    /\ open = <<>> /\ held = {} /\ entered = <<>> /\ buffer = <<>>
    /\ life = [s \in Streams |-> "new"] /\ tasks = [s \in Streams |-> 0]
    /\ agenda = <<>> /\ exported = <<>> /\ lost = <<>> /\ since = <<>>

\* ExportTracesTask::new, when the tasks of the stream are made.
EnterRequestSpan(s) ==
    /\ Idle /\ life[s] = "new"
    /\ life' = [life EXCEPT ![s] = "running"]
    /\ NewSpan(RequestSpan(s))
    /\ entered' = Append(entered, RequestSpan(s))
    /\ UNCHANGED <<buffer, tasks, agenda, exported, lost, since>>

\* A task is applied for the first time: it waits with its span or is done.
ApplyTask(s, waits) ==
    /\ Idle /\ life[s] = "running" /\ tasks[s] < MaxTasks
    /\ tasks' = [tasks EXCEPT ![s] = @ + 1]
    /\ NewSpan(TaskSpan(s, tasks[s] + 1))
    /\ agenda' = IF waits THEN <<>> ELSE <<Item({TaskSpan(s, tasks[s] + 1)}, "none")>>
    /\ UNCHANGED <<entered, buffer, life, exported, lost, since>>

\* A task that waited is applied again and is done.
FinishTask(s, x) ==
    /\ Idle /\ life[s] = "running" /\ x \in TaskHandles(s)
    /\ agenda' = <<Item({x}, "none")>>
    /\ UNCHANGED <<open, held, entered, buffer, life, tasks, exported, lost, since>>

\* Mutant: the guard of the request span is kept.
EndRequestSpanForgotten(s, export) == Item({}, export)

EndRequestSpan(s, export) == Item({RequestSpan(s)}, export)

\* execute_teardown.  The pipeline is complete and no task is left, or it is
\* terminated: then deferred tasks go before the export, while those the loop
\* of eval has not reached are dropped when eval returns.
ExecuteTeardown(s, unreached, export) ==
    /\ Idle /\ life[s] = "running"
    /\ life' = [life EXCEPT ![s] = "torn down"]
    /\ agenda' = <<Item(TaskHandles(s) \ unreached, "none"), EndRequestSpan(s, export),
                   Item(unreached, "none")>>
    /\ UNCHANGED <<open, held, entered, buffer, tasks, exported, lost, since>>

\* The host deletes a stream whose pipeline has not been torn down: its
\* request context goes first, then its tasks.
StreamDeleted(s) ==
    /\ Idle /\ life[s] = "running"
    /\ life' = [life EXCEPT ![s] = "deleted"]
    /\ agenda' = <<EndRequestSpan(s, "none"), Item(TaskHandles(s), "none")>>
    /\ UNCHANGED <<open, held, entered, buffer, tasks, exported, lost, since>>

Callback(s) ==
    \/ EnterRequestSpan(s)
    \/ \E waits \in BOOLEAN : ApplyTask(s, waits)
    \/ \E x \in Spans : FinishTask(s, x)
    \/ \E unreached \in SUBSET TaskHandles(s), export \in {"accepted", "refused"} :
          ExecuteTeardown(s, unreached, export)
    \/ StreamDeleted(s)

SpanNext ==
    \/ \E s \in Streams : Callback(s)
    \/ \E x \in Ending : EndSpan(x)
    \/ DropHandle
    \/ HandlesDropped

SpanSpec == SpanInit /\ [][SpanNext]_spanVars

-----------------------------------------------------------------------------
(* Properties.                                                             *)

\* Whichever streams end spans and export them, no span leaves the buffer
\* twice (take_pending_spans).
SpansExportedOnce ==
    LET spans == buffer \o exported \o lost
    IN  \A i, j \in DOMAIN spans : spans[i] = spans[j] => i = j

\* The buffer has the newest spans that ended since the last export, oldest
\* first: only on_end of a full buffer drops a span, and always the oldest.
BufferKeepsNewest ==
    buffer = SubSeq(since, IF Len(since) > MaxBufferSize THEN Len(since) - MaxBufferSize + 1 ELSE 1,
                    Len(since))

\* Spans of interleaved streams keep each other open, but when the last stream
\* is gone all of them have ended.
NoSpanLeaks ==
    Idle /\ (\A s \in Streams : life[s] # "running") => DOMAIN open = {} /\ entered = <<>>

-----------------------------------------------------------------------------
(* What a comment of the code says, where it does something else.          *)

\* ExportTracesTask: the request span ends before the export of its stream.
RequestSpanEnds ==
    Idle => \A s \in Streams : life[s] = "torn down" => RequestSpan(s) \notin DOMAIN open
=============================================================================
