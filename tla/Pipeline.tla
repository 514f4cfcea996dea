----------------------------- MODULE Pipeline -----------------------------
(***************************************************************************)
(* The pipeline of one HTTP stream: its tasks (src/src/kuadrant/pipeline/  *)
(* tasks/) and the executor that runs them (.../executor.rs), with the     *)
(* part of the request context they share (src/src/kuadrant/context.rs).   *)
(*                                                                         *)
(* A call of eval or digest is a run of steps: DigestReply steps, one for  *)
(* each action of the onReply list, then EvalTask steps, one for each task *)
(* that was in the queue.  The filter (KuadrantFilter) starts them, and no *)
(* other callback runs until it has ended them.                            *)
(***************************************************************************)
EXTENDS Blueprint

CONSTANT HostMayReject   \* may the host refuse to send a local reply?

VARIABLES
    blueprint,           \* the action set of this stream
    task_queue,
    deferred_tasks,      \* [tokens of calls that wait for an answer -> PendingTask]
    completed_tasks,
    teardown_tasks,      \* is the trace export still to be run?
    terminated,
    barrier,             \* ctx.barrier.count
    end_of_stream,       \* ctx.response_end_of_stream
    in_response_phase,   \* the host has the response headers
    body_values,         \* actions whose response body fields were extracted
    tasks_to_process,    \* eval: tasks drained from the queue and not yet visited
    reply,               \* digest: the response being processed
    step,                \* "idle", "reply" or "eval"
    \* effects on the host
    next_token, in_flight, replies, metrics,
    \* history: gRPC actions that failed and were neither let pass nor aborted
    failed_tasks

context == <<blueprint, end_of_stream, in_response_phase, body_values>>
host == <<next_token, in_flight, replies, metrics>>
pipelineVars == <<context, host, task_queue, deferred_tasks, completed_tasks, teardown_tasks,
                  terminated, barrier, tasks_to_process, reply, step, failed_tasks>>

PendingTask(b) ==
    {p \in [id           : Seq(Nat),
            guard        : BOOLEAN,   \* its response processor lowers the barrier
            failure_mode : FailureMode \cup {"none"},
            traced       : BOOLEAN,
            noop         : BOOLEAN] : p.noop \/ p.id \in Ids(b)}

NoopTask(id, guard) ==
    [id |-> id, guard |-> guard, failure_mode |-> "none", traced |-> FALSE, noop |-> TRUE]

ReplyType(b) ==
    [pending : PendingTask(b), ok : BOOLEAN, next : Nat \ {0}, tasks : Seq(Task(b))]

NoReply == [pending |-> NoopTask(<<>>, FALSE), ok |-> FALSE, next |-> 1, tasks |-> <<>>]

\* The action whose answer digest is processing.
Answered == IF step = "reply" THEN {reply.pending.id} ELSE {}

Metric == {"hits", "misses", "errors", "allowed", "denied"}

\* The types of the variables of the pipeline, in the code; gRPC tasks, waiting
\* or called, are actions of the blueprint.
PipelineTypeOK ==
    /\ task_queue \in Seq(Task(blueprint)) /\ tasks_to_process \in Seq(Task(blueprint))
    /\ DOMAIN deferred_tasks \subseteq Nat
    /\ \A t \in DOMAIN deferred_tasks : deferred_tasks[t] \in PendingTask(blueprint)
    /\ completed_tasks \subseteq Seq(Nat) /\ failed_tasks \subseteq Seq(Nat)
    /\ body_values \subseteq Seq(Nat)
    /\ teardown_tasks \in BOOLEAN /\ terminated \in BOOLEAN
    /\ barrier \in Nat
    /\ end_of_stream \in BOOLEAN /\ in_response_phase \in BOOLEAN
    /\ reply \in ReplyType(blueprint)
    /\ step \in {"idle", "reply", "eval"}
    /\ next_token \in Nat /\ in_flight \subseteq Nat /\ replies \in Nat
    /\ metrics \in [Metric -> Nat]

Count(m, S) == [k \in Metric |-> IF k \in S THEN m[k] + 1 ELSE m[k]]

-----------------------------------------------------------------------------
(* Outcomes of a task, with what applying it did to the host.              *)

Outcome(tag, tasks) ==
    [tag |-> tag, tasks |-> tasks, denied |-> FALSE, sent |-> FALSE, values |-> {}]

Done == Outcome("Done", <<>>)
Deferred == Outcome("Deferred", <<>>)
Failed == Outcome("Failed", <<>>)
Requeued(tasks) == Outcome("Requeued", tasks)
Terminate(tasks) == Outcome("Terminate", tasks)   \* <<>> for NoopTerminalTask

SendReplyDefault == [MakeTask("deny", <<>>) EXCEPT !.concrete = TRUE]

\* Mutants: Barrier::lower without its check and called twice, or forgotten.
LowerTwice(n) == n - 2
LowerForgotten(n) == n

Lower(n) == IF n > 0 THEN n - 1 ELSE n

ActionOf(t) == blueprint.actions[t.id]

\* AttributeState::Pending.  Nothing ever sets a request body value.
IsPending(data, id) ==
    \/ data = "response_headers" /\ ~in_response_phase
    \/ data = "response_body" /\ id \notin body_values
    \/ data = "request_body"

\* A pending gRPC task is retried until the response has ended.
Postponed(t) == IF end_of_stream THEN Failed ELSE Requeued(<<[t EXCEPT !.failure_mode = "none"]>>)

DynamicApply(t) ==
    IF IsPending(ActionOf(t).pred, t.id) THEN {Postponed(t)}
    ELSE {Done, Failed, IF IsPending(ActionOf(t).expr, t.id) THEN Postponed(t) ELSE Deferred}

\* Tasks with a predicate of their own go back to the queue while it is
\* pending; a pending value is an error.
WithPredicate(t, outcomes) ==
    IF t.concrete THEN outcomes
    ELSE IF IsPending(ActionOf(t).pred, t.id) THEN {Requeued(<<t>>)}
    ELSE {Done, Failed} \cup (IF IsPending(ActionOf(t).expr, t.id) THEN {} ELSE outcomes)

IsTerminal(t) == ~t.concrete /\ ActionOf(t).terminal

SendReplyApply(t) ==
    WithPredicate(t,
        {[(IF IsTerminal(t) THEN Terminate(<<>>) ELSE Done)
            EXCEPT !.denied = TRUE, !.sent = TRUE]}
        \cup IF HostMayReject THEN {[Failed EXCEPT !.denied = TRUE]} ELSE {})

SetterOutcomes(t) == {Failed, IF IsTerminal(t) THEN Terminate(<<SendReplyDefault>>) ELSE Done}

ModifyHeadersApply(t) ==
    WithPredicate(t,
        IF t.kind = "tracker" \/ ActionOf(t).target = "response"
        THEN IF in_response_phase THEN SetterOutcomes(t) ELSE {Requeued(<<t>>)}
        ELSE SetterOutcomes(t))

StoreApply(t) == WithPredicate(t, SetterOutcomes(t))

\* Reads the response body until it ends, then keeps the fields it found.  The
\* body is readable in the callback that delivers its end (Pending otherwise).
TokenUsageApply(t) ==
    IF ~in_response_phase THEN {Requeued(<<t>>)}
    ELSE {Failed} \cup
         IF end_of_stream
         THEN {[Done EXCEPT !.values = vs] : vs \in SUBSET CollectBodyValues(blueprint, t.id)}
         ELSE {Requeued(<<t>>)}

\* Mutant: the failure mode denies without a reply.
WithFailureModeSilent(mode, o) ==
    CASE o.tag = "Failed" /\ mode = "deny"  -> Terminate(<<>>)
      [] o.tag = "Failed" /\ mode = "allow" -> Done
      [] OTHER -> o

\* FailureModeTask::apply around an outcome of the inner task.
WithFailureMode(mode, o) ==
    CASE o.tag = "Failed" /\ mode = "deny"  -> Terminate(<<SendReplyDefault>>)
      [] o.tag = "Failed" /\ mode = "allow" -> Done
      [] OTHER -> o

ErrorCounted(mode, o) == o.tag = "Failed" /\ mode # "none"

\* TracingDecoratorTask::apply: what it hands on is traced too.
WithTracing(traced, o) ==
    [o EXCEPT !.tasks = [i \in 1..Len(o.tasks) |-> [o.tasks[i] EXCEPT !.traced = @ \/ traced]]]

Apply(t) ==
    CASE t.kind = "grpc"        -> DynamicApply(t)
      [] t.kind = "deny"        -> SendReplyApply(t)
      [] t.kind = "headers"     -> ModifyHeadersApply(t)
      [] t.kind = "tracker"     -> ModifyHeadersApply(t)
      [] t.kind = "store"       -> StoreApply(t)
      [] t.kind = "token_usage" -> TokenUsageApply(t)

-----------------------------------------------------------------------------
(* The executor.                                                           *)

\* Task::is_guard of an entry of deferred_tasks: the decorators do not
\* delegate it, so only an undecorated PendingTask answers for its guard.
IsGuard(p) == p.guard /\ p.failure_mode = "none" /\ ~p.traced

\* Mutant: a terminated pipeline keeps its response processors.
ReplaceDeferredKeeps(d) == d

ReplaceDeferredWithNoop(d) == [t \in DOMAIN d |-> NoopTask(d[t].id, IsGuard(d[t]))]

Insert(d, token, p) == [t \in DOMAIN d \cup {token} |-> IF t = token THEN p ELSE d[t]]

\* execute_teardown: an export that was dispatched is awaited by a no-op.
ExecuteTeardown(d, token, exported) ==
    IF exported THEN Insert(ReplaceDeferredWithNoop(d), token, NoopTask(<<>>, FALSE))
                ELSE ReplaceDeferredWithNoop(d)

\* The calls dispatched in this step have tokens next_token .. last - 1.
Dispatch(last) ==
    /\ next_token' = last
    /\ in_flight' = in_flight \cup next_token..(last - 1)

StartEval(queue) ==
    /\ tasks_to_process' = queue
    /\ task_queue' = <<>>
    /\ step' = "eval"
    /\ reply' = NoReply

Effects(o, errors) ==
    /\ metrics' = Count(metrics, (IF o.denied THEN {"denied"} ELSE {}) \cup errors)
    /\ replies' = IF o.sent THEN replies + 1 ELSE replies

\* TaskOutcome::Terminate, in eval and in digest: the terminal task is
\* applied and its outcome dropped, with the token of a call it dispatched;
\* no other task runs.
TerminatePipeline(o, d, count, errors) ==
    \E last \in IF o.tasks = <<>> THEN {o} ELSE Apply(o.tasks[1]), exported \in BOOLEAN :
        LET called == last.tag = "Deferred"
            token  == IF called THEN next_token + 1 ELSE next_token
        IN  /\ exported => teardown_tasks
            /\ barrier' = IF called /\ ActionOf(o.tasks[1]).guard THEN count + 1 ELSE count
            /\ terminated' = TRUE
            /\ deferred_tasks' = ExecuteTeardown(d, token, exported)
            /\ teardown_tasks' = FALSE
            /\ Dispatch(IF exported THEN token + 1 ELSE token)
            /\ Effects(last, errors)
            /\ StartEval(<<>>)
            /\ UNCHANGED <<context, completed_tasks, failed_tasks>>

-----------------------------------------------------------------------------
(* digest: the response of a pending task.                                 *)

\* What digest does with the outcome of the pending task, from the first
\* decorator to the queue; the response processor has lowered the barrier.
DigestOutcome(inner) ==
    LET p == reply.pending
        o == WithTracing(p.traced, WithFailureMode(p.failure_mode, inner))
        count == IF p.guard THEN Lower(barrier) ELSE barrier
        errors == IF ErrorCounted(p.failure_mode, inner) THEN {"errors"} ELSE {}
    IN  \/ /\ o.tag = "Terminate"
           /\ TerminatePipeline(o, deferred_tasks, count, errors)
        \/ /\ o.tag # "Terminate"
           /\ barrier' = count
           /\ completed_tasks' = IF o.tag = "Failed" THEN completed_tasks
                                 ELSE completed_tasks \cup {p.id}
           /\ failed_tasks' = IF o.tag = "Failed" THEN failed_tasks \cup {p.id} ELSE failed_tasks
           /\ StartEval(o.tasks \o task_queue)
           /\ Effects(o, errors)
           /\ UNCHANGED <<context, next_token, in_flight, deferred_tasks, teardown_tasks, terminated>>

ReplyTask(id) ==
    LET op == blueprint.actions[id].op
    IN  [MakeTask(op, id) EXCEPT !.concrete = (op # "grpc")]

\* What process_dynamic_response may do with one action of onReply.  A
\* predicate that is pending counts as true.
ReplyVerdicts(id) ==
    LET a == blueprint.actions[id]
        take == IF a.terminal /\ a.op \in {"deny", "grpc"} THEN "terminate" ELSE "push"
    IN  (IF IsPending(a.pred, id) THEN {} ELSE {"skip", "fail"})
        \cup CASE a.op = "grpc" -> {take}
               [] a.op = "fail" \/ IsPending(a.expr, id) -> {"fail"}
               [] a.op = "headers" -> {"fail", "skip", take}
               [] OTHER -> {"fail", take}

\* The whole list was processed, or there was nothing to process.
DigestDone ==
    /\ \/ reply.pending.noop
       \/ reply.ok /\ reply.next > Len(OnReply(blueprint, reply.pending.id))
    /\ DigestOutcome(IF reply.tasks = <<>> THEN Done ELSE Requeued(reply.tasks))

\* The call failed or timed out, or its response could not be decoded.
DigestError ==
    /\ ~reply.pending.noop
    /\ \/ ~reply.ok
       \/ reply.next = 1 /\ OnReply(blueprint, reply.pending.id) # <<>>
    /\ DigestOutcome(Failed)

DigestAction ==
    /\ ~reply.pending.noop
    /\ reply.ok
    /\ reply.next <= Len(OnReply(blueprint, reply.pending.id))
    /\ LET id == OnReply(blueprint, reply.pending.id)[reply.next]
       IN  \E verdict \in ReplyVerdicts(id) :
              \/ /\ verdict = "fail"
                 /\ DigestOutcome(Failed)
              \/ /\ verdict = "terminate"
                 /\ DigestOutcome(Terminate(<<ReplyTask(id)>>))
              \/ /\ verdict \in {"skip", "push"}
                 /\ reply' = [reply EXCEPT
                        !.next = @ + 1,
                        !.tasks = IF verdict = "push" THEN Append(@, ReplyTask(id)) ELSE @]
                 /\ UNCHANGED <<context, host, task_queue, deferred_tasks, completed_tasks,
                                teardown_tasks, terminated, barrier, tasks_to_process, step,
                                failed_tasks>>

DigestReply ==
    /\ step = "reply"
    /\ DigestDone \/ DigestError \/ DigestAction

-----------------------------------------------------------------------------
(* eval: one task of the drained queue.                                    *)

\* Mutant: dependencies are not looked at.
IsBlockedNever(t) == FALSE

IsBlocked(t) == \E d \in TaskDependencies(t) : d \notin completed_tasks

\* Mutant: a blocked task is not pushed back.
EvalBlockedDrops(t) ==
    /\ IsBlocked(t)
    /\ tasks_to_process' = Tail(tasks_to_process)
    /\ UNCHANGED <<context, host, task_queue, deferred_tasks, completed_tasks, teardown_tasks,
                   terminated, barrier, reply, step, failed_tasks>>

EvalBlocked(t) ==
    /\ IsBlocked(t)
    /\ task_queue' = Append(task_queue, t)
    /\ tasks_to_process' = Tail(tasks_to_process)
    /\ UNCHANGED <<context, host, deferred_tasks, completed_tasks, teardown_tasks, terminated,
                   barrier, reply, step, failed_tasks>>

EvalDeferred(t) ==
    /\ deferred_tasks' = Insert(deferred_tasks, next_token,
            [id |-> t.id, guard |-> ActionOf(t).guard, failure_mode |-> t.failure_mode,
             traced |-> t.traced, noop |-> FALSE])
    /\ barrier' = IF ActionOf(t).guard THEN barrier + 1 ELSE barrier
    /\ Dispatch(next_token + 1)
    /\ tasks_to_process' = Tail(tasks_to_process)
    /\ UNCHANGED <<context, replies, metrics, task_queue, completed_tasks, teardown_tasks,
                   terminated, reply, step, failed_tasks>>

\* Done, Requeued and Failed.
EvalSettled(t, o, errors) ==
    /\ completed_tasks' = IF o.tag = "Done" THEN completed_tasks \cup TaskIds(t) ELSE completed_tasks
    /\ failed_tasks' = IF o.tag = "Failed" THEN failed_tasks \cup TaskIds(t) ELSE failed_tasks
    /\ task_queue' = task_queue \o o.tasks
    /\ body_values' = body_values \cup o.values
    /\ tasks_to_process' = Tail(tasks_to_process)
    /\ Effects(o, errors)
    /\ UNCHANGED <<blueprint, end_of_stream, in_response_phase, next_token, in_flight,
                   deferred_tasks, teardown_tasks, terminated, barrier, reply, step>>

EvalApply(t) ==
    /\ ~IsBlocked(t)
    /\ \E inner \in Apply(t) :
          LET o == WithTracing(t.traced, WithFailureMode(t.failure_mode, inner))
              errors == IF ErrorCounted(t.failure_mode, inner) THEN {"errors"} ELSE {}
          IN  \/ o.tag = "Deferred" /\ EvalDeferred(t)
              \/ o.tag \in {"Done", "Requeued", "Failed"} /\ EvalSettled(t, o, errors)
              \/ o.tag = "Terminate" /\ TerminatePipeline(o, deferred_tasks, barrier, errors)

EvalTask ==
    /\ step = "eval"
    /\ tasks_to_process # <<>>
    /\ LET t == Head(tasks_to_process) IN EvalBlocked(t) \/ EvalApply(t)

\* PipelineState::Completed, of the pipeline with these deferred tasks.
IsCompleted(d) == task_queue = <<>> /\ DOMAIN d = {}

\* Mutant: the teardown only runs when the pipeline is terminated.
TeardownNotDue == FALSE

\* The teardown runs once there is nothing left to wait for.
TeardownDue == IsCompleted(deferred_tasks) /\ teardown_tasks

\* The end of eval.
EvalEnd(exported) ==
    /\ step = "eval"
    /\ tasks_to_process = <<>>
    /\ exported => TeardownDue
    /\ deferred_tasks' = IF TeardownDue THEN ExecuteTeardown(deferred_tasks, next_token, exported)
                         ELSE deferred_tasks
    /\ teardown_tasks' = (teardown_tasks /\ ~TeardownDue)
    /\ Dispatch(IF exported THEN next_token + 1 ELSE next_token)
    /\ step' = "idle"
    /\ UNCHANGED <<context, replies, metrics, task_queue, completed_tasks, terminated, barrier,
                   tasks_to_process, reply, failed_tasks>>
=============================================================================
