------------------------- MODULE FilterTasksProofs -------------------------
(***************************************************************************)
(* Proofs about where the filter's executor has the actions of the set.    *)
(*                                                                         *)
(* Part 1 shows that every step of the filter whose pipeline goes on is    *)
(* one of the moves of PipelineProofs.  Part 2 carries what holds of the   *)
(* moves over to the filter.                                               *)
(***************************************************************************)
EXTENDS KuadrantFilterProofs

\* Before the first callback nothing has happened.
Untouched ==
    request = "new" /\ callback = "none"
        => completed_tasks = {} /\ failed_tasks = {} /\ body_values = {}

TInv == IInv /\ (~terminated => Transient /\ Local /\ Untouched)

\* A pipeline that goes on runs.
LEMMA TInvRunning == TInv /\ ~terminated => Running
  BY Zenon DEF TInv, IInv, TypeOK, Running

-----------------------------------------------------------------------------
(* Part 1.  Every step is a move.                                          *)

\* What digest makes of an outcome: the onReply tasks go on, decorated, or
\* nothing does.
LEMMA DigestedOutcome ==
  ASSUME NEW p \in PendingTask(blueprint), NEW s \in Seq(Task(blueprint)),
         NEW inner \in {Done, Failed, Requeued(s)}
  PROVE  LET o == WithTracing(p.traced, WithFailureMode(p.failure_mode, inner))
         IN  /\ o \in OutcomeType
             /\ \/ o.tag = "Terminate"
                \/ o.tag = "Failed" /\ o.tasks = <<>> /\ p.failure_mode \notin FailureMode
                \/ o.tag \notin {"Failed", "Terminate"} /\ (o.tasks = <<>> \/ Alike(o.tasks, s))
<1> DEFINE f == WithFailureMode(p.failure_mode, inner)
           u == [i \in 1..Len(f.tasks) |-> [f.tasks[i] EXCEPT !.traced = @ \/ p.traced]]
           o == WithTracing(p.traced, f)
<1>1. inner \in OutcomeType /\ p.traced \in BOOLEAN
  BY OutcomeTypes DEF PendingTask
<1>2. o \in OutcomeType
  BY <1>1, DecoratorsType
<1>3. \/ f.tag = "Terminate" /\ f.tasks = <<SendReplyDefault>>
      \/ f.tag = "Failed" /\ f.tasks = <<>> /\ p.failure_mode \notin FailureMode
      \/ f.tag = "Done" /\ f.tasks = <<>>
      \/ f.tag = "Requeued" /\ f.tasks = s
  BY DEF WithFailureMode, Done, Failed, Requeued, Terminate, Outcome, FailureMode, PendingTask
<1>4. f \in OutcomeType
  <2>1. <<SendReplyDefault>> \in Seq(Task(blueprint))
    BY SendReplyDefaultType
  <2> QED
    BY <1>1, <2>1, OutcomeTypes, Zenon DEF WithFailureMode
<1> HIDE DEF f
<1>5. [f EXCEPT !.tasks = u].tag = f.tag /\ [f EXCEPT !.tasks = u].tasks = u
  BY <1>4, Zenon DEF OutcomeType
<1>6. f.tasks = <<>> => u = <<>>
  OBVIOUS
<1>7. f.tasks = s => Alike(u, s)
  <2>1. \A t \in Task(blueprint) : LET v == [t EXCEPT !.traced = @ \/ p.traced]
                                   IN  v.kind = t.kind /\ v.id = t.id /\ v.concrete = t.concrete
    BY Zenon DEF Task
  <2> SUFFICES ASSUME f.tasks = s PROVE Alike(u, s)
    BY Zenon
  <2>2. Len(u) = Len(s) /\ \A i \in 1..Len(s) : s[i] \in Task(blueprint)
    OBVIOUS
  <2>3. \A i \in 1..Len(s) : u[i] = [s[i] EXCEPT !.traced = @ \/ p.traced]
    BY Zenon
  <2> HIDE DEF u
  <2> QED
    BY <2>1, <2>2, <2>3, Zenon DEF Alike
<1>8. o = [f EXCEPT !.tasks = u]
  BY Zenon DEF WithTracing
<1> HIDE DEF u, o
<1>9. o.tag = f.tag /\ o.tasks = u
  BY <1>5, <1>8, Zenon
<1> QED
  BY <1>2, <1>3, <1>6, <1>7, <1>9 DEF o, f


\* digest settles the pending task, with its onReply tasks, or terminates.
LEMMA DigestOutcomeMoves ==
  ASSUME TInv, step = "reply", ~terminated',
         NEW inner \in {Done, Failed, Requeued(reply.tasks)}, DigestOutcome(inner)
  PROVE  Settles
<1> DEFINE p == reply.pending
           o == WithTracing(p.traced, WithFailureMode(p.failure_mode, inner))
<1>1. p \in PendingTask(blueprint) /\ reply.tasks \in Seq(Task(blueprint))
  BY Zenon DEF TInv, IInv, TypeOK, PipelineTypeOK, ReplyType
<1>2. /\ o \in OutcomeType
      /\ \/ o.tag = "Terminate"
         \/ o.tag = "Failed" /\ o.tasks = <<>> /\ p.failure_mode \notin FailureMode
         \/ o.tag \notin {"Failed", "Terminate"} /\ (o.tasks = <<>> \/ Alike(o.tasks, reply.tasks))
  BY <1>1, DigestedOutcome
<1>3. /\ o.tag # "Terminate"
      /\ completed_tasks' = IF o.tag = "Failed" THEN completed_tasks ELSE completed_tasks \cup {p.id}
      /\ failed_tasks' = IF o.tag = "Failed" THEN failed_tasks \cup {p.id} ELSE failed_tasks
      /\ StartEval(o.tasks \o task_queue)
      /\ UNCHANGED <<context, deferred_tasks>>
  BY Zenon DEF DigestOutcome, TerminatePipeline
<1>4. o.tasks \in Seq(Task(blueprint))
  BY <1>2, Zenon DEF OutcomeType
<1> HIDE DEF o
<1> QED
  BY <1>2, <1>3, <1>4, Zenon DEF Settles, StartEval, context

\* A step of digest.
LEMMA DigestMoves ==
  ASSUME TInv, DigestReply, ~terminated'
  PROVE  Takes \/ Settles
<1>1. step = "reply" /\ reply \in ReplyType(blueprint) /\ TypeOK
  BY Zenon DEF DigestReply, TInv, IInv, TypeOK, PipelineTypeOK
<1>2. reply.pending \in PendingTask(blueprint) /\ reply.next \in Nat \ {0}
  BY <1>1, Zenon DEF ReplyType
<1>3. CASE DigestDone
  BY <1>1, <1>3, DigestOutcomeMoves DEF DigestDone
<1>4. CASE DigestError
  BY <1>1, <1>4, DigestOutcomeMoves DEF DigestError
<1>5. CASE DigestAction
  <2> DEFINE d == reply.pending.id
             id == OnReply(blueprint, d)[reply.next]
  <2>1. d \in Ids(blueprint) /\ reply.next \in 1..Len(OnReply(blueprint, d)) /\ ~reply.pending.noop
    <3>1. d \in Ids(blueprint)
      BY <1>2, <1>5, Zenon DEF DigestAction, PendingTask
    <3>2. Len(OnReply(blueprint, d)) \in Nat
      BY <1>1, <3>1, BlueprintFacts
    <3> QED
      BY <1>2, <1>5, <3>1, <3>2 DEF DigestAction
  <2>2. id = d \o <<reply.next>> /\ id \in Ids(blueprint)
    <3>1. blueprint \in Blueprints
      BY <1>1, <2>1 DEF TypeOK, NoBlueprint, Ids
    <3>2. WellFormed(blueprint) /\ d \in Ids(blueprint) \cup {<<>>}
      BY <2>1, <3>1, BlueprintsAssumption, Zenon
    <3>3. \A k \in 1..Len(OnReply(blueprint, d)) :
              OnReply(blueprint, d)[k] = d \o <<k>> /\ d \o <<k>> \in Ids(blueprint)
      BY <3>2, OnReplyFacts, Zenon
    <3> QED
      BY <2>1, <3>3, Zenon
  <2>3. PICK verdict \in ReplyVerdicts(id) :
              \/ /\ verdict = "fail"
                 /\ DigestOutcome(Failed)
              \/ /\ verdict = "terminate"
                 /\ DigestOutcome(Terminate(<<ReplyTask(id)>>))
              \/ /\ verdict \in {"skip", "push"}
                 /\ reply' = [reply EXCEPT
                        !.next = @ + 1,
                        !.tasks = IF verdict = "push" THEN Append(@, ReplyTask(id)) ELSE @]
                 /\ UNCHANGED <<context, host, task_queue, deferred_tasks, completed_tasks,
                                teardown_tasks, terminated, barrier, tasks_to_process, step,
                                failed_tasks>>
    BY <1>5, Zenon DEF DigestAction
  <2> HIDE DEF id, d
  <2>4. CASE verdict = "fail"
    BY <1>1, <2>3, <2>4, DigestOutcomeMoves
  <2>5. CASE verdict = "terminate"
    <3> DEFINE f == WithFailureMode(reply.pending.failure_mode, Terminate(<<ReplyTask(id)>>))
    <3>1. ReplyTask(id) \in Task(blueprint)
      BY <1>1, <2>2, <2>5, ReplyTaskType
    <3>2. Terminate(<<ReplyTask(id)>>) \in OutcomeType
      <4>1. <<ReplyTask(id)>> \in Seq(Task(blueprint))
        BY <3>1
      <4> QED
        BY <4>1, OutcomeTypes, Zenon
    <3>3. f = Terminate(<<ReplyTask(id)>>) /\ f.tag = "Terminate"
      BY Zenon DEF WithFailureMode, Terminate, Outcome
    <3>4. WithTracing(reply.pending.traced, f).tag = "Terminate"
      BY <3>2, <3>3 DEF WithTracing, OutcomeType
    <3> QED
      BY <2>3, <2>5, <3>4, Zenon DEF DigestOutcome, TerminatePipeline
  <2>6. CASE verdict \in {"skip", "push"}
    <3> DEFINE tasks == IF verdict = "push" THEN Append(reply.tasks, ReplyTask(id)) ELSE reply.tasks
    <3>1. reply' = [reply EXCEPT !.next = reply.next + 1, !.tasks = tasks]
      BY <2>3, <2>6
    <3>2. UNCHANGED <<context, task_queue, deferred_tasks, completed_tasks, tasks_to_process, step,
                      failed_tasks>>
      BY <2>3, <2>6
    <3>3. verdict = "push" =>
            /\ ReplyTask(id) \in Task(blueprint) /\ ReplyTask(id).id = id
            /\ LocalTask(blueprint, ReplyTask(id))
      <4> SUFFICES ASSUME verdict = "push"
                   PROVE  /\ ReplyTask(id) \in Task(blueprint) /\ ReplyTask(id).id = id
                          /\ LocalTask(blueprint, ReplyTask(id))
        BY Zenon
      <4>1. ReplyTask(id) \in Task(blueprint)
        BY <1>1, <2>2, ReplyTaskType
      <4>2. LET op == blueprint.actions[id].op
            IN  ReplyTask(id).id = id /\ ReplyTask(id).kind = op /\ ReplyTask(id).concrete = (op # "grpc")
        BY Zenon DEF ReplyTask, MakeTask
      <4>3. blueprint.actions[id].op \in {"grpc", "deny", "headers", "store", "fail"}
        BY <1>1, <2>2, BlueprintFacts DEF Action
      <4> QED
        BY <4>1, <4>2, <4>3, Zenon DEF LocalTask
    <3>4. /\ reply'.pending = reply.pending /\ reply'.next = reply.next + 1
          /\ reply'.tasks = tasks
      BY <1>1, <3>1 DEF ReplyType
    <3> QED
      BY <1>1, <2>1, <2>2, <3>2, <3>3, <3>4, Zenon DEF Takes, context, d
  <2> QED
    BY <2>3, <2>4, <2>5, <2>6
<1> QED
  BY <1>3, <1>4, <1>5 DEF DigestReply

\* A step of eval.
LEMMA EvalMoves ==
  ASSUME TInv, EvalTask, ~terminated, ~terminated'
  PROVE  \E t \in LocalTasks : Requeues(t) \/ Calls(t) \/ Finishes(t)
<1> DEFINE t == Head(tasks_to_process)
<1>1. step = "eval" /\ tasks_to_process # <<>> /\ (EvalBlocked(t) \/ EvalApply(t))
  BY Zenon DEF EvalTask
<1>2. t \in LocalTasks /\ TypeOK
  BY <1>1 DEF TInv, IInv, Local
<1>3. t \in Task(blueprint) /\ t.traced \in BOOLEAN /\ (t.kind = "tracker" => t.concrete)
  BY <1>2, Zenon DEF LocalTasks, LocalTask, Task
<1>4. t = Head(tasks_to_process)
  BY Zenon
<1> HIDE DEF t
<1>5. CASE EvalBlocked(t)
  <2>1. Requeues(t)
    BY <1>1, <1>3, <1>4, <1>5 DEF Requeues, Evals, EvalBlocked, context
  <2> QED
    BY <1>2, <2>1
<1>6. CASE EvalApply(t)
  <2>1. PICK inner \in Apply(t) :
          LET o == WithTracing(t.traced, WithFailureMode(t.failure_mode, inner))
              errors == IF ErrorCounted(t.failure_mode, inner) THEN {"errors"} ELSE {}
          IN  \/ o.tag = "Deferred" /\ EvalDeferred(t)
              \/ o.tag \in {"Done", "Requeued", "Failed"} /\ EvalSettled(t, o, errors)
              \/ o.tag = "Terminate" /\ TerminatePipeline(o, deferred_tasks, barrier, errors)
    BY <1>6, Zenon DEF EvalApply
  <2> DEFINE o == WithTracing(t.traced, WithFailureMode(t.failure_mode, inner))
             errors == IF ErrorCounted(t.failure_mode, inner) THEN {"errors"} ELSE {}
  <2>2. /\ inner \in OutcomeType /\ (inner.tag = "Deferred" => t.kind = "grpc")
        /\ Suits(t, inner)
    BY <1>2, <1>3, ApplyType, ApplySuits, BlueprintFacts
  <2>3. /\ o \in OutcomeType /\ (o.tag = "Deferred" => t.kind = "grpc")
        /\ Suits(t, o) /\ (o.tag = "Failed" => t.failure_mode \notin FailureMode)
    BY <1>3, <2>2, DecoratorsType, DecoratorsSuit
  <2>4. \/ o.tag = "Deferred" /\ EvalDeferred(t)
        \/ o.tag \in {"Done", "Requeued", "Failed"} /\ EvalSettled(t, o, errors)
    BY <2>1 DEF TerminatePipeline
  <2> HIDE DEF o, errors
  <2>5. ~IsBlocked(t)
    BY <1>6 DEF EvalApply
  <2>6. CASE o.tag = "Deferred" /\ EvalDeferred(t)
    <3> DEFINE pending == [id |-> t.id, guard |-> ActionOf(t).guard,
                           failure_mode |-> t.failure_mode, traced |-> t.traced, noop |-> FALSE]
    <3>1. /\ deferred_tasks' = Insert(deferred_tasks, next_token, pending)
          /\ tasks_to_process' = Tail(tasks_to_process)
          /\ UNCHANGED <<context, task_queue, completed_tasks, reply, step, failed_tasks>>
      BY <2>6 DEF EvalDeferred
    <3> HIDE DEF pending
    <3>2. next_token \notin DOMAIN deferred_tasks
      BY DEF TInv, IInv, TypeOK, PipelineTypeOK, TokensFresh
    <3>3. /\ DOMAIN deferred_tasks' = DOMAIN deferred_tasks \cup {next_token}
          /\ deferred_tasks'[next_token] = pending
          /\ \A u \in DOMAIN deferred_tasks : deferred_tasks'[u] = deferred_tasks[u]
      BY <3>1, <3>2, Zenon DEF Insert
    <3>4. Calls(t)
      BY <1>1, <1>4, <2>3, <2>5, <2>6, <3>1, <3>2, <3>3, Zenon DEF Calls, Evals, context, pending
    <3> QED
      BY <1>2, <3>4
  <2>7. CASE o.tag \in {"Done", "Requeued", "Failed"} /\ EvalSettled(t, o, errors)
    <3>1. /\ completed_tasks' = IF o.tag = "Done" THEN completed_tasks \cup TaskIds(t) ELSE completed_tasks
          /\ failed_tasks' = IF o.tag = "Failed" THEN failed_tasks \cup TaskIds(t) ELSE failed_tasks
          /\ task_queue' = task_queue \o o.tasks
          /\ body_values' = body_values \cup o.values
          /\ Evals(t)
          /\ UNCHANGED deferred_tasks
      BY <1>1, <1>4, <2>7 DEF EvalSettled, Evals
    <3>2. task_queue \in Seq(Task(blueprint))
      BY <1>2 DEF TypeOK, PipelineTypeOK
    <3>3. CASE o.tag = "Requeued"
      <4>1. PICK u \in Task(blueprint) :
              o.tasks = <<u>> /\ u.kind = t.kind /\ u.id = t.id /\ u.concrete = t.concrete
        BY <2>3, <3>3 DEF Suits
      <4>2. task_queue' = Append(task_queue, u)
        BY <3>1, <3>2, <4>1
      <4>3. /\ t.kind = "grpc" => /\ ~end_of_stream
                                  /\ "ready" # ActionOf(t).pred \/ "ready" # ActionOf(t).expr
            /\ t.kind # "grpc" /\ end_of_stream /\ in_response_phase
                  => t.kind # "token_usage" /\ ~t.concrete /\ IsPending(ActionOf(t).pred, t.id)
            /\ o.values = {}
        BY <2>3, <3>3 DEF Suits
      <4>4. UNCHANGED <<completed_tasks, failed_tasks, deferred_tasks>>
        BY <3>1, <3>3
      <4>5. Requeues(t)
        BY <2>5, <3>1, <4>1, <4>2, <4>3, <4>4 DEF Requeues
      <4> QED
        BY <1>2, <4>5
    <3>4. CASE o.tag # "Requeued"
      <4>1. task_queue' = task_queue
        BY <2>3, <2>7, <3>1, <3>2, <3>4 DEF Suits
      <4>2. /\ body_values \subseteq body_values'
            /\ \A k \in body_values' : \/ k \in body_values
                                       \/ t.kind = "token_usage" /\ k \in CollectBodyValues(blueprint, t.id)
        BY <2>3, <3>1 DEF Suits
      <4>3. Finishes(t)
        BY <2>3, <2>5, <2>7, <3>1, <3>4, <4>1, <4>2 DEF Finishes
      <4> QED
        BY <1>2, <4>3
    <3> QED
      BY <3>3, <3>4
  <2> QED
    BY <2>4, <2>6, <2>7
<1> QED
  BY <1>1, <1>5, <1>6

\* Nothing happens to a request before its first callback.
LEMMA NewStep ==
  ASSUME IInv, [Next]_vars, request' = "new", callback' = "none"
  PROVE  request = "new" /\ callback = "none" /\ UNCHANGED <<completed_tasks, failed_tasks, body_values>>
<1>1. CASE Step
  BY <1>1, Zenon DEF Step, DigestReply, EvalTask, filterVars, IInv, Phases
<1>2. CASE Return
  BY <1>2 DEF Return, ReturnRequest, ReturnResponseHeaders, ReturnResponseBody,
     ReturnGrpcCallResponse, RequestAfter, Resumed, IInv, Phases
<1>3. CASE HttpCallback
  BY <1>3 DEF HttpCallback, OnHttpRequestHeaders, OnHttpRequestHeadersMiss,
     OnHttpRequestHeadersError, OnHttpRequestBody, OnHttpResponseHeaders, OnHttpResponseBody, Begin
<1>4. CASE GrpcCallback
  BY <1>4 DEF GrpcCallback, OnGrpcCallResponse, OnGrpcCallResponseLate, context, filterVars, streamVars
<1>5. CASE StreamReset \/ Finished \/ UNCHANGED vars
  BY <1>5 DEF StreamReset, Finished, vars, pipelineVars, context, filterVars, streamVars
<1> QED
  BY <1>1, <1>2, <1>3, <1>4, <1>5 DEF Next

\* Every step of a pipeline that goes on is one of the moves.
LEMMA NextMoves ==
  ASSUME TInv, [Next]_vars, ~terminated'
  PROVE  ~terminated /\ Moves
<1>1. ~terminated
  BY TerminatedStep, Zenon DEF TInv, IInv, vars, pipelineVars
<1>2. CASE Step
  BY <1>1, <1>2, DigestMoves, EvalMoves DEF Step, Moves
<1>3. CASE Return
  <2>1. PICK exported \in BOOLEAN : EvalEnd(exported)
    BY <1>3 DEF Return, ReturnRequest, ReturnResponseHeaders, ReturnResponseBody,
                ReturnGrpcCallResponse
  <2>2. CASE ~TeardownDue
    BY <2>1, <2>2 DEF EvalEnd, context, Moves, Ends
  <2>3. CASE TeardownDue
    <3>1. DOMAIN deferred_tasks = {}
      BY <2>3, Zenon DEF TeardownDue, IsCompleted
    <3> DEFINE r == ReplaceDeferredWithNoop(deferred_tasks)
    <3>2. DOMAIN r = {}
      BY <3>1, Zenon DEF ReplaceDeferredWithNoop
    <3> HIDE DEF r
    <3>3. \/ deferred_tasks' = r
          \/ deferred_tasks' = Insert(r, next_token, NoopTask(<<>>, FALSE))
      BY <2>1, <2>3, Zenon DEF EvalEnd, ExecuteTeardown, r
    <3>4. LET e == Insert(r, next_token, NoopTask(<<>>, FALSE))
          IN  DOMAIN e = {next_token} /\ e[next_token].noop /\ e[next_token].id = <<>>
      BY <3>2, Zenon DEF Insert, NoopTask
    <3>5. \A t \in DOMAIN deferred_tasks' : deferred_tasks'[t].noop /\ deferred_tasks'[t].id = <<>>
      BY <3>2, <3>3, <3>4, Zenon
    <3> QED
      BY <2>1, <3>1, <3>5 DEF EvalEnd, context, Moves, Ends
  <2> QED
    BY <2>2, <2>3
<1>4. CASE HttpCallback
  <2>1. CASE OnHttpRequestHeaders
    <3>1. /\ DOMAIN deferred_tasks = {} /\ completed_tasks = {} /\ failed_tasks = {} /\ body_values = {}
      BY <1>1, <2>1 DEF TInv, IInv, Phases, Inactive, Untouched, OnHttpRequestHeaders, Idle
    <3> QED
      BY <2>1, <3>1 DEF OnHttpRequestHeaders, StartEval, Moves, Admits
  <2>2. CASE OnHttpRequestHeadersMiss \/ OnHttpRequestHeadersError
    BY <2>2 DEF OnHttpRequestHeadersMiss, OnHttpRequestHeadersError, context, Moves, Rests
  <2>3. ASSUME NEW name, Idle, Begin(name, pipeline) PROVE Moves
    <3>1. ~pipeline => task_queue = <<>>
      BY <2>3 DEF TInv, IInv, Phases, Inactive, Idle
    <3> QED
      BY <2>3, <3>1 DEF Begin, StartEval, Idle, Moves, Reschedules
  <2> QED
    BY <1>1, <1>4, <2>1, <2>2, <2>3 DEF HttpCallback, OnHttpRequestBody, OnHttpResponseHeaders, OnHttpResponseBody
<1>5. CASE GrpcCallback
  <2>1. ASSUME NEW t \in in_flight, OnGrpcCallResponseLate(t) PROVE Moves
    BY <2>1, Zenon DEF OnGrpcCallResponseLate, context, Moves, Rests
  <2>2. ASSUME NEW t \in in_flight, NEW ok \in BOOLEAN, OnGrpcCallResponse(t, ok) PROVE Moves
    <3>1. CASE t \in DOMAIN deferred_tasks
      <4>1. /\ step = "idle" /\ step' = "reply"
            /\ reply' = [NoReply EXCEPT !.pending = deferred_tasks[t], !.ok = ok]
            /\ deferred_tasks' = [u \in DOMAIN deferred_tasks \ {t} |-> deferred_tasks[u]]
            /\ UNCHANGED <<context, task_queue, tasks_to_process, completed_tasks, failed_tasks>>
        BY <2>2, <3>1 DEF OnGrpcCallResponse, Idle
      <4>2. reply'.pending = deferred_tasks[t] /\ reply'.next = 1 /\ reply'.tasks = <<>>
        BY <4>1, Zenon DEF NoReply
      <4>3. /\ DOMAIN deferred_tasks' = DOMAIN deferred_tasks \ {t}
            /\ \A u \in DOMAIN deferred_tasks' : deferred_tasks'[u] = deferred_tasks[u]
        BY <4>1, Zenon
      <4>4. Answers
        BY <3>1, <4>1, <4>2, <4>3 DEF Answers, context
      <4> QED
        BY <4>4 DEF Moves
    <3>2. CASE t \notin DOMAIN deferred_tasks
      BY <2>2, <3>2 DEF OnGrpcCallResponse, Idle, StartEval, context, Moves, Reschedules
    <3> QED
      BY <3>1, <3>2
  <2> QED
    BY <1>1, <1>5, <2>1, <2>2 DEF GrpcCallback
<1>6. CASE StreamReset \/ Finished \/ UNCHANGED vars
  BY <1>6 DEF StreamReset, Idle, Finished, vars, pipelineVars, context, Moves, Rests
<1> QED
  BY <1>1, <1>2, <1>3, <1>4, <1>5, <1>6 DEF Next

\* Every step preserves what Part 1 says.
LEMMA NextTInv == TInv /\ [Next]_vars => TInv'
<1> SUFFICES ASSUME TInv, [Next]_vars PROVE TInv'
  BY Zenon
<1>1. IInv'
  BY NextInvariant, Zenon DEF TInv
<1>2. CASE terminated'
  BY <1>1, <1>2 DEF TInv
<1>3. CASE ~terminated'
  <2>1. ~terminated /\ Moves
    BY <1>3, NextMoves
  <2>2. Running
    BY <2>1, TInvRunning, Zenon
  <2>3. Transient'
    BY <2>1, <2>2, TransientStep
  <2>4. Local'
    BY <2>1, <2>2, LocalStep DEF Local
  <2>5. Untouched'
    BY <2>1, NewStep DEF TInv, Untouched
  <2> QED
    BY <1>1, <2>3, <2>4, <2>5 DEF TInv
<1> QED
  BY <1>2, <1>3

\* Nothing has happened yet.
LEMMA InitTInv == Init => TInv
<1> SUFFICES ASSUME Init PROVE TInv
  BY Zenon
<1>1. IInv
  BY InitInvariant, Zenon
<1>2. /\ NoReply.pending.id = <<>> /\ NoReply.tasks = <<>> /\ <<>> \in Seq(LocalTasks)
      /\ DOMAIN <<>> = {}
  BY DEF NoReply, NoopTask
<1> QED
  BY <1>1, <1>2 DEF TInv, Init, Transient, Local, Untouched

-----------------------------------------------------------------------------
(* Part 2.  The executor has every action of the set in one place.         *)

PInv == TInv /\ (~terminated => \A id \in Ids(blueprint) : Placed(id))

\* Every step keeps the actions apart and in order.
LEMMA NextPInv == PInv /\ [Next]_vars => PInv'
<1> SUFFICES ASSUME PInv, [Next]_vars PROVE PInv'
  BY Zenon
<1>1. TInv'
  BY NextTInv, Zenon DEF PInv
<1>2. CASE terminated'
  BY <1>1, <1>2 DEF PInv
<1>3. CASE ~terminated'
  <2>1. TInv /\ ~terminated /\ Moves
    BY <1>3, NextMoves, Zenon DEF PInv
  <2>2. Running
    BY <2>1, TInvRunning, Zenon
  <2>3. \A id \in Ids(blueprint) : Placed(id)
    BY <2>1, Zenon DEF PInv
  <2>4. \A id \in Ids(blueprint') : Placed(id)'
    BY <2>1, <2>2, <2>3, MovesPlaced
  <2> QED
    BY <1>1, <2>4 DEF PInv
<1> QED
  BY <1>2, <1>3, Zenon

\* Nothing has happened yet.
LEMMA InitPInv == Init => PInv
<1> SUFFICES ASSUME Init PROVE PInv
  BY Zenon
<1>1. TInv
  BY InitTInv, Zenon
<1>2. Ids(blueprint) = {}
  BY DEF Init, NoBlueprint, Ids
<1> QED
  BY <1>1, <1>2 DEF PInv

\* Every step keeps the actions of the set.
LEMMA NextPresent == TInv /\ Present /\ [Next]_vars => Present'
<1> SUFFICES ASSUME TInv, Present, [Next]_vars, ~terminated' PROVE Present'
  BY Zenon DEF Present
<1>1. ~terminated /\ Moves
  BY NextMoves, Zenon
<1>2. CASE Admits
  BY <1>2, AdmitsPresent
<1>3. CASE ~Admits
  <2>1. blueprint' = blueprint
    BY <1>1, <1>3, Zenon DEF Moves, Reschedules, Answers, Takes, Settles, Requeues, Calls, Finishes, Evals,
                      Ends, Rests
  <2> QED
    BY <1>1, <1>3, <2>1, TInvRunning, MovesPresent DEF Present
<1> QED
  BY <1>2, <1>3

\* The executor's invariant holds.
THEOREM PlacedInvariance == Spec => [](PInv /\ Present)
<1>1. Init => Present
  BY DEF Init, Present, NoBlueprint, Ids
<1>2. PInv => TInv
  BY Zenon DEF PInv
<1> QED
  BY <1>1, <1>2, InitPInv, NextPInv, NextPresent, PTL DEF Spec

\* eval and digest neither lose an action nor run one twice: the executor has
\* every gRPC action of the set in one place, and one of an onReply in at most
\* one.
THEOREM NoActionLostOrRepeated == Spec => []ActionsConserved
<1>1. PInv /\ Present => ActionsConserved
  <2> SUFFICES ASSUME PInv, Present, ~terminated, NEW id \in Ids(blueprint),
                      blueprint.actions[id].op = "grpc"
               PROVE  /\ \A p, q \in Places(id) : p = q
                      /\ Len(id) = 1 => Places(id) # {}
    BY DEF ActionsConserved, GrpcIds
  <2>1. Apart(id)
    BY Zenon DEF PInv, Placed
  <2>2. \A p, q \in Places(id) : p = q
    BY <2>1 DEF Places, Apart, Has, Once, Called, CalledOnce, Settled
  <2>3. Len(id) = 1 => Places(id) # {}
    <3>1. /\ \A i \in Occurrences(task_queue, id) : <<"task_queue", i>> \in Places(id)
          /\ \A i \in Occurrences(tasks_to_process, id) : <<"tasks_to_process", i>> \in Places(id)
          /\ \A t \in DOMAIN deferred_tasks :
                deferred_tasks[t].id = id => <<"deferred_tasks", t>> \in Places(id)
          /\ id \in Answered => <<"digest", id>> \in Places(id)
          /\ id \in completed_tasks => <<"completed_tasks", id>> \in Places(id)
          /\ id \in failed_tasks => <<"failed_tasks", id>> \in Places(id)
      BY Zenon DEF Places
    <3> QED
      BY <3>1, Zenon DEF Present, Somewhere, Has, Called, Settled
  <2> QED
    BY <2>2, <2>3
<1> QED
  BY <1>1, PlacedInvariance, PTL

\* Two actions of one list never wait for an answer at the same time.
THEOREM ListsInSequence == Spec => []ListsAreSequential
<1>1. PInv => ListsAreSequential
  <2> SUFFICES ASSUME PInv, NEW t \in DOMAIN deferred_tasks, NEW u \in DOMAIN deferred_tasks, t # u,
                      ~deferred_tasks[t].noop, ~deferred_tasks[u].noop,
                      List(deferred_tasks[t].id) = List(deferred_tasks[u].id)
               PROVE  FALSE
    BY Zenon DEF ListsAreSequential
  <2> DEFINE id == deferred_tasks[t].id
             k == deferred_tasks[u].id
  <2>1. TypeOK /\ ~terminated
    BY Zenon DEF PInv, TInv, IInv, Inert
  <2>2. id \in Ids(blueprint) /\ k \in Ids(blueprint)
    BY <2>1 DEF TypeOK, PipelineTypeOK, PendingTask
  <2>3. Placed(id) /\ Placed(k) /\ Called(id) /\ Called(k) /\ List(id) = List(k)
    BY <2>1, <2>2 DEF PInv, Called
  <2> HIDE DEF id, k
  <2>4. /\ Rank(id) \in Nat \ {0} /\ id = List(id) \o <<Rank(id)>>
        /\ Rank(k) \in Nat \ {0} /\ k = List(k) \o <<Rank(k)>>
    BY <2>1, <2>2, IdFacts, Zenon DEF TypeOK
  <2>5. id # k
    BY <2>3, Zenon DEF Placed, Apart, CalledOnce, id, k
  <2>6. Rank(id) # Rank(k)
    BY <2>3, <2>4, <2>5, Zenon
  <2>7. Rank(id) \in 1..(Rank(k) - 1) \/ Rank(k) \in 1..(Rank(id) - 1)
    BY <2>4, <2>6
  <2>8. id \in completed_tasks \/ k \in completed_tasks
    BY <2>3, <2>4, <2>7, Zenon DEF Placed, InOrder
  <2> QED
    BY <2>3, <2>8 DEF Placed, Apart, Settled
<1> QED
  BY <1>1, PlacedInvariance, PTL
=============================================================================
