------------------------ MODULE KuadrantFilterProofs ------------------------
(***************************************************************************)
(* Proofs about the filter, for all well-formed blueprints, any number of  *)
(* body callbacks and every choice of the host.                            *)
(***************************************************************************)
EXTENDS KuadrantFilter, PipelineProofs, FiniteSetTheorems

\* Which callback runs, and what has not happened yet for a new request.
Phases ==
    /\ step = "idle" <=> callback = "none"
    /\ request = "new" => /\ ~pipeline /\ response = "none"
                          /\ callback \in {"none", "request_headers"}
    /\ request = "new" /\ callback = "none" => ~terminated

\* Without a pipeline there is nothing to do and no answer to wait for.
Inactive ==
    ~pipeline /\ callback # "request_headers" =>
        /\ task_queue = <<>> /\ tasks_to_process = <<>> /\ DOMAIN deferred_tasks = {}
        /\ ~teardown_tasks /\ step # "reply"

\* Tokens are never used twice.
TokensFresh == DOMAIN deferred_tasks \subseteq 0..(next_token - 1)

\* A terminated pipeline only waits for answers that have no effect.
Inert ==
    terminated =>
        /\ task_queue = <<>> /\ tasks_to_process = <<>> /\ ~teardown_tasks
        /\ \A t \in DOMAIN deferred_tasks : deferred_tasks[t].noop
        /\ step = "reply" => reply.pending.noop /\ reply.tasks = <<>>

\* The inductive invariant.
IInv == TypeOK /\ Phases /\ Inactive /\ TokensFresh /\ Inert /\ BarrierBalanced

-----------------------------------------------------------------------------

\* No reply is being processed.
LEMMA NoReplyType == \A b : NoReply \in ReplyType(b)
<1> TAKE b
<1>1. NoopTask(<<>>, FALSE) \in PendingTask(b)
  BY DEF NoopTask, PendingTask
<1>2. <<>> \in Seq(Task(b)) /\ 1 \in Nat \ {0}
  OBVIOUS
<1> QED
  BY <1>1, <1>2, Zenon DEF NoReply, ReplyType

\* An interval of tokens has only natural numbers.
LEMMA TokenInterval == \A m, n \in Nat : m..(n - 1) \subseteq Nat
  OBVIOUS

\* Nothing has happened yet.
LEMMA InitInvariant == Init => IInv
<1> SUFFICES ASSUME Init PROVE IInv
  BY Zenon
<1>1. /\ task_queue = <<>> /\ tasks_to_process = <<>> /\ DOMAIN deferred_tasks = {}
      /\ GuardCalls = {}
  BY DEF Init, GuardCalls
<1>2. reply \in ReplyType(blueprint) /\ <<>> \in Seq(Task(blueprint))
  BY NoReplyType DEF Init
<1>3. TypeOK
  BY <1>1, <1>2, Zenon DEF Init, TypeOK, PipelineTypeOK
<1>4. Cardinality(GuardCalls) = 0
  BY <1>1, FS_EmptySet, Zenon
<1>5. BarrierBalanced
  BY <1>4 DEF Init, BarrierBalanced, Owed
<1> QED
  BY <1>1, <1>3, <1>5, Zenon DEF Init, IInv, Phases, Inactive, TokensFresh, Inert

\* The guard calls are finitely many.
LEMMA GuardsFinite ==
  ASSUME NEW d, NEW n \in Nat, DOMAIN d \subseteq 0..(n - 1)
  PROVE  IsFiniteSet(Guards(d)) /\ Cardinality(Guards(d)) \in Nat
<1>1. IsFiniteSet(0..(n - 1))
  BY FS_Interval
<1>2. Guards(d) \subseteq 0..(n - 1)
  BY Zenon DEF Guards
<1> QED
  BY <1>1, <1>2, FS_Subset, FS_CardinalityType, Zenon

\* Without more guard calls there is no more to owe.
LEMMA GuardsMonotone ==
  ASSUME NEW d, NEW e, NEW n \in Nat, DOMAIN d \subseteq 0..(n - 1), Guards(e) \subseteq Guards(d)
  PROVE  IsFiniteSet(Guards(e)) /\ Cardinality(Guards(e)) \in Nat
         /\ Cardinality(Guards(e)) <= Cardinality(Guards(d))
  BY GuardsFinite, FS_Subset, FS_CardinalityType, Zenon

\* Counting keeps the metrics' type.
LEMMA CountType ==
  ASSUME NEW m \in [Metric -> Nat], NEW S
  PROVE  Count(m, S) \in [Metric -> Nat]
  BY DEF Count

\* TaskOutcome::Terminate, in eval and in digest.
LEMMA TerminateInvariant ==
  ASSUME IInv, NEW o \in OutcomeType, o.tag = "Terminate", NEW count \in Nat, NEW errors,
         count >= Cardinality(Guards(deferred_tasks)),
         pipeline \/ callback = "request_headers", step # "idle",
         TerminatePipeline(o, deferred_tasks, count, errors), UNCHANGED <<filterVars, streamVars>>
  PROVE  IInv'
<1>1. PICK last \in IF o.tasks = <<>> THEN {o} ELSE Apply(o.tasks[1]), exported \in BOOLEAN :
        LET called == last.tag = "Deferred"
            token  == IF called THEN next_token + 1 ELSE next_token
        IN  /\ exported => teardown_tasks
            /\ barrier' = IF called /\ ActionOf(o.tasks[1]).guard THEN count + 1 ELSE count
            /\ terminated' = TRUE
            /\ deferred_tasks' = ExecuteTeardown(deferred_tasks, token, exported)
            /\ teardown_tasks' = FALSE
            /\ Dispatch(IF exported THEN token + 1 ELSE token)
            /\ Effects(last, errors)
            /\ StartEval(<<>>)
            /\ UNCHANGED <<context, completed_tasks, failed_tasks>>
  BY Zenon DEF TerminatePipeline
<1> DEFINE token == IF last.tag = "Deferred" THEN next_token + 1 ELSE next_token
<1>2. /\ next_token \in Nat /\ token \in Nat /\ next_token <= token
      /\ DOMAIN deferred_tasks \subseteq 0..(next_token - 1)
  BY DEF IInv, TypeOK, PipelineTypeOK, TokensFresh
<1>3. /\ terminated' = TRUE /\ teardown_tasks' = FALSE /\ step' = "eval" /\ reply' = NoReply
      /\ task_queue' = <<>> /\ tasks_to_process' = <<>>
      /\ barrier' \in {count, count + 1}
      /\ deferred_tasks' = ExecuteTeardown(deferred_tasks, token, exported)
      /\ next_token' = (IF exported THEN token + 1 ELSE token)
      /\ in_flight' = in_flight \cup next_token..(next_token' - 1)
      /\ UNCHANGED <<blueprint, end_of_stream, in_response_phase, body_values, completed_tasks,
                     failed_tasks>>
  BY <1>1, Zenon DEF StartEval, Dispatch, context
<1>4. /\ metrics' \in [Metric -> Nat]
      /\ replies' \in Nat
  BY <1>1, CountType DEF Effects, IInv, TypeOK, PipelineTypeOK
<1>5. /\ Guards(deferred_tasks') \subseteq Guards(deferred_tasks)
      /\ DOMAIN deferred_tasks' \subseteq DOMAIN deferred_tasks \cup {token}
      /\ ~exported => DOMAIN deferred_tasks' = DOMAIN deferred_tasks
      /\ \A t \in DOMAIN deferred_tasks' : deferred_tasks'[t].noop
  BY <1>3, TeardownGuards
<1> HIDE DEF token
<1>6. TokensFresh'
  BY <1>2, <1>3, <1>5 DEF TokensFresh
<1>7. BarrierBalanced'
  <2>1. /\ Cardinality(Guards(deferred_tasks')) \in Nat
        /\ Cardinality(Guards(deferred_tasks')) <= Cardinality(Guards(deferred_tasks))
        /\ Cardinality(Guards(deferred_tasks)) \in Nat
    BY <1>2, <1>5, GuardsMonotone, GuardsFinite, Zenon
  <2>2. Owed' = Cardinality(Guards(deferred_tasks'))
    BY <1>3, <2>1 DEF Owed, GuardCalls, Guards
  <2> QED
    BY <1>3, <2>1, <2>2 DEF BarrierBalanced
<1>8. \A t \in DOMAIN deferred_tasks' : deferred_tasks'[t] \in PendingTask(blueprint)
  <2>1. \A t \in DOMAIN deferred_tasks : deferred_tasks[t] \in PendingTask(blueprint)
    BY Zenon DEF IInv, TypeOK, PipelineTypeOK
  <2>2. \A t \in DOMAIN deferred_tasks :
            NoopTask(deferred_tasks[t].id, IsGuard(deferred_tasks[t])) \in PendingTask(blueprint)
    BY <2>1, Zenon DEF NoopTask, PendingTask, IsGuard
  <2>3. NoopTask(<<>>, FALSE) \in PendingTask(blueprint)
    BY DEF NoopTask, PendingTask
  <2> QED
    BY <1>3, <2>2, <2>3, Zenon DEF ExecuteTeardown, Insert, ReplaceDeferredWithNoop
<1>9. /\ reply' \in ReplyType(blueprint)
      /\ <<>> \in Seq(Task(blueprint))
      /\ barrier' \in Nat /\ next_token' \in Nat
      /\ DOMAIN deferred_tasks' \subseteq Nat
      /\ in_flight' \subseteq Nat
  <2>1. next_token' \in Nat /\ barrier' \in Nat
    BY <1>2, <1>3
  <2>2. next_token..(next_token' - 1) \subseteq Nat /\ 0..(next_token' - 1) \subseteq Nat
    <3>1. next_token \in Nat
      BY <1>2, Zenon
    <3> QED
      BY <2>1, <3>1, TokenInterval, Zenon
  <2>3. in_flight \subseteq Nat
    BY Zenon DEF IInv, TypeOK, PipelineTypeOK
  <2>4. DOMAIN deferred_tasks' \subseteq Nat
    BY <1>6, <2>2, Zenon DEF TokensFresh
  <2>5. reply' \in ReplyType(blueprint)
    BY <1>3, NoReplyType, Zenon
  <2>6. in_flight' \subseteq Nat
    BY <1>3, <2>2, <2>3, Zenon
  <2> QED
    BY <2>1, <2>4, <2>5, <2>6
<1>10. PipelineTypeOK'
  BY <1>3, <1>4, <1>8, <1>9, Zenon DEF IInv, TypeOK, PipelineTypeOK
<1>11. TypeOK'
  BY <1>3, <1>10 DEF IInv, TypeOK, filterVars, streamVars
<1> QED
  BY <1>3, <1>5, <1>6, <1>7, <1>11, Zenon DEF IInv, Phases, Inactive, Inert, filterVars, streamVars

\* The actions of a blueprint, and the list that a reply runs.
LEMMA BlueprintFacts ==
  ASSUME TypeOK
  PROVE  /\ Ids(blueprint) \subseteq Seq(Nat)
         /\ \A id \in Ids(blueprint) : /\ blueprint.actions[id] \in Action
                                       /\ OnReply(blueprint, id) \in Seq(Ids(blueprint))
<1>1. CASE blueprint \in Blueprints
  BY <1>1, BlueprintsAssumption, Zenon DEF WellFormed
<1>2. CASE blueprint = NoBlueprint
  <2>1. Ids(blueprint) = {}
    BY <1>2 DEF NoBlueprint, Ids
  <2> QED
    BY <2>1, Zenon
<1> QED
  BY <1>1, <1>2, Zenon DEF TypeOK

\* The decorators have nothing to add to a task that is done.
LEMMA DoneStaysDone ==
  ASSUME NEW traced, NEW mode
  PROVE  LET o == WithTracing(traced, WithFailureMode(mode, Done))
         IN  o.tag = "Done" /\ o.tasks = <<>> /\ ~o.sent
<1>1. WithFailureMode(mode, Done) = Done
  <2>1. Done.tag # "Failed"
    BY Zenon DEF Done, Outcome
  <2> QED
    BY <2>1, Zenon DEF WithFailureMode
<1>2. Done.tasks = <<>> /\ Done.tag = "Done" /\ Done.sent = FALSE /\ Done \in OutcomeType
  BY OutcomeTypes, Zenon DEF Done, Outcome
<1>3. Len(<<>>) = 0
  BY Zenon
<1> QED
  BY <1>1, <1>2, <1>3 DEF WithTracing, OutcomeType

\* The end of digest: the pending task is settled and the barrier lowered.
LEMMA DigestOutcomeInvariant ==
  ASSUME IInv, step = "reply", NEW inner \in OutcomeType, inner.tag # "Deferred",
         terminated => inner = Done,
         DigestOutcome(inner), UNCHANGED <<filterVars, streamVars>>
  PROVE  IInv'
<1> DEFINE p == reply.pending
           o == WithTracing(p.traced, WithFailureMode(p.failure_mode, inner))
           count == IF p.guard THEN Lower(barrier) ELSE barrier
           errors == IF ErrorCounted(p.failure_mode, inner) THEN {"errors"} ELSE {}
<1>1. p \in PendingTask(blueprint) /\ p.guard \in BOOLEAN /\ p.traced \in BOOLEAN
      /\ p.id \in Seq(Nat)
  BY Zenon DEF IInv, TypeOK, PipelineTypeOK, ReplyType, PendingTask
<1>2. o \in OutcomeType /\ o.tag # "Deferred"
  BY <1>1, DecoratorsType, Zenon
<1>3. terminated => o.tag = "Done" /\ o.tasks = <<>> /\ ~o.sent
  BY DoneStaysDone
<1>4. \/ o.tag = "Terminate" /\ TerminatePipeline(o, deferred_tasks, count, errors)
      \/ /\ o.tag # "Terminate"
         /\ barrier' = count
         /\ completed_tasks' = IF o.tag = "Failed" THEN completed_tasks
                               ELSE completed_tasks \cup {p.id}
         /\ failed_tasks' = IF o.tag = "Failed" THEN failed_tasks \cup {p.id} ELSE failed_tasks
         /\ StartEval(o.tasks \o task_queue)
         /\ Effects(o, errors)
         /\ UNCHANGED <<context, next_token, in_flight, deferred_tasks, teardown_tasks, terminated>>
  BY Zenon DEF DigestOutcome
<1> HIDE DEF o, errors
<1>5. /\ Cardinality(Guards(deferred_tasks)) \in Nat
      /\ Owed = Cardinality(Guards(deferred_tasks)) + IF p.guard THEN 1 ELSE 0
  <2>1. Cardinality(Guards(deferred_tasks)) \in Nat
    BY GuardsFinite, Zenon DEF IInv, TypeOK, PipelineTypeOK, TokensFresh
  <2> QED
    BY <2>1, Zenon DEF Owed, GuardCalls, Guards
<1>6. /\ count \in Nat /\ count >= Cardinality(Guards(deferred_tasks))
      /\ ~terminated => count = Cardinality(Guards(deferred_tasks))
  <2>1. barrier \in Nat /\ barrier >= Owed /\ (~terminated => barrier = Owed)
    BY Zenon DEF IInv, BarrierBalanced, TypeOK, PipelineTypeOK
  <2> QED
    BY <1>1, <1>5, <2>1 DEF Lower
<1>7. pipeline \/ callback = "request_headers"
  BY Zenon DEF IInv, Inactive, TypeOK
<1> HIDE DEF count, p
<1>8. CASE o.tag = "Terminate"
  BY <1>2, <1>4, <1>6, <1>7, <1>8, TerminateInvariant
<1>9. CASE o.tag # "Terminate"
  <2>1. /\ task_queue' = <<>> /\ tasks_to_process' = o.tasks \o task_queue
        /\ step' = "eval" /\ reply' = NoReply /\ barrier' = count
        /\ UNCHANGED <<blueprint, end_of_stream, in_response_phase, body_values, next_token,
                       in_flight, deferred_tasks, teardown_tasks, terminated>>
    BY <1>4, <1>9, Zenon DEF StartEval, context
  <2>2. /\ metrics' \in [Metric -> Nat] /\ replies' \in Nat
        /\ completed_tasks' \subseteq Seq(Nat) /\ failed_tasks' \subseteq Seq(Nat)
    BY <1>1, <1>4, <1>9, CountType DEF Effects, IInv, TypeOK, PipelineTypeOK
  <2>3. /\ <<>> \in Seq(Task(blueprint)) /\ NoReply \in ReplyType(blueprint)
        /\ o.tasks \o task_queue \in Seq(Task(blueprint))
    BY <1>2, NoReplyType DEF OutcomeType, IInv, TypeOK, PipelineTypeOK
  <2>4. PipelineTypeOK'
    BY <1>6, <2>1, <2>2, <2>3, Zenon DEF IInv, TypeOK, PipelineTypeOK
  <2>5. TypeOK'
    BY <2>1, <2>4 DEF IInv, TypeOK, filterVars, streamVars
  <2>6. Owed' = Cardinality(Guards(deferred_tasks))
    BY <1>5, <2>1 DEF Owed, GuardCalls, Guards
  <2>7. BarrierBalanced'
    BY <1>5, <1>6, <2>1, <2>6, Zenon DEF BarrierBalanced
  <2>8. terminated => tasks_to_process' = <<>>
    BY <1>3, <2>1 DEF IInv, Inert
  <2>9. Inert'
    BY <2>1, <2>8, Zenon DEF IInv, Inert
  <2> QED
    BY <1>7, <2>1, <2>5, <2>7, <2>9
       DEF IInv, Phases, Inactive, TokensFresh, filterVars, streamVars
<1> QED
  BY <1>8, <1>9, Zenon

\* The task of an onReply action that was taken.
LEMMA ReplyTaskType ==
  ASSUME TypeOK, NEW id \in Ids(blueprint), NEW verdict \in ReplyVerdicts(id),
         verdict \in {"push", "terminate"}
  PROVE  ReplyTask(id) \in Task(blueprint)
<1> DEFINE a == blueprint.actions[id]
<1>1. a \in Action /\ id \in Seq(Nat)
  BY BlueprintFacts, Zenon
<1>2. a.op # "fail"
  BY Zenon DEF ReplyVerdicts
<1>3. a.op \in TaskKind
  BY <1>1, <1>2, Zenon DEF Action, TaskKind
<1>4. MakeTask(a.op, id) \in Task(blueprint)
  BY <1>1, <1>3, MakeTaskType, Zenon
<1>5. (a.op # "grpc") \in BOOLEAN
  BY Zenon
<1> HIDE DEF a
<1>6. [MakeTask(a.op, id) EXCEPT !.concrete = (a.op # "grpc")] \in Task(blueprint)
  BY <1>4, <1>5, Zenon DEF Task
<1> QED
  BY <1>6, Zenon DEF ReplyTask, a

\* digest, up to the point where it evaluates the queue.
LEMMA DigestReplyInvariant ==
  ASSUME IInv, DigestReply, UNCHANGED <<filterVars, streamVars>>
  PROVE  IInv'
<1>1. step = "reply" /\ reply \in ReplyType(blueprint) /\ TypeOK
  BY Zenon DEF DigestReply, IInv, TypeOK, PipelineTypeOK
<1>2. /\ reply.pending \in PendingTask(blueprint) /\ reply.tasks \in Seq(Task(blueprint))
      /\ reply.next \in Nat \ {0}
      /\ terminated => reply.pending.noop /\ reply.tasks = <<>>
  BY <1>1, Zenon DEF ReplyType, IInv, Inert
<1>3. CASE DigestDone
  <2> DEFINE inner == IF reply.tasks = <<>> THEN Done ELSE Requeued(reply.tasks)
  <2>1. inner \in OutcomeType /\ inner.tag # "Deferred"
    BY <1>2, OutcomeTypes, Zenon DEF Done, Requeued, Outcome
  <2>2. terminated => inner = Done
    BY <1>2, Zenon
  <2>3. DigestOutcome(inner)
    BY <1>3, Zenon DEF DigestDone
  <2> HIDE DEF inner
  <2> QED
    BY <1>1, <2>1, <2>2, <2>3, DigestOutcomeInvariant, Zenon
<1>4. Failed \in OutcomeType /\ Failed.tag # "Deferred"
  BY OutcomeTypes, Zenon DEF Failed, Outcome
<1>5. CASE DigestError
  BY <1>1, <1>2, <1>4, <1>5, DigestOutcomeInvariant, Zenon DEF DigestError
<1>6. CASE DigestAction
  <2>1. ~terminated
    BY <1>2, <1>6, Zenon DEF DigestAction
  <2> DEFINE id == OnReply(blueprint, reply.pending.id)[reply.next]
  <2>2. PICK verdict \in ReplyVerdicts(id) :
              \/ /\ verdict = "fail"
                 /\ DigestOutcome(Failed)
              \/ /\ verdict = "terminate"
                 /\ DigestOutcome(Terminate(<<ReplyTask(id)>>))
              \/ /\ verdict \in {"skip", "push"}
                 /\ reply' = [reply EXCEPT
                        !.next = @ + 1,
                        !.tasks = IF verdict = "push" THEN Append(@, ReplyTask(id)) ELSE @]
                 /\ UNCHANGED <<context, host, task_queue, deferred_tasks, completed_tasks,
                                teardown_tasks, terminated, barrier, tasks_to_process, step,
                                failed_tasks>>
    BY <1>6, Zenon DEF DigestAction
  <2>3. id \in Ids(blueprint)
    <3>1. reply.pending.id \in Ids(blueprint)
      BY <1>2, <1>6, Zenon DEF DigestAction, PendingTask
    <3>2. OnReply(blueprint, reply.pending.id) \in Seq(Ids(blueprint))
      BY <1>1, <3>1, BlueprintFacts, Zenon
    <3> QED
      BY <1>2, <1>6, <3>2 DEF DigestAction
  <2> HIDE DEF id
  <2>4. verdict \in {"push", "terminate"} => ReplyTask(id) \in Task(blueprint)
    BY <1>1, <2>3, ReplyTaskType, Zenon
  <2>5. CASE verdict = "fail"
    BY <1>1, <1>4, <2>1, <2>2, <2>5, DigestOutcomeInvariant
  <2>6. CASE verdict = "terminate"
    <3>1. <<ReplyTask(id)>> \in Seq(Task(blueprint))
      BY <2>4, <2>6
    <3>2. /\ Terminate(<<ReplyTask(id)>>) \in OutcomeType
          /\ Terminate(<<ReplyTask(id)>>).tag # "Deferred"
      BY <3>1, OutcomeTypes, Zenon DEF Terminate, Outcome
    <3>3. DigestOutcome(Terminate(<<ReplyTask(id)>>))
      BY <2>2, <2>6, Zenon
    <3> QED
      BY <1>1, <2>1, <3>2, <3>3, DigestOutcomeInvariant
  <2>7. CASE verdict \in {"skip", "push"}
    <3> DEFINE tasks == IF verdict = "push" THEN Append(reply.tasks, ReplyTask(id)) ELSE reply.tasks
    <3>1. tasks \in Seq(Task(blueprint))
      BY <1>2, <2>4
    <3>2. reply' = [reply EXCEPT !.next = reply.next + 1, !.tasks = tasks]
      BY <2>2, <2>7, Zenon
    <3> HIDE DEF tasks
    <3>3. reply' \in ReplyType(blueprint) /\ reply'.pending = reply.pending
      <4>1. reply.next + 1 \in Nat \ {0}
        BY <1>2
      <4>2. reply \in [pending : PendingTask(blueprint), ok : BOOLEAN, next : Nat \ {0},
                        tasks : Seq(Task(blueprint))]
        BY <1>1, Zenon DEF ReplyType
      <4>3. \A n \in Nat \ {0} : \A s \in Seq(Task(blueprint)) :
              /\ [reply EXCEPT !.next = n, !.tasks = s] \in ReplyType(blueprint)
              /\ [reply EXCEPT !.next = n, !.tasks = s].pending = reply.pending
        BY <4>2, Zenon DEF ReplyType
      <4> QED
        BY <3>1, <3>2, <4>1, <4>3, Zenon
    <3>4. UNCHANGED <<context, host, task_queue, deferred_tasks, completed_tasks,
                      teardown_tasks, terminated, barrier, tasks_to_process, step, failed_tasks>>
      BY <2>2, <2>7, Zenon
    <3>5. TypeOK'
      BY <1>1, <3>3, <3>4 DEF TypeOK, PipelineTypeOK, context, host, filterVars, streamVars
    <3>6. BarrierBalanced'
      BY <3>3, <3>4, Zenon DEF IInv, BarrierBalanced, Owed, GuardCalls
    <3> QED
      BY <2>1, <3>4, <3>5, <3>6, Zenon
         DEF IInv, Phases, Inactive, TokensFresh, Inert, context, host, filterVars, streamVars
  <2> QED
    BY <2>2, <2>5, <2>6, <2>7, Zenon
<1> QED
  BY <1>3, <1>5, <1>6, Zenon DEF DigestReply

\* eval, one task.
LEMMA EvalTaskInvariant ==
  ASSUME IInv, EvalTask, UNCHANGED <<filterVars, streamVars>>
  PROVE  IInv'
<1> DEFINE t == Head(tasks_to_process)
<1>1. /\ step = "eval" /\ tasks_to_process # <<>>
      /\ EvalBlocked(t) \/ EvalApply(t)
  BY Zenon DEF EvalTask
<1>2. /\ TypeOK /\ PipelineTypeOK
      /\ t \in Task(blueprint) /\ Tail(tasks_to_process) \in Seq(Task(blueprint))
  BY <1>1 DEF IInv, TypeOK, PipelineTypeOK
<1>3. ~terminated /\ (pipeline \/ callback = "request_headers")
  BY <1>1, Zenon DEF IInv, Inert, Inactive, TypeOK
<1>4. t.traced \in BOOLEAN /\ t.id \in Seq(Nat)
  BY <1>2, Zenon DEF Task
<1>5. /\ Cardinality(Guards(deferred_tasks)) \in Nat /\ IsFiniteSet(Guards(deferred_tasks))
      /\ barrier = Cardinality(Guards(deferred_tasks)) /\ barrier \in Nat
  <2>1. Cardinality(Guards(deferred_tasks)) \in Nat /\ IsFiniteSet(Guards(deferred_tasks))
    BY <1>2, GuardsFinite, Zenon DEF IInv, PipelineTypeOK, TokensFresh
  <2> QED
    BY <1>1, <1>2, <1>3, <2>1 DEF IInv, BarrierBalanced, Owed, GuardCalls, Guards, PipelineTypeOK
<1> HIDE DEF t
<1>6. CASE EvalBlocked(t)
  <2>1. Append(task_queue, t) \in Seq(Task(blueprint))
    BY <1>2 DEF PipelineTypeOK
  <2>2. /\ task_queue' = Append(task_queue, t)
        /\ tasks_to_process' = Tail(tasks_to_process)
        /\ UNCHANGED <<context, host, deferred_tasks, completed_tasks, teardown_tasks, terminated,
                       barrier, reply, step, failed_tasks>>
    BY <1>6, Zenon DEF EvalBlocked
  <2>3. TypeOK'
    BY <1>2, <2>1, <2>2 DEF TypeOK, PipelineTypeOK, context, host, filterVars, streamVars
  <2>4. BarrierBalanced'
    BY <2>2, Zenon DEF IInv, BarrierBalanced, Owed, GuardCalls
  <2> QED
    BY <1>3, <2>2, <2>3, <2>4, Zenon
       DEF IInv, Phases, Inactive, TokensFresh, Inert, context, host, filterVars, streamVars
<1>7. CASE EvalApply(t)
  <2>1. PICK inner \in Apply(t) :
          LET o == WithTracing(t.traced, WithFailureMode(t.failure_mode, inner))
              errors == IF ErrorCounted(t.failure_mode, inner) THEN {"errors"} ELSE {}
          IN  \/ o.tag = "Deferred" /\ EvalDeferred(t)
              \/ o.tag \in {"Done", "Requeued", "Failed"} /\ EvalSettled(t, o, errors)
              \/ o.tag = "Terminate" /\ TerminatePipeline(o, deferred_tasks, barrier, errors)
    BY <1>7, Zenon DEF EvalApply
  <2> DEFINE o == WithTracing(t.traced, WithFailureMode(t.failure_mode, inner))
             errors == IF ErrorCounted(t.failure_mode, inner) THEN {"errors"} ELSE {}
  <2>2. inner \in OutcomeType /\ (inner.tag = "Deferred" => t.kind = "grpc")
    BY <1>2, ApplyType, BlueprintFacts, Zenon
  <2>3. o \in OutcomeType /\ (o.tag = "Deferred" => t.kind = "grpc")
    BY <1>4, <2>2, DecoratorsType, Zenon
  <2>4. \/ o.tag = "Deferred" /\ EvalDeferred(t)
        \/ o.tag \in {"Done", "Requeued", "Failed"} /\ EvalSettled(t, o, errors)
        \/ o.tag = "Terminate" /\ TerminatePipeline(o, deferred_tasks, barrier, errors)
    BY <2>1, Zenon
  <2> HIDE DEF o, errors
  <2>5. CASE o.tag = "Deferred" /\ EvalDeferred(t)
    <3> DEFINE pending == [id |-> t.id, guard |-> ActionOf(t).guard,
                           failure_mode |-> t.failure_mode, traced |-> t.traced, noop |-> FALSE]
    <3>1. t.id \in Ids(blueprint) /\ ActionOf(t).guard \in BOOLEAN
      <4>1. t.kind = "grpc"
        BY <2>3, <2>5, Zenon
      <4>2. t.id \in Ids(blueprint)
        BY <1>2, <4>1, Zenon DEF Task
      <4>3. blueprint.actions[t.id] \in Action
        BY <1>2, <4>2, BlueprintFacts, Zenon
      <4> QED
        BY <4>2, <4>3, Zenon DEF ActionOf, Action
    <3>2. pending \in PendingTask(blueprint) /\ pending.guard = ActionOf(t).guard
      BY <1>2, <1>4, <3>1, Zenon DEF PendingTask, Task
    <3>3. /\ deferred_tasks' = Insert(deferred_tasks, next_token, pending)
          /\ barrier' = IF ActionOf(t).guard THEN barrier + 1 ELSE barrier
          /\ next_token' = next_token + 1
          /\ in_flight' = in_flight \cup next_token..((next_token + 1) - 1)
          /\ tasks_to_process' = Tail(tasks_to_process)
          /\ UNCHANGED <<context, replies, metrics, task_queue, completed_tasks, teardown_tasks,
                         terminated, reply, step, failed_tasks>>
      BY <2>5, Zenon DEF EvalDeferred, Dispatch
    <3> HIDE DEF pending
    <3>4. /\ next_token \in Nat /\ next_token \notin DOMAIN deferred_tasks
          /\ DOMAIN deferred_tasks \subseteq 0..(next_token - 1)
      BY <1>2 DEF IInv, PipelineTypeOK, TokensFresh
    <3>5. /\ DOMAIN deferred_tasks' = DOMAIN deferred_tasks \cup {next_token}
          /\ deferred_tasks'[next_token] = pending
          /\ \A u \in DOMAIN deferred_tasks : deferred_tasks'[u] = deferred_tasks[u]
      BY <3>3, <3>4, Zenon DEF Insert
    <3>6. /\ ActionOf(t).guard => Guards(deferred_tasks') = Guards(deferred_tasks) \cup {next_token}
          /\ ~ActionOf(t).guard => Guards(deferred_tasks') = Guards(deferred_tasks)
      BY <3>2, <3>4, <3>5, Zenon DEF Guards
    <3>7. barrier' = Cardinality(Guards(deferred_tasks'))
      <4>1. CASE ActionOf(t).guard
        <5>1. next_token \notin Guards(deferred_tasks)
          BY <3>4, Zenon DEF Guards
        <5>2. Cardinality(Guards(deferred_tasks) \cup {next_token})
                = Cardinality(Guards(deferred_tasks)) + 1
          BY <1>5, <5>1, FS_AddElement, Zenon
        <5> QED
          BY <1>5, <3>3, <3>6, <4>1, <5>2, Zenon
      <4>2. CASE ~ActionOf(t).guard
        BY <1>5, <3>3, <3>6, <4>2
      <4> QED
        BY <4>1, <4>2, Zenon
    <3>8. /\ barrier' \in Nat /\ next_token' \in Nat
          /\ DOMAIN deferred_tasks' \subseteq 0..(next_token' - 1)
      BY <1>5, <3>3, <3>4, <3>5
    <3>9. /\ in_flight' \subseteq Nat
          /\ DOMAIN deferred_tasks' \subseteq Nat
          /\ \A u \in DOMAIN deferred_tasks' : deferred_tasks'[u] \in PendingTask(blueprint)
      <4>1. /\ in_flight \subseteq Nat /\ DOMAIN deferred_tasks \subseteq Nat
            /\ \A u \in DOMAIN deferred_tasks : deferred_tasks[u] \in PendingTask(blueprint)
        BY <1>2, Zenon DEF PipelineTypeOK
      <4>2. next_token..((next_token + 1) - 1) \subseteq Nat
        BY <3>4
      <4>3. in_flight' \subseteq Nat
        BY <3>3, <4>1, <4>2, Zenon
      <4>4. DOMAIN deferred_tasks' \subseteq Nat
        BY <3>4, <3>5, <4>1, Zenon
      <4>5. \A u \in DOMAIN deferred_tasks' : deferred_tasks'[u] \in PendingTask(blueprint)
        BY <3>2, <3>5, <4>1, Zenon
      <4> QED
        BY <4>3, <4>4, <4>5, Zenon
    <3>10. PipelineTypeOK'
      BY <1>2, <3>3, <3>8, <3>9 DEF PipelineTypeOK, context
    <3>11. TypeOK'
      BY <1>2, <3>3, <3>10 DEF TypeOK, context, filterVars, streamVars
    <3>12. BarrierBalanced'
      <4>1. Owed' = Cardinality(Guards(deferred_tasks'))
        BY <1>1, <3>3, <3>7, <3>8 DEF Owed, GuardCalls, Guards
      <4> QED
        BY <3>7, <3>8, <4>1 DEF BarrierBalanced
    <3> QED
      BY <1>3, <3>3, <3>8, <3>11, <3>12
         DEF IInv, Phases, Inactive, TokensFresh, Inert, context, filterVars, streamVars
  <2>6. CASE o.tag \in {"Done", "Requeued", "Failed"} /\ EvalSettled(t, o, errors)
    <3>1. TaskIds(t) \subseteq Seq(Nat)
      BY <1>4, Zenon DEF TaskIds
    <3>2. o.tasks \in Seq(Task(blueprint)) /\ o.values \subseteq Seq(Nat)
      BY <2>3, Zenon DEF OutcomeType
    <3>3. /\ task_queue' = task_queue \o o.tasks
          /\ body_values' = body_values \cup o.values
          /\ tasks_to_process' = Tail(tasks_to_process)
          /\ UNCHANGED <<blueprint, end_of_stream, in_response_phase, next_token, in_flight,
                         deferred_tasks, teardown_tasks, terminated, barrier, reply, step>>
      BY <2>6, Zenon DEF EvalSettled
    <3>4. /\ completed_tasks' \subseteq Seq(Nat) /\ failed_tasks' \subseteq Seq(Nat)
          /\ metrics' \in [Metric -> Nat] /\ replies' \in Nat
      <4>1. /\ completed_tasks \subseteq Seq(Nat) /\ failed_tasks \subseteq Seq(Nat)
            /\ metrics \in [Metric -> Nat] /\ replies \in Nat
        BY <1>2, Zenon DEF PipelineTypeOK
      <4>2. metrics' \in [Metric -> Nat] /\ replies' \in Nat
        BY <2>6, <4>1, CountType DEF EvalSettled, Effects
      <4>3. completed_tasks' \subseteq Seq(Nat) /\ failed_tasks' \subseteq Seq(Nat)
        BY <2>6, <3>1, <4>1, Zenon DEF EvalSettled
      <4> QED
        BY <4>2, <4>3, Zenon
    <3>5. task_queue' \in Seq(Task(blueprint)) /\ body_values' \subseteq Seq(Nat)
      BY <1>2, <3>2, <3>3 DEF PipelineTypeOK
    <3>6. PipelineTypeOK'
      BY <1>2, <3>3, <3>4, <3>5, Zenon DEF PipelineTypeOK
    <3>7. TypeOK'
      BY <1>2, <3>3, <3>6 DEF TypeOK, filterVars, streamVars
    <3>8. BarrierBalanced'
      BY <3>3, Zenon DEF IInv, BarrierBalanced, Owed, GuardCalls
    <3> QED
      BY <1>3, <3>3, <3>7, <3>8
         DEF IInv, Phases, Inactive, TokensFresh, Inert, filterVars, streamVars
  <2>7. CASE o.tag = "Terminate" /\ TerminatePipeline(o, deferred_tasks, barrier, errors)
    BY <1>1, <1>3, <1>5, <2>3, <2>7, TerminateInvariant
  <2> QED
    BY <2>4, <2>5, <2>6, <2>7, Zenon
<1> QED
  BY <1>1, <1>6, <1>7, Zenon

\* The end of eval: the teardown, if there is nothing else to wait for.
LEMMA EvalEndFacts ==
  ASSUME IInv, NEW exported \in BOOLEAN, EvalEnd(exported)
  PROVE  /\ step = "eval" /\ step' = "idle" /\ tasks_to_process' = <<>>
         /\ UNCHANGED <<context, replies, metrics, task_queue, completed_tasks, terminated,
                        barrier, reply, failed_tasks>>
         /\ PipelineTypeOK' /\ TokensFresh' /\ Inert' /\ BarrierBalanced'
         /\ task_queue = <<>> /\ DOMAIN deferred_tasks' = {} => ~teardown_tasks'
         /\ ~teardown_tasks => UNCHANGED <<deferred_tasks, teardown_tasks, next_token>>
<1>1. /\ step = "eval" /\ step' = "idle" /\ tasks_to_process = <<>> /\ tasks_to_process' = <<>>
      /\ exported => TeardownDue
      /\ deferred_tasks' = IF TeardownDue
                           THEN ExecuteTeardown(deferred_tasks, next_token, exported)
                           ELSE deferred_tasks
      /\ teardown_tasks' = (teardown_tasks /\ ~TeardownDue)
      /\ next_token' = IF exported THEN next_token + 1 ELSE next_token
      /\ in_flight' = in_flight \cup next_token..(next_token' - 1)
      /\ UNCHANGED <<context, replies, metrics, task_queue, completed_tasks, terminated, barrier,
                     reply, failed_tasks>>
  BY Zenon DEF EvalEnd, Dispatch
<1>2. TypeOK /\ PipelineTypeOK /\ teardown_tasks \in BOOLEAN /\ next_token \in Nat
  BY Zenon DEF IInv, TypeOK, PipelineTypeOK
<1>3. next_token' \in Nat /\ in_flight' \subseteq Nat
  BY <1>1, <1>2 DEF PipelineTypeOK
<1>4. CASE TeardownDue
  <2>1. task_queue = <<>> /\ DOMAIN deferred_tasks = {} /\ teardown_tasks
    BY <1>4, Zenon DEF TeardownDue, IsCompleted
  <2>2. Guards(deferred_tasks) = {}
    BY <2>1, Zenon DEF Guards
  <2>3. /\ Guards(deferred_tasks') \subseteq Guards(deferred_tasks)
        /\ DOMAIN deferred_tasks' \subseteq DOMAIN deferred_tasks \cup {next_token}
        /\ ~exported => DOMAIN deferred_tasks' = DOMAIN deferred_tasks
        /\ \A t \in DOMAIN deferred_tasks' : deferred_tasks'[t].noop
    BY <1>1, <1>4, TeardownGuards
  <2>4. TokensFresh'
    BY <1>1, <1>2, <1>3, <2>1, <2>3 DEF TokensFresh
  <2>5. \A t \in DOMAIN deferred_tasks' : deferred_tasks'[t] \in PendingTask(blueprint)
    <3>1. NoopTask(<<>>, FALSE) \in PendingTask(blueprint)
      BY DEF NoopTask, PendingTask
    <3> DEFINE r == ReplaceDeferredWithNoop(deferred_tasks)
    <3>2. DOMAIN r = {}
      BY <2>1, Zenon DEF ReplaceDeferredWithNoop
    <3> HIDE DEF r
    <3>3. \/ deferred_tasks' = r
          \/ deferred_tasks' = Insert(r, next_token, NoopTask(<<>>, FALSE))
      BY <1>1, <1>4, Zenon DEF ExecuteTeardown, r
    <3>4. LET e == Insert(r, next_token, NoopTask(<<>>, FALSE))
          IN  DOMAIN e = {next_token} /\ e[next_token] = NoopTask(<<>>, FALSE)
      BY <3>2, Zenon DEF Insert
    <3> QED
      BY <3>1, <3>2, <3>3, <3>4, Zenon
  <2>6. DOMAIN deferred_tasks' \subseteq Nat /\ <<>> \in Seq(Task(blueprint))
    BY <1>2, <2>1, <2>3
  <2>7. PipelineTypeOK'
    BY <1>1, <1>2, <1>3, <2>5, <2>6, Zenon DEF PipelineTypeOK, context
  <2>8. Owed' = 0 /\ Owed = 0
    <3>1. GuardCalls = {} /\ GuardCalls' = {}
      BY <2>2, <2>3, Zenon DEF GuardCalls, Guards
    <3>2. Cardinality(GuardCalls) = 0 /\ Cardinality(GuardCalls)' = 0
      BY <3>1, FS_EmptySet, Zenon
    <3> QED
      BY <1>1, <3>2 DEF Owed
  <2>9. BarrierBalanced'
    BY <1>1, <2>8, Zenon DEF IInv, BarrierBalanced
  <2>10. Inert'
    BY <1>1, <2>1, Zenon DEF IInv, Inert
  <2>11. ~teardown_tasks'
    BY <1>1, <1>4, Zenon
  <2> QED
    BY <1>1, <2>1, <2>4, <2>7, <2>9, <2>10, <2>11, Zenon
<1>5. CASE ~TeardownDue
  <2>1. UNCHANGED <<deferred_tasks, teardown_tasks, next_token>>
    BY <1>1, <1>2, <1>5, Zenon
  <2>2. <<>> \in Seq(Task(blueprint))
    OBVIOUS
  <2>3. PipelineTypeOK'
    BY <1>1, <1>2, <1>3, <2>1, <2>2 DEF PipelineTypeOK, context
  <2>4. Owed' = Owed
    <3>1. GuardCalls' = GuardCalls
      BY <2>1, Zenon DEF GuardCalls
    <3> QED
      BY <1>1, <3>1, Zenon DEF Owed
  <2>5. BarrierBalanced'
    BY <1>1, <2>4, Zenon DEF IInv, BarrierBalanced
  <2>6. task_queue = <<>> /\ DOMAIN deferred_tasks' = {} => ~teardown_tasks'
    BY <1>5, <2>1, Zenon DEF TeardownDue, IsCompleted
  <2> QED
    BY <1>1, <2>1, <2>3, <2>5, <2>6, Zenon DEF IInv, Inert, TokensFresh
<1> QED
  BY <1>4, <1>5, Zenon

\* The end of a callback: the filter drops a pipeline that is completed.
LEMMA ReturnInvariant ==
  ASSUME IInv, NEW exported \in BOOLEAN,
         \/ ReturnRequest(exported) \/ ReturnResponseHeaders(exported)
         \/ ReturnResponseBody(exported) \/ ReturnGrpcCallResponse(exported)
  PROVE  IInv'
<1>1. EvalEnd(exported)
  BY Zenon DEF ReturnRequest, ReturnResponseHeaders, ReturnResponseBody, ReturnGrpcCallResponse
<1>2. /\ step = "eval" /\ step' = "idle" /\ tasks_to_process' = <<>>
      /\ task_queue' = task_queue /\ blueprint' = blueprint /\ terminated' = terminated
      /\ PipelineTypeOK' /\ TokensFresh' /\ Inert' /\ BarrierBalanced'
      /\ task_queue = <<>> /\ DOMAIN deferred_tasks' = {} => ~teardown_tasks'
      /\ ~teardown_tasks => UNCHANGED <<deferred_tasks, teardown_tasks>>
  BY <1>1, EvalEndFacts, Zenon DEF context
<1>3. callback' = "none"
  BY Zenon DEF ReturnRequest, ReturnResponseHeaders, ReturnResponseBody, ReturnGrpcCallResponse
<1>4. pipeline' \in BOOLEAN
      /\ (~pipeline' => \/ IsCompleted(deferred_tasks')
                        \/ ~pipeline /\ callback # "request_headers")
  <2>1. \/ pipeline' = (HasPipeline /\ ~IsCompleted(deferred_tasks'))
        \/ pipeline' = ~IsCompleted(deferred_tasks')
    BY Zenon DEF ReturnRequest, ReturnResponseHeaders, ReturnResponseBody, ReturnGrpcCallResponse
  <2> QED
    BY <2>1, Zenon DEF HasPipeline
<1>5. Inactive'
  BY <1>2, <1>3, <1>4, Zenon DEF Inactive, IsCompleted, IInv
<1>6. request' # "new" /\ request' \in {"new", "held", "passed", "body_held", "replied"}
  <2>1. callback # "request_headers" => request # "new"
    BY <1>2, Zenon DEF IInv, Phases
  <2>2. request \in {"new", "held", "passed", "body_held", "replied"}
    BY Zenon DEF IInv, TypeOK
  <2> QED
    BY <2>1, <2>2, Zenon DEF ReturnRequest, ReturnResponseHeaders, ReturnResponseBody,
       ReturnGrpcCallResponse, RequestAfter, Resumed
<1>7. /\ response' \in {"none", "held", "passed", "body_held", "done", "reset"}
      /\ force_resume' \in BOOLEAN
      /\ UNCHANGED <<response_ended, request_chunks, response_chunks>>
  BY Zenon DEF ReturnRequest, ReturnResponseHeaders, ReturnResponseBody, ReturnGrpcCallResponse,
         ResponsePassed, Resumed, IInv, TypeOK
<1>8. TypeOK'
  BY <1>2, <1>3, <1>4, <1>6, <1>7 DEF IInv, TypeOK
<1> QED
  BY <1>2, <1>3, <1>5, <1>6, <1>8 DEF IInv, Phases

\* Between callbacks nothing that is owed is with digest.
LEMMA OwedIsCalls ==
  ASSUME IInv
  PROVE  /\ IsFiniteSet(GuardCalls) /\ Cardinality(GuardCalls) \in Nat
         /\ step # "reply" => Owed = Cardinality(GuardCalls)
<1>1. GuardCalls = Guards(deferred_tasks)
  BY Zenon DEF GuardCalls, Guards
<1>2. IsFiniteSet(GuardCalls) /\ Cardinality(GuardCalls) \in Nat
  BY <1>1, GuardsFinite, Zenon DEF IInv, TypeOK, PipelineTypeOK, TokensFresh
<1> QED
  BY <1>2 DEF Owed

\* A callback other than the first: the queue of the pipeline is evaluated.
LEMMA BeginInvariant ==
  ASSUME IInv, Idle, request # "new",
         NEW name \in {"request_body", "response_headers", "response_body"},
         Begin(name, pipeline),
         end_of_stream' \in BOOLEAN, in_response_phase' \in BOOLEAN, metrics' \in [Metric -> Nat],
         response_ended' \in BOOLEAN, request_chunks' \in Nat, response_chunks' \in Nat,
         UNCHANGED <<request, response>>
  PROVE  IInv'
<1>1. /\ callback' = name /\ task_queue' = <<>> /\ step' = "eval" /\ reply' = NoReply
      /\ tasks_to_process' = IF pipeline THEN task_queue ELSE <<>>
      /\ UNCHANGED <<blueprint, body_values, deferred_tasks, completed_tasks, teardown_tasks,
                     terminated, barrier, next_token, in_flight, replies, failed_tasks, pipeline,
                     force_resume>>
  BY Zenon DEF Begin, StartEval
<1>2. TypeOK /\ PipelineTypeOK /\ step = "idle" /\ callback = "none"
  BY Zenon DEF IInv, TypeOK, Idle, Phases
<1>3. /\ <<>> \in Seq(Task(blueprint)) /\ NoReply \in ReplyType(blueprint)
      /\ task_queue \in Seq(Task(blueprint))
  BY <1>2, NoReplyType DEF PipelineTypeOK
<1>4. PipelineTypeOK'
  BY <1>1, <1>2, <1>3, Zenon DEF PipelineTypeOK
<1>5. TypeOK'
  BY <1>1, <1>2, <1>4, Zenon DEF TypeOK
<1>6. BarrierBalanced'
  <2>1. GuardCalls' = GuardCalls
    BY <1>1, Zenon DEF GuardCalls
  <2>2. Owed' = Owed
    BY <1>1, <1>2, <2>1, Zenon DEF Owed
  <2> QED
    BY <1>1, <2>2, Zenon DEF IInv, BarrierBalanced
<1>7. Inert'
  BY <1>1, Zenon DEF IInv, Inert
<1>8. Inactive'
  BY <1>1, <1>2, Zenon DEF IInv, Inactive
<1> QED
  BY <1>1, <1>5, <1>6, <1>7, <1>8 DEF IInv, Phases, TokensFresh

\* The HTTP callbacks.
LEMMA HttpCallbackInvariant == IInv /\ HttpCallback => IInv'
<1> SUFFICES ASSUME IInv, HttpCallback PROVE IInv'
  BY Zenon
<1>1. TypeOK /\ PipelineTypeOK
  BY Zenon DEF IInv, TypeOK
<1>2. /\ end_of_stream \in BOOLEAN /\ in_response_phase \in BOOLEAN
      /\ metrics \in [Metric -> Nat] /\ replies \in Nat
  BY <1>1, Zenon DEF PipelineTypeOK
<1>3. /\ response_ended \in BOOLEAN /\ request_chunks \in Nat /\ response_chunks \in Nat
  BY <1>1, Zenon DEF TypeOK
<1>4. ASSUME OnHttpRequestHeaders PROVE IInv'
  <2>1. /\ step = "idle" /\ callback = "none" /\ ~pipeline /\ ~terminated /\ request = "new"
        /\ task_queue = <<>> /\ tasks_to_process = <<>> /\ DOMAIN deferred_tasks = {}
    BY <1>4, Zenon DEF IInv, Phases, Inactive, OnHttpRequestHeaders, Idle
  <2>2. PICK b \in Blueprints : /\ blueprint' = b /\ teardown_tasks' = HasTeardown(b)
                                /\ StartEval(ToTasks(b))
    BY <1>4, Zenon DEF OnHttpRequestHeaders
  <2>3. /\ tasks_to_process' = ToTasks(b) /\ task_queue' = <<>>
        /\ step' = "eval" /\ reply' = NoReply /\ callback' = "request_headers"
        /\ metrics' = Count(metrics, {"hits"})
        /\ UNCHANGED <<deferred_tasks, completed_tasks, terminated, barrier, end_of_stream,
                       in_response_phase, body_values, next_token, in_flight, replies,
                       failed_tasks, pipeline, force_resume, streamVars>>
    BY <1>4, <2>2, Zenon DEF OnHttpRequestHeaders, StartEval
  <2>4. /\ ToTasks(b) \in Seq(Task(b)) /\ <<>> \in Seq(Task(b)) /\ NoReply \in ReplyType(b)
        /\ HasTeardown(b) \in BOOLEAN
    <3>1. Listed(b, ToTasks(b), Len(OnReply(b, <<>>)))
      BY BlueprintsAssumption, ToTasksListed, Zenon
    <3>2. ToTasks(b) \in Seq(Task(b))
      BY <3>1, Zenon DEF Listed
    <3>3. <<>> \in Seq(Task(b))
      OBVIOUS
    <3>4. HasTeardown(b) \in BOOLEAN
      BY Zenon DEF HasTeardown
    <3> QED
      BY <3>2, <3>3, <3>4, NoReplyType, Zenon
  <2>5. metrics' \in [Metric -> Nat]
    BY <1>2, <2>3, CountType, Zenon
  <2>6. PipelineTypeOK'
    BY <1>1, <2>1, <2>2, <2>3, <2>4, <2>5 DEF PipelineTypeOK
  <2>7. TypeOK'
    BY <1>1, <2>2, <2>3, <2>6, Zenon DEF TypeOK, streamVars
  <2>8. BarrierBalanced'
    <3>1. GuardCalls' = GuardCalls
      BY <2>3, Zenon DEF GuardCalls
    <3>2. Owed' = Owed
      BY <2>1, <2>3, <3>1, Zenon DEF Owed
    <3> QED
      BY <2>3, <3>2, Zenon DEF IInv, BarrierBalanced
  <2> QED
    BY <2>1, <2>3, <2>7, <2>8 DEF IInv, Phases, Inactive, TokensFresh, Inert, streamVars
<1>5. ASSUME OnHttpRequestHeadersMiss \/ OnHttpRequestHeadersError PROVE IInv'
  <2>1. /\ metrics' \in [Metric -> Nat] /\ replies' \in Nat
        /\ request' \in {"passed", "replied"}
        /\ UNCHANGED <<context, next_token, in_flight, task_queue, deferred_tasks, completed_tasks,
                       teardown_tasks, terminated, barrier, tasks_to_process, reply, step,
                       failed_tasks, filterVars, response, response_ended, request_chunks,
                       response_chunks>>
    BY <1>2, <1>5, CountType DEF OnHttpRequestHeadersMiss, OnHttpRequestHeadersError
  <2>2. PipelineTypeOK'
    BY <1>1, <2>1, Zenon DEF PipelineTypeOK, context
  <2>3. TypeOK'
    BY <1>1, <2>1, <2>2 DEF TypeOK, context, filterVars
  <2>4. BarrierBalanced'
    BY <2>1, Zenon DEF IInv, BarrierBalanced, Owed, GuardCalls
  <2> QED
    BY <2>1, <2>3, <2>4, Zenon DEF IInv, Phases, Inactive, TokensFresh, Inert, filterVars
<1>6. ASSUME OnHttpRequestBody PROVE IInv'
  <2>1. /\ Idle /\ request # "new" /\ Begin("request_body", pipeline)
        /\ request_chunks' \in Nat
        /\ UNCHANGED <<end_of_stream, in_response_phase, metrics, request, response,
                       response_ended, response_chunks>>
    BY <1>3, <1>6 DEF OnHttpRequestBody
  <2> QED
    BY <1>2, <1>3, <2>1, BeginInvariant, Zenon
<1>7. ASSUME NEW eos \in BOOLEAN, OnHttpResponseHeaders(eos) PROVE IInv'
  <2>1. /\ Idle /\ request # "new" /\ Begin("response_headers", pipeline)
        /\ metrics' \in [Metric -> Nat] /\ in_response_phase' \in BOOLEAN
        /\ response_ended' \in BOOLEAN
        /\ UNCHANGED <<end_of_stream, request, response, request_chunks, response_chunks>>
    BY <1>2, <1>7, CountType, Zenon DEF OnHttpResponseHeaders
  <2> QED
    BY <1>2, <1>3, <2>1, BeginInvariant, Zenon
<1>8. ASSUME NEW eos \in BOOLEAN, OnHttpResponseBody(eos) PROVE IInv'
  <2>1. /\ Idle /\ request # "new" /\ Begin("response_body", pipeline)
        /\ response_chunks' \in Nat /\ response_ended' \in BOOLEAN /\ end_of_stream' \in BOOLEAN
        /\ UNCHANGED <<in_response_phase, metrics, request, response, request_chunks>>
    BY <1>2, <1>3, <1>8 DEF OnHttpResponseBody, IInv, Phases
  <2> QED
    BY <1>2, <1>3, <2>1, BeginInvariant, Zenon
<1> QED
  BY <1>4, <1>5, <1>6, <1>7, <1>8 DEF HttpCallback

\* The answers of gRPC services: the pending task is handed to digest, with
\* its share of the barrier.
LEMMA GrpcCallbackInvariant == IInv /\ GrpcCallback => IInv'
<1> SUFFICES ASSUME IInv, GrpcCallback PROVE IInv'
  BY Zenon
<1>1. TypeOK /\ PipelineTypeOK
  BY Zenon DEF IInv, TypeOK
<1>2. ASSUME NEW t \in in_flight, NEW ok \in BOOLEAN, OnGrpcCallResponse(t, ok) PROVE IInv'
  <2>1. /\ step = "idle" /\ pipeline /\ callback = "none" /\ request # "new"
        /\ callback' = "grpc_call_response" /\ in_flight' = in_flight \ {t}
        /\ UNCHANGED <<context, next_token, replies, metrics, completed_tasks, teardown_tasks,
                       terminated, barrier, failed_tasks, pipeline, force_resume, streamVars>>
    BY <1>2, Zenon DEF OnGrpcCallResponse, Idle, IInv, Phases
  <2>2. /\ <<>> \in Seq(Task(blueprint)) /\ NoReply \in ReplyType(blueprint)
        /\ in_flight' \subseteq Nat
    BY <1>1, <2>1, NoReplyType DEF PipelineTypeOK
  <2>3. CASE t \in DOMAIN deferred_tasks
    <3> DEFINE p == deferred_tasks[t]
    <3>1. /\ reply' = [NoReply EXCEPT !.pending = p, !.ok = ok]
          /\ deferred_tasks' = [u \in DOMAIN deferred_tasks \ {t} |-> deferred_tasks[u]]
          /\ step' = "reply"
          /\ UNCHANGED <<task_queue, tasks_to_process>>
      BY <1>2, <2>3, Zenon DEF OnGrpcCallResponse
    <3>2. p \in PendingTask(blueprint) /\ p.guard \in BOOLEAN
      BY <1>1, <2>3, Zenon DEF PipelineTypeOK, PendingTask
    <3> HIDE DEF p
    <3>3. /\ reply' \in ReplyType(blueprint) /\ reply'.pending = p /\ reply'.tasks = <<>>
      BY <2>2, <3>1, <3>2, Zenon DEF ReplyType, NoReply
    <3>4. /\ DOMAIN deferred_tasks' = DOMAIN deferred_tasks \ {t}
          /\ \A u \in DOMAIN deferred_tasks' : deferred_tasks'[u] = deferred_tasks[u]
      BY <3>1, Zenon
    <3>5. PipelineTypeOK'
      BY <1>1, <2>1, <2>2, <3>1, <3>3, <3>4 DEF PipelineTypeOK, context
    <3>6. TypeOK'
      BY <1>1, <2>1, <3>5, Zenon DEF TypeOK, context, streamVars
    <3>7. GuardCalls' = GuardCalls \ {t} /\ (t \in GuardCalls <=> p.guard)
      BY <2>3, <3>4 DEF GuardCalls, p
    <3>8. Owed' = Owed
      <4>1. IsFiniteSet(GuardCalls) /\ Cardinality(GuardCalls) \in Nat
            /\ Owed = Cardinality(GuardCalls)
        BY <2>1, OwedIsCalls, Zenon
      <4>2. Owed' = Cardinality(GuardCalls') + IF p.guard THEN 1 ELSE 0
        BY <3>1, <3>3, Zenon DEF Owed
      <4>3. CASE p.guard
        BY <3>7, <4>1, <4>2, <4>3, FS_RemoveElement
      <4>4. CASE ~p.guard
        <5>1. GuardCalls' = GuardCalls
          BY <3>7, <4>4, Zenon
        <5> QED
          BY <4>1, <4>2, <4>4, <5>1
      <4> QED
        BY <4>3, <4>4, Zenon
    <3>9. BarrierBalanced'
      BY <2>1, <3>8, Zenon DEF IInv, BarrierBalanced
    <3>10. TokensFresh'
      BY <2>1, <3>4, Zenon DEF IInv, TokensFresh
    <3>11. Inert'
      <4>1. terminated => p.noop
        BY <2>3, Zenon DEF IInv, Inert, p
      <4> QED
        BY <2>1, <3>1, <3>3, <3>4, <4>1 DEF IInv, Inert
    <3> QED
      BY <2>1, <3>1, <3>6, <3>9, <3>10, <3>11, Zenon DEF IInv, Phases, Inactive, streamVars
  <2>4. CASE t \notin DOMAIN deferred_tasks
    <3>1. /\ tasks_to_process' = task_queue /\ task_queue' = <<>> /\ step' = "eval"
          /\ reply' = NoReply /\ UNCHANGED deferred_tasks
      BY <1>2, <2>4, Zenon DEF OnGrpcCallResponse, StartEval
    <3>2. PipelineTypeOK'
      BY <1>1, <2>1, <2>2, <3>1 DEF PipelineTypeOK, context
    <3>3. TypeOK'
      BY <1>1, <2>1, <3>2, Zenon DEF TypeOK, context, streamVars
    <3>4. GuardCalls' = GuardCalls
      BY <3>1, Zenon DEF GuardCalls
    <3>5. Owed' = Owed
      BY <2>1, <3>1, <3>4 DEF Owed
    <3>6. BarrierBalanced'
      BY <2>1, <3>5, Zenon DEF IInv, BarrierBalanced
    <3> QED
      BY <2>1, <3>1, <3>3, <3>6, Zenon DEF IInv, Phases, Inactive, TokensFresh, Inert, streamVars
  <2> QED
    BY <2>3, <2>4, Zenon
<1>3. ASSUME NEW t \in in_flight, OnGrpcCallResponseLate(t) PROVE IInv'
  <2>1. /\ in_flight' = in_flight \ {t}
        /\ UNCHANGED <<context, next_token, replies, metrics, task_queue, deferred_tasks,
                       completed_tasks, teardown_tasks, terminated, barrier, tasks_to_process,
                       reply, step, failed_tasks, filterVars, streamVars>>
    BY <1>3, Zenon DEF OnGrpcCallResponseLate
  <2>2. PipelineTypeOK'
    BY <1>1, <2>1, Zenon DEF PipelineTypeOK, context
  <2>3. TypeOK'
    BY <1>1, <2>1, <2>2 DEF TypeOK, context, filterVars, streamVars
  <2>4. BarrierBalanced'
    BY <2>1, Zenon DEF IInv, BarrierBalanced, Owed, GuardCalls
  <2> QED
    BY <2>1, <2>3, <2>4, Zenon DEF IInv, Phases, Inactive, TokensFresh, Inert, filterVars, streamVars
<1> QED
  BY <1>2, <1>3, Zenon DEF GrpcCallback

\* A step in which nothing happens.
LEMMA StutterInvariant == IInv /\ UNCHANGED vars => IInv'
<1> SUFFICES ASSUME IInv, UNCHANGED vars PROVE IInv'
  BY Zenon
<1> USE DEF vars, pipelineVars, context, host, filterVars, streamVars
<1>1. TypeOK'
  BY DEF IInv, TypeOK, PipelineTypeOK
<1>2. Phases' /\ Inactive' /\ TokensFresh'
  BY Zenon DEF IInv, Phases, Inactive, TokensFresh
<1>3. Inert'
  BY Zenon DEF IInv, Inert
<1>4. BarrierBalanced'
  BY Zenon DEF IInv, BarrierBalanced, Owed, GuardCalls
<1> QED
  BY <1>1, <1>2, <1>3, <1>4, Zenon DEF IInv

\* A stream that is reset leaves everything as it is.
LEMMA ResetInvariant == IInv /\ StreamReset => IInv'
<1> SUFFICES ASSUME IInv, StreamReset PROVE IInv'
  BY Zenon
<1>1. /\ response' = "reset" /\ request # "new" /\ step = "idle"
      /\ UNCHANGED <<pipelineVars, filterVars, request, response_ended, request_chunks,
                     response_chunks>>
  BY Zenon DEF StreamReset, Idle
<1> USE DEF pipelineVars, context, host, filterVars
<1>2. PipelineTypeOK'
  BY <1>1 DEF IInv, TypeOK, PipelineTypeOK
<1>3. TypeOK'
  BY <1>1, <1>2 DEF IInv, TypeOK
<1>4. Phases' /\ Inactive' /\ TokensFresh'
  BY <1>1, Zenon DEF IInv, Phases, Inactive, TokensFresh
<1>5. Inert' /\ BarrierBalanced'
  BY <1>1, Zenon DEF IInv, Inert, BarrierBalanced, Owed, GuardCalls
<1> QED
  BY <1>3, <1>4, <1>5, Zenon DEF IInv

\* Every step preserves the invariant.
LEMMA NextInvariant == IInv /\ [Next]_vars => IInv'
<1> SUFFICES ASSUME IInv, [Next]_vars PROVE IInv'
  BY Zenon
<1>1. CASE Step
  BY <1>1, DigestReplyInvariant, EvalTaskInvariant, Zenon DEF Step
<1>2. CASE Return
  BY <1>2, ReturnInvariant, Zenon DEF Return
<1>3. CASE HttpCallback
  BY <1>3, HttpCallbackInvariant, Zenon
<1>4. CASE GrpcCallback
  BY <1>4, GrpcCallbackInvariant, Zenon
<1>5. CASE StreamReset \/ Finished \/ UNCHANGED vars
  BY <1>5, ResetInvariant, StutterInvariant, Zenon DEF Finished
<1> QED
  BY <1>1, <1>2, <1>3, <1>4, <1>5, Zenon DEF Next

-----------------------------------------------------------------------------

\* The inductive invariant holds in every reachable state.
THEOREM Invariance == Spec => []IInv
  BY InitInvariant, NextInvariant, PTL DEF Spec

\* Every variable of the filter and its pipeline keeps its type; what waits in
\* a queue or for an answer is an action of the stream's blueprint.
THEOREM TypeCorrect == Spec => []TypeOK
<1>1. IInv => TypeOK
  BY Zenon DEF IInv
<1> QED
  BY <1>1, Invariance, PTL

\* The barrier is the number of guard calls whose answer is awaited, and never
\* less, also after Pipeline::terminate: Barrier::lower never finds it at 0.
THEOREM BarrierCountsGuards == Spec => []BarrierBalanced
<1>1. IInv => BarrierBalanced
  BY Zenon DEF IInv
<1> QED
  BY <1>1, Invariance, PTL

\* The filter itself drops a pipeline only after its teardown, in every
\* callback.  Streams that the host deletes are not part of the claim: the
\* pipeline they lose is still there in the last state.
THEOREM FilterDropsAfterTeardown == Spec => []TeardownBeforeDrop
<1>1. IInv => TeardownBeforeDrop
  BY Zenon DEF IInv, Phases, Inactive, TeardownBeforeDrop
<1> QED
  BY <1>1, Invariance, PTL

\* A barrier that is down, or no pipeline: no guard call waits for an answer.
LEMMA NoGuardAfter ==
  ASSUME IInv', callback' = "none", barrier' = 0 \/ ~pipeline'
  PROVE  GuardCalls' = {}
<1>1. CASE ~pipeline'
  BY <1>1, Zenon DEF IInv, Inactive, GuardCalls
<1>2. CASE barrier' = 0
  <2>1. GuardCalls' = Guards(deferred_tasks')
    BY Zenon DEF GuardCalls, Guards
  <2>2. IsFiniteSet(GuardCalls') /\ Cardinality(GuardCalls') \in Nat
    BY <2>1, GuardsFinite, Zenon DEF IInv, TypeOK, PipelineTypeOK, TokensFresh
  <2>3. Owed' = Cardinality(GuardCalls')
    BY <2>2 DEF Owed, IInv, Phases
  <2>4. Cardinality(GuardCalls') = 0
    BY <1>2, <2>2, <2>3 DEF IInv, BarrierBalanced
  <2> QED
    BY <2>2, <2>4, FS_EmptySet, Zenon
<1> QED
  BY <1>1, <1>2, Zenon

\* A request goes on to the upstream only when no guard waits for its answer.
LEMMA ForwardStep ==
  ASSUME IInv, IInv', Next, request # "passed", request' = "passed"
  PROVE  GuardCalls' = {}
<1>1. CASE Step
  BY <1>1, Zenon DEF Step, streamVars
<1>2. CASE Return
  <2>1. PICK exported \in BOOLEAN :
          \/ ReturnRequest(exported) \/ ReturnResponseHeaders(exported)
          \/ ReturnResponseBody(exported) \/ ReturnGrpcCallResponse(exported)
    BY <1>2, Zenon DEF Return
  <2>2. callback' = "none" /\ barrier' = barrier /\ barrier \in Nat
    BY <2>1, Zenon DEF ReturnRequest, ReturnResponseHeaders, ReturnResponseBody, ReturnGrpcCallResponse,
                EvalEnd, IInv, TypeOK, PipelineTypeOK
  <2>3. CASE ReturnRequest(exported)
    <3>1. ~ShouldPause(pipeline')
      BY <2>3, Zenon DEF ReturnRequest, RequestAfter
    <3> QED
      BY <2>2, <3>1, NoGuardAfter DEF ShouldPause
  <2>4. CASE ReturnGrpcCallResponse(exported)
    <3>1. pipeline' => ShouldResume
      BY <2>4, Zenon DEF ReturnGrpcCallResponse
    <3>2. pipeline' => barrier = 0
      BY <2>2, <3>1 DEF ShouldResume, ShouldPause
    <3> QED
      BY <2>2, <3>2, NoGuardAfter, Zenon
  <2> QED
    BY <2>1, <2>3, <2>4, Zenon DEF ReturnResponseHeaders, ReturnResponseBody
<1>3. CASE HttpCallback
  <2>1. OnHttpRequestHeadersMiss
    BY <1>3, Zenon DEF HttpCallback, OnHttpRequestHeaders, OnHttpRequestHeadersError, OnHttpRequestBody,
                OnHttpResponseHeaders, OnHttpResponseBody, streamVars
  <2>2. callback' = "none" /\ ~pipeline'
    BY <2>1, Zenon DEF OnHttpRequestHeadersMiss, Idle, IInv, Phases, filterVars
  <2> QED
    BY <2>2, NoGuardAfter, Zenon
<1>4. CASE GrpcCallback
  BY <1>4, Zenon DEF GrpcCallback, OnGrpcCallResponse, OnGrpcCallResponseLate, streamVars
<1>5. CASE StreamReset \/ Finished
  BY <1>5, Zenon DEF StreamReset, Finished, vars, streamVars
<1> QED
  BY <1>1, <1>2, <1>3, <1>4, <1>5, Zenon DEF Next

\* should_pause and should_resume: a Continue, or a resume, lets the request
\* through to the upstream only when every guard that was called has answered.
THEOREM GuardsHoldRequests == Spec => GuardedForward
<1>1. IInv /\ IInv' /\ [Next]_vars
        => [request # "passed" /\ request' = "passed" => GuardCalls' = {}]_vars
  BY ForwardStep, Zenon
<1> QED
  BY <1>1, Invariance, PTL DEF Spec, GuardedForward

-----------------------------------------------------------------------------

\* Nothing moves in a terminated pipeline.
LEMMA TerminatedStep ==
  ASSUME IInv, Next, terminated
  PROVE  /\ UNCHANGED <<terminated, replies, next_token, body_values, failed_tasks>>
         /\ task_queue' = <<>> /\ tasks_to_process' = <<>>
<1>1. /\ task_queue = <<>> /\ tasks_to_process = <<>> /\ ~teardown_tasks
      /\ step = "reply" => reply.pending.noop /\ reply.tasks = <<>>
  BY Zenon DEF IInv, Inert
<1>2. CASE Step
  <2>1. DigestReply
    BY <1>1, <1>2, Zenon DEF Step, EvalTask
  <2>2. DigestOutcome(Done)
    BY <1>1, <2>1, Zenon DEF DigestReply, DigestDone, DigestError, DigestAction
  <2> DEFINE p == reply.pending
             o == WithTracing(p.traced, WithFailureMode(p.failure_mode, Done))
  <2>3. o.tag = "Done" /\ o.tasks = <<>> /\ ~o.sent
    BY DoneStaysDone, Zenon
  <2>4. /\ failed_tasks' = IF o.tag = "Failed" THEN failed_tasks \cup {p.id} ELSE failed_tasks
        /\ StartEval(o.tasks \o task_queue)
        /\ replies' = IF o.sent THEN replies + 1 ELSE replies
        /\ UNCHANGED <<context, next_token, terminated>>
    BY <2>2, <2>3, Zenon DEF DigestOutcome, Effects
  <2> HIDE DEF o
  <2>5. o.tasks \o task_queue = <<>>
    BY <1>1, <2>3
  <2> QED
    BY <2>3, <2>4, <2>5, Zenon DEF StartEval, context
<1>3. CASE Return
  <2>1. PICK exported \in BOOLEAN : EvalEnd(exported)
    BY <1>3, Zenon DEF Return, ReturnRequest, ReturnResponseHeaders, ReturnResponseBody,
                ReturnGrpcCallResponse
  <2> QED
    BY <1>1, <2>1, EvalEndFacts, Zenon DEF context
<1>4. CASE HttpCallback
  <2>1. Idle => ~(request = "new")
    BY Zenon DEF Idle, IInv, Phases
  <2>2. \E name : /\ Begin(name, pipeline)
    BY <1>4, <2>1, Zenon DEF HttpCallback, OnHttpRequestHeaders, OnHttpRequestHeadersMiss,
       OnHttpRequestHeadersError, OnHttpRequestBody, OnHttpResponseHeaders, OnHttpResponseBody
  <2> QED
    BY <1>1, <2>2, Zenon DEF Begin, StartEval
<1>5. CASE GrpcCallback
  BY <1>1, <1>5, Zenon DEF GrpcCallback, OnGrpcCallResponse, OnGrpcCallResponseLate, StartEval, context
<1>6. CASE StreamReset \/ Finished
  BY <1>1, <1>6, Zenon DEF StreamReset, Finished, vars, pipelineVars, context, host
<1> QED
  BY <1>2, <1>3, <1>4, <1>5, <1>6, Zenon DEF Next

\* After TaskOutcome::Terminate the answers that are still in flight are
\* consumed and nothing else happens: no second reply and no new call.
THEOREM NothingAfterTermination == Spec => TerminationIsFinal
<1>1. IInv /\ [Next]_vars
        => [terminated => /\ UNCHANGED <<terminated, replies, next_token, body_values, failed_tasks>>
                          /\ task_queue' = <<>> /\ tasks_to_process' = <<>>]_vars
  BY TerminatedStep, Zenon
<1> QED
  BY <1>1, Invariance, PTL DEF Spec, TerminationIsFinal
=============================================================================
