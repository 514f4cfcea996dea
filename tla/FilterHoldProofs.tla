-------------------------- MODULE FilterHoldProofs --------------------------
(***************************************************************************)
(* Proofs about the streams the filter holds: which guards a request has   *)
(* passed when the upstream sees it, and what a held stream waits for.     *)
(***************************************************************************)
EXTENDS FilterTasksProofs

\* The guards that lead the action set.
Leading(id) == Len(id) = 1 /\ id[1] \in LeadingGuards

\* The failure mode is still around the task of a guard that leads the set.
Guarded == {t \in LocalTasks : t.kind = "grpc" /\ Leading(t.id) => t.failure_mode \in FailureMode}

\* The failure mode of a leading guard stays with it, queued or called: the
\* guard does not just fail.
Protected ==
    ~terminated =>
        /\ task_queue \in Seq(Guarded) /\ tasks_to_process \in Seq(Guarded)
        /\ \A id \in failed_tasks : ~Leading(id)
        /\ \A t \in DOMAIN deferred_tasks :
              Leading(deferred_tasks[t].id) => /\ deferred_tasks[t].guard
                                               /\ deferred_tasks[t].failure_mode \in FailureMode
        /\ step = "reply" /\ Leading(reply.pending.id) => reply.pending.failure_mode \in FailureMode

\* A call that stays in the queue, and that no longer waits for data, is blocked.
Blocked(id) ==
    Has(task_queue, id) /\ (end_of_stream \/ Leading(id))
        => Rank(id) > 1 /\ Previous(id) \notin completed_tasks

\* Request bodies are seen when the request has passed.
BodiesFollow == callback = "request_body" => request \in {"passed", "body_held"}

GInv ==
    /\ PInv /\ Present /\ BodiesFollow /\ Protected
    /\ ~terminated => \A id \in Ids(blueprint) : Blocked(id)

-----------------------------------------------------------------------------

\* Leading guards are gRPC actions of the set whose expressions wait for
\* nothing, and only leading guards come before them.
LEMMA LeadingFacts ==
  ASSUME TypeOK, NEW id \in Seq(Nat), Leading(id)
  PROVE  /\ id \in Ids(blueprint) /\ id = <<id[1]>> /\ List(id) = <<>> /\ Rank(id) = id[1]
         /\ blueprint.actions[id].op = "grpc" /\ blueprint.actions[id].guard
         /\ blueprint.actions[id].pred = "ready" /\ blueprint.actions[id].expr = "ready"
         /\ Rank(id) > 1 => Previous(id) = <<id[1] - 1>> /\ id[1] - 1 \in LeadingGuards
<1> DEFINE i == id[1]
           n == Len(OnReply(blueprint, <<>>))
<1>1. /\ Len(id) = 1 /\ i \in 1..n
      /\ \A j \in 1..i : LET a == blueprint.actions[<<j>>]
                         IN  a.op = "grpc" /\ a.guard /\ a.pred = "ready" /\ a.expr = "ready"
  BY Zenon DEF Leading, LeadingGuards
<1>2. id = <<i>> /\ List(id) = <<>> /\ Rank(id) = i /\ i \in Nat
  BY <1>1 DEF List, Rank
<1>3. blueprint \in Blueprints
  <2>1. ASSUME blueprint = NoBlueprint PROVE FALSE
    <3>1. {k \in Ids(blueprint) : Len(k) = Len(<<>>) + 1 /\ List(k) = <<>>} = {}
      BY <2>1 DEF NoBlueprint, Ids
    <3>2. Cardinality({k \in Ids(blueprint) : Len(k) = Len(<<>>) + 1 /\ List(k) = <<>>}) = 0
      BY <3>1, FS_EmptySet, Zenon
    <3>3. OnReply(blueprint, <<>>) = [k \in 1..0 |-> <<>> \o <<k>>]
      BY <3>2, Zenon DEF OnReply
    <3>4. n = 0
      BY <3>3
    <3> QED
      BY <1>1, <3>4
  <2> QED
    BY <2>1 DEF TypeOK
<1>4. n \in Nat
  BY <1>3, BlueprintsAssumption, OnReplyFacts
<1>5. id \in Ids(blueprint)
  <2>1. <<>> \o <<i>> \in Ids(blueprint)
    BY <1>1, <1>3, BlueprintsAssumption, OnReplyFacts, Zenon
  <2> QED
    BY <1>2, <2>1
<1>6. i \in 1..i
  BY <1>1, <1>2
<1>7. ASSUME i > 1 PROVE Previous(id) = <<i - 1>> /\ i - 1 \in LeadingGuards
  <2>1. Previous(id) = <<i - 1>>
    BY <1>2 DEF Previous
  <2>2. i - 1 \in 1..n /\ 1..(i - 1) \subseteq 1..i
    BY <1>1, <1>2, <1>4, <1>7
  <2> QED
    BY <1>1, <2>1, <2>2 DEF LeadingGuards
<1> QED
  BY <1>1, <1>2, <1>5, <1>6, <1>7, Zenon

\* A new pipeline has the failure modes of the configuration.
LEMMA AdmitsProtected ==
  ASSUME Admits
  PROVE  Protected' /\ \A id \in Ids(blueprint') : Blocked(id)'
<1>1. PICK b \in Blueprints :
        /\ blueprint' = b /\ tasks_to_process' = ToTasks(b) /\ task_queue' = <<>>
        /\ step' = "eval" /\ DOMAIN deferred_tasks' = {} /\ failed_tasks' = {}
  BY Zenon DEF Admits
<1>2. Listed(b, ToTasks(b), Len(OnReply(b, <<>>)))
  BY BlueprintsAssumption, ToTasksListed, Zenon
<1>3. ToTasks(b) \in Seq(Guarded')
  <2>1. ToTasks(b) \in Seq(Task(b))
    BY <1>2, Zenon DEF Listed
  <2>2. \A i \in DOMAIN ToTasks(b) : ToTasks(b)[i] \in Guarded'
    BY <1>1, <1>2, <2>1 DEF Listed, Guarded, LocalTasks, Task
  <2> QED
    BY <2>1, <2>2
<1>4. <<>> \in Seq(Guarded')
  OBVIOUS
<1> QED
  BY <1>1, <1>3, <1>4, NoneHas DEF Protected, Blocked

\* The failure modes stay with the guards.
LEMMA MovesProtected ==
  ASSUME PInv, Protected, ~terminated, Moves, ~Admits
  PROVE  Protected'
<1>1. /\ TypeOK /\ TInv /\ blueprint' = blueprint
      /\ task_queue \in Seq(Guarded) /\ tasks_to_process \in Seq(Guarded)
      /\ \A id \in failed_tasks : ~Leading(id)
      /\ \A t \in DOMAIN deferred_tasks :
            Leading(deferred_tasks[t].id) => /\ deferred_tasks[t].guard
                                             /\ deferred_tasks[t].failure_mode \in FailureMode
      /\ step = "reply" /\ Leading(reply.pending.id) => reply.pending.failure_mode \in FailureMode
  BY Zenon DEF PInv, TInv, IInv, Protected, Moves, Reschedules, Answers, Takes, Settles, Requeues, Calls,
         Finishes, Evals, Ends, Rests
<1>2. /\ Guarded' = Guarded /\ \A id : Leading(id)' <=> Leading(id)
  BY <1>1, Zenon DEF Guarded, LocalTasks, Leading, LeadingGuards
<1>3. \A t \in Task(blueprint) : t.id \in Seq(Nat)
  BY Zenon DEF Task
<1>4. CASE Reschedules
  BY <1>1, <1>2, <1>4 DEF Reschedules, Protected
<1>5. CASE Answers
  BY <1>1, <1>2, <1>5 DEF Answers, Protected
<1>6. CASE Takes
  BY <1>1, <1>2, <1>6 DEF Takes, Protected
<1>7. CASE Settles
  <2>1. PICK s \in Seq(Task(blueprint)) :
          /\ tasks_to_process' = s \o task_queue
          /\ \/ /\ failed_tasks' = failed_tasks
                /\ s = <<>> \/ Alike(s, reply.tasks)
             \/ /\ failed_tasks' = failed_tasks \cup {reply.pending.id}
                /\ s = <<>> /\ reply.pending.failure_mode \notin FailureMode
    BY <1>7, Zenon DEF Settles
  <2>2. step = "reply" /\ step' = "eval" /\ task_queue' = <<>> /\ deferred_tasks' = deferred_tasks
    BY <1>7, Zenon DEF Settles
  <2>3. s \in Seq(Guarded)
    <3>1. reply.tasks \in Seq(LocalTasks) /\ reply.pending \in PendingTask(blueprint)
      BY <1>1, Zenon DEF TInv, Local, TypeOK, PipelineTypeOK, ReplyType
    <3> SUFFICES ASSUME Alike(s, reply.tasks), NEW i \in DOMAIN s PROVE s[i] \in Guarded
      BY <2>1
    <3>2. /\ i \in DOMAIN reply.tasks /\ s[i].kind = reply.tasks[i].kind
          /\ s[i].id = reply.tasks[i].id /\ s[i].concrete = reply.tasks[i].concrete
      BY <3>1 DEF Alike
    <3>3. s[i] \in LocalTasks
      BY <3>1, <3>2 DEF LocalTasks, LocalTask
    <3>4. ASSUME s[i].kind = "grpc", Leading(s[i].id) PROVE FALSE
      <4> DEFINE id == s[i].id
      <4>1. id \in Ids(blueprint) /\ Has(reply.tasks, id)
        BY <3>2, <3>3, <3>4, Zenon DEF LocalTasks, Task, Has, Occurrences
      <4>2. ~reply.pending.noop /\ List(id) = reply.pending.id
        BY <4>1 DEF PInv, Placed, ParentFirst
      <4>3. reply.pending.id \in Ids(blueprint)
        BY <3>1, <4>2 DEF PendingTask
      <4> QED
        BY <1>1, <3>4, <4>1, <4>2, <4>3, LeadingFacts, IdFacts, ZenonT(30) DEF TypeOK
    <3> QED
      BY <3>3, <3>4 DEF Guarded
  <2>4. tasks_to_process' \in Seq(Guarded) /\ task_queue' \in Seq(Guarded)
    BY <1>1, <2>1, <2>2, <2>3
  <2> QED
    BY <1>1, <1>2, <2>1, <2>2, <2>4 DEF Protected
<1>8. ASSUME NEW t \in LocalTasks, Evals(t)
      PROVE  /\ t \in Guarded /\ tasks_to_process' \in Seq(Guarded) /\ step' # "reply"
             /\ t \in Task(blueprint) /\ t.id \in Seq(Nat)
  BY <1>1, <1>3, <1>8 DEF Evals, LocalTasks
<1>9. ASSUME NEW t \in LocalTasks, Requeues(t) PROVE Protected'
  <2>1. Evals(t) /\ UNCHANGED <<deferred_tasks, failed_tasks>>
    BY <1>9, Zenon DEF Requeues
  <2>2. PICK u \in Task(blueprint) :
          /\ task_queue' = Append(task_queue, u)
          /\ u.kind = t.kind /\ u.id = t.id /\ u.concrete = t.concrete
          /\ u = t \/ (t.kind = "grpc" => "ready" # ActionOf(t).pred \/ "ready" # ActionOf(t).expr)
    BY <1>9, Zenon DEF Requeues
  <2>3. u \in Guarded
    <3>1. u \in LocalTasks
      BY <2>2, Zenon DEF LocalTasks, LocalTask
    <3> QED
      BY <1>1, <1>8, <2>1, <2>2, <3>1, LeadingFacts DEF Guarded, ActionOf
  <2>4. task_queue' \in Seq(Guarded)
    BY <1>1, <2>2, <2>3
  <2> QED
    BY <1>1, <1>2, <1>8, <2>1, <2>4 DEF Protected
<1>10. ASSUME NEW t \in LocalTasks, Calls(t) PROVE Protected'
  <2>1. /\ Evals(t) /\ t.kind = "grpc" /\ UNCHANGED <<task_queue, failed_tasks>>
        /\ DOMAIN deferred_tasks' = DOMAIN deferred_tasks \cup {next_token}
        /\ \A u \in DOMAIN deferred_tasks : deferred_tasks'[u] = deferred_tasks[u]
        /\ LET p == deferred_tasks'[next_token]
           IN  p.id = t.id /\ p.guard = ActionOf(t).guard /\ p.failure_mode = t.failure_mode
    BY <1>10 DEF Calls
  <2>2. Leading(t.id) => t.failure_mode \in FailureMode /\ ActionOf(t).guard
    BY <1>1, <1>8, <2>1, LeadingFacts DEF Guarded, ActionOf
  <2> QED
    BY <1>1, <1>2, <1>8, <2>1, <2>2 DEF Protected
<1>11. ASSUME NEW t \in LocalTasks, Finishes(t) PROVE Protected'
  <2>1. /\ Evals(t) /\ UNCHANGED <<task_queue, deferred_tasks>>
        /\ \/ failed_tasks' = failed_tasks
           \/ failed_tasks' = failed_tasks \cup TaskIds(t) /\ t.failure_mode \notin FailureMode
    BY <1>11 DEF Finishes
  <2>2. \A id \in failed_tasks' : ~Leading(id)
    BY <1>1, <1>8, <2>1 DEF Guarded, TaskIds
  <2> QED
    BY <1>1, <1>2, <1>8, <2>1, <2>2 DEF Protected
<1>12. CASE Ends
  <2>1. ~Leading(<<>>)
    BY DEF Leading
  <2>2. /\ step' = "idle" /\ UNCHANGED <<task_queue, failed_tasks>> /\ tasks_to_process' = <<>>
        /\ \/ deferred_tasks' = deferred_tasks
           \/ \A t \in DOMAIN deferred_tasks' : deferred_tasks'[t].id = <<>>
    BY <1>12, Zenon DEF Ends
  <2>3. tasks_to_process' \in Seq(Guarded)
    BY <2>2
  <2> QED
    BY <1>1, <1>2, <2>1, <2>2, <2>3 DEF Protected
<1>13. CASE Rests
  BY <1>1, <1>2, <1>13 DEF Rests, Protected
<1> QED
  BY <1>4, <1>5, <1>6, <1>7, <1>9, <1>10, <1>11, <1>12, <1>13, Zenon DEF Moves

\* A call that stays in the queue is blocked.
LEMMA MovesBlocked ==
  ASSUME PInv, ~terminated, Moves, ~Admits, NEW id \in Ids(blueprint), Blocked(id)
  PROVE  Blocked(id)'
<1>1. /\ TypeOK /\ TInv /\ blueprint' = blueprint /\ task_queue \in Seq(Task(blueprint))
      /\ Placed(id)
  BY Zenon DEF PInv, TInv, IInv, TypeOK, PipelineTypeOK, Moves, Reschedules, Answers, Takes, Settles,
         Requeues, Calls, Finishes, Evals, Ends, Rests
<1>2. Leading(id)' <=> Leading(id)
  BY <1>1, Zenon DEF Leading, LeadingGuards
<1>3. CASE Reschedules \/ Settles
  BY <1>3, NoneHas, Zenon DEF Reschedules, Settles, Blocked
<1>4. CASE Answers \/ Takes \/ Ends \/ Rests
  BY <1>2, <1>4, Zenon DEF Answers, Takes, Ends, Rests, Blocked
<1>5. ASSUME NEW t \in LocalTasks, Requeues(t) PROVE Blocked(id)'
  <2>1. /\ UNCHANGED <<completed_tasks, end_of_stream>>
    BY <1>5, Zenon DEF Requeues, Evals
  <2>2. PICK u \in Task(blueprint) :
          /\ task_queue' = Append(task_queue, u) /\ u.kind = t.kind /\ u.id = t.id
          /\ \/ IsBlocked(t)
             \/ t.kind = "grpc" => /\ ~end_of_stream
                                   /\ "ready" # ActionOf(t).pred \/ "ready" # ActionOf(t).expr
    BY <1>5, Zenon DEF Requeues
  <2>3. Has(task_queue', id) <=> Has(task_queue, id) \/ IsCall(t, id)
    BY <1>1, <2>2, InAppend DEF IsCall
  <2>4. IsCall(t, id) /\ IsBlocked(t) => Rank(id) > 1 /\ Previous(id) \notin completed_tasks
    BY Zenon DEF IsCall, IsBlocked, TaskDependencies, Dependencies, Previous
  <2>5. IsCall(t, id) /\ Leading(id) => "ready" = ActionOf(t).pred /\ "ready" = ActionOf(t).expr
    <3>1. id \in Seq(Nat)
      BY <1>1, IdFacts, Zenon DEF TypeOK
    <3> QED
      BY <1>1, <3>1, LeadingFacts, Zenon DEF IsCall, ActionOf
  <2>6. IsCall(t, id) /\ (end_of_stream \/ Leading(id))
            => Rank(id) > 1 /\ Previous(id) \notin completed_tasks
    BY <2>2, <2>4, <2>5 DEF IsCall
  <2> QED
    BY <1>2, <2>1, <2>3, <2>6 DEF Blocked
<1>6. ASSUME NEW t \in LocalTasks, Calls(t) PROVE Blocked(id)'
  BY <1>2, <1>6, Zenon DEF Calls, Evals, Blocked
<1>7. ASSUME NEW t \in LocalTasks, Finishes(t) PROVE Blocked(id)'
  <2>1. /\ Evals(t) /\ UNCHANGED <<task_queue, end_of_stream>>
        /\ completed_tasks' \subseteq completed_tasks \cup TaskIds(t)
    BY <1>7, Zenon DEF Finishes, Evals
  <2>2. Has(task_queue, id) /\ Rank(id) > 1 => ~Has(tasks_to_process, Previous(id))
    BY <1>1, Zenon DEF Placed, InSequence
  <2>3. IsCall(t, Previous(id)) => Has(tasks_to_process, Previous(id))
    BY <1>1, <2>1, TInvRunning, EvalsFacts
  <2>4. Previous(id) \in TaskIds(t) => IsCall(t, Previous(id))
    BY Zenon DEF TaskIds, IsCall
  <2> QED
    BY <1>2, <2>1, <2>2, <2>3, <2>4 DEF Blocked
<1> QED
  BY <1>3, <1>4, <1>5, <1>6, <1>7 DEF Moves

\* Request bodies are seen when the request has passed.
LEMMA NextBodiesFollow == BodiesFollow /\ [Next]_vars => BodiesFollow'
<1> SUFFICES ASSUME BodiesFollow, [Next]_vars PROVE BodiesFollow'
  BY Zenon
<1>1. CASE Step
  BY <1>1, Zenon DEF Step, BodiesFollow, filterVars, streamVars
<1>2. CASE Return
  BY <1>2, Zenon DEF Return, ReturnRequest, ReturnResponseHeaders, ReturnResponseBody,
              ReturnGrpcCallResponse, BodiesFollow
<1>3. CASE HttpCallback
  BY <1>3, Zenon DEF HttpCallback, OnHttpRequestHeaders, OnHttpRequestHeadersMiss, OnHttpRequestHeadersError,
     OnHttpRequestBody, OnHttpResponseHeaders, OnHttpResponseBody, Begin, BodiesFollow, filterVars
<1>4. CASE GrpcCallback
  BY <1>4 DEF GrpcCallback, OnGrpcCallResponse, OnGrpcCallResponseLate, BodiesFollow, filterVars, streamVars
<1>5. CASE StreamReset \/ Finished \/ UNCHANGED vars
  BY <1>5 DEF StreamReset, Finished, vars, filterVars, streamVars, BodiesFollow
<1> QED
  BY <1>1, <1>2, <1>3, <1>4, <1>5 DEF Next

\* Every step keeps the guards' failure modes, and what is queued blocked.
LEMMA NextGInv == GInv /\ [Next]_vars => GInv'
<1> SUFFICES ASSUME GInv, [Next]_vars PROVE GInv'
  BY Zenon
<1>1. PInv /\ TInv /\ IInv /\ Present /\ BodiesFollow /\ Protected
  BY Zenon DEF GInv, PInv, TInv
<1>2. PInv' /\ Present' /\ BodiesFollow'
  BY <1>1, NextPInv, NextPresent, NextBodiesFollow
<1>3. CASE terminated'
  BY <1>2, <1>3 DEF GInv, Protected
<1>4. CASE ~terminated'
  <2>1. ~terminated /\ Moves
    BY <1>1, <1>4, NextMoves
  <2>2. CASE Admits
    BY <1>2, <2>2, AdmitsProtected DEF GInv
  <2>3. CASE ~Admits
    <3>1. blueprint' = blueprint
      BY <2>1, <2>3, Zenon DEF Moves, Reschedules, Answers, Takes, Settles, Requeues, Calls, Finishes,
                        Evals, Ends, Rests
    <3>2. Protected'
      BY <1>1, <2>1, <2>3, MovesProtected
    <3>3. \A id \in Ids(blueprint) : Blocked(id)'
      BY <1>1, <2>1, <2>3, MovesBlocked DEF GInv
    <3> QED
      BY <1>2, <3>1, <3>2, <3>3 DEF GInv
  <2> QED
    BY <2>2, <2>3, Zenon
<1> QED
  BY <1>2, <1>3, <1>4 DEF PInv, TInv, IInv, TypeOK, PipelineTypeOK

\* Nothing has happened yet.
LEMMA InitGInv == Init => GInv
<1> SUFFICES ASSUME Init PROVE GInv
  BY Zenon
<1>1. PInv /\ Ids(blueprint) = {}
  BY InitPInv DEF Init, NoBlueprint, Ids
<1>2. <<>> \in Seq(Guarded) /\ DOMAIN deferred_tasks = {}
  BY DEF Init
<1> QED
  BY <1>1, <1>2 DEF GInv, Present, BodiesFollow, Protected, Init

\* Between callbacks, when no guard call is awaited, the leading guards are
\* decided: the first that is not would be called.
LEMMA NoGuardLeft ==
  GInv /\ step = "idle" /\ ~terminated /\ GuardCalls = {}
      => \A i \in LeadingGuards : <<i>> \in completed_tasks
<1> SUFFICES ASSUME GInv, step = "idle", ~terminated, GuardCalls = {},
                    NEW k \in LeadingGuards, <<k>> \notin completed_tasks
             PROVE  FALSE
  BY Zenon
<1>1. TypeOK /\ TInv /\ PInv /\ Protected /\ Present
  BY Zenon DEF GInv, PInv, TInv, IInv
<1> DEFINE S == {i \in Nat : i \in LeadingGuards /\ <<i>> \notin completed_tasks}
<1>2. k \in Nat
  <2>1. LeadingGuards \subseteq 1..Len(OnReply(blueprint, <<>>))
    BY Zenon DEF LeadingGuards
  <2> QED
    BY <2>1
<1>3. PICK i \in S : \A j \in S : i <= j
  <2>1. S \subseteq Nat /\ k \in S
    BY <1>2
  <2> HIDE DEF S
  <2> QED
    BY <2>1, LeastNat
<1> DEFINE id == <<i>>
<1>4. id \in Seq(Nat) /\ Leading(id) /\ id \notin completed_tasks /\ id[1] = i
  BY <1>3 DEF Leading
<1>5. /\ id \in Ids(blueprint) /\ Len(id) = 1 /\ blueprint.actions[id].op = "grpc" /\ Rank(id) = i
      /\ i > 1 => Previous(id) = <<i - 1>> /\ i - 1 \in LeadingGuards
  BY <1>1, <1>4, LeadingFacts, Zenon DEF Leading
<1> HIDE DEF id
<1>6. Somewhere(id)
  BY <1>1, <1>5 DEF Present
<1>7. tasks_to_process = <<>> /\ Answered = {} /\ id \notin failed_tasks
  BY <1>1, <1>4 DEF TInv, Transient, Answered, Protected
<1>8. ~Called(id)
  BY <1>1, <1>4 DEF Protected, Called, GuardCalls
<1>9. Has(task_queue, id)
  BY <1>4, <1>6, <1>7, <1>8, NoneHas DEF Somewhere, Settled
<1>10. i > 1 /\ Previous(id) \notin completed_tasks
  BY <1>4, <1>5, <1>9 DEF GInv, Blocked
<1>11. i - 1 \in S
  BY <1>3, <1>5, <1>10
<1> QED
  BY <1>3, <1>11

\* What a request has been through stays with it.
LEMMA KeepsCompleted ==
  ASSUME [Next]_vars, Idle => request # "new"
  PROVE  blueprint' = blueprint /\ completed_tasks \subseteq completed_tasks'
<1>1. CASE Step
  <2>1. CASE DigestReply
    BY <2>1, ZenonT(30) DEF DigestReply, DigestDone, DigestError, DigestAction, DigestOutcome, TerminatePipeline,
                context
  <2>2. CASE EvalTask
    BY <2>2, ZenonT(30) DEF EvalTask, EvalBlocked, EvalApply, EvalDeferred, EvalSettled, TerminatePipeline, context
  <2> QED
    BY <1>1, <2>1, <2>2 DEF Step
<1>2. CASE Return
  BY <1>2, Zenon DEF Return, ReturnRequest, ReturnResponseHeaders, ReturnResponseBody,
              ReturnGrpcCallResponse, EvalEnd, context
<1>3. CASE HttpCallback
  BY <1>3 DEF HttpCallback, OnHttpRequestHeaders, OnHttpRequestHeadersMiss, OnHttpRequestHeadersError,
     OnHttpRequestBody, OnHttpResponseHeaders, OnHttpResponseBody, Begin
<1>4. CASE GrpcCallback
  BY <1>4, Zenon DEF GrpcCallback, OnGrpcCallResponse, OnGrpcCallResponseLate, context
<1>5. CASE StreamReset \/ Finished \/ UNCHANGED vars
  BY <1>5 DEF StreamReset, Finished, vars, pipelineVars, context
<1> QED
  BY <1>1, <1>2, <1>3, <1>4, <1>5 DEF Next

\* A callback lets a request pass, or holds it, when it returns.
LEMMA PassesAtReturn ==
  ASSUME BodiesFollow, [Next]_vars, step = "idle" <=> callback = "none",
         request \notin {"passed", "body_held"}, request' \in {"passed", "body_held"}
  PROVE  request' = "passed" /\ step' = "idle" /\ Next
<1>1. CASE Return
  BY <1>1, ZenonT(30) DEF Return, ReturnRequest, ReturnResponseHeaders, ReturnResponseBody,
     ReturnGrpcCallResponse, EvalEnd, RequestAfter, Resumed, BodiesFollow, Next
<1>2. CASE HttpCallback
  BY <1>2, ZenonT(30) DEF HttpCallback, OnHttpRequestHeaders, OnHttpRequestHeadersMiss, OnHttpRequestHeadersError,
     OnHttpRequestBody, OnHttpResponseHeaders, OnHttpResponseBody, streamVars, Idle, Next
<1>3. CASE Step \/ GrpcCallback \/ StreamReset \/ Finished \/ UNCHANGED vars
  BY <1>3, Zenon DEF Step, GrpcCallback, OnGrpcCallResponse, OnGrpcCallResponseLate, StreamReset, Finished, vars, streamVars
<1> QED
  BY <1>1, <1>2, <1>3 DEF Next

\* The leading guards stay decided, and a request passes when they are.
LEMMA NextDecided ==
  GInv /\ LeadingGuardsDecided /\ [Next]_vars /\ GInv' => LeadingGuardsDecided'
<1>1. (GInv /\ step = "idle" /\ ~terminated /\ GuardCalls = {})'
          => (\A i \in LeadingGuards : <<i>> \in completed_tasks)'
  BY NoGuardLeft, PTL
<1> SUFFICES ASSUME GInv, LeadingGuardsDecided, [Next]_vars, GInv',
                    request' \in {"passed", "body_held"}, ~terminated'
             PROVE  (\A i \in LeadingGuards : <<i>> \in completed_tasks)'
  BY Zenon DEF LeadingGuardsDecided
<1>2. TInv /\ IInv /\ IInv' /\ BodiesFollow
  BY Zenon DEF GInv, PInv, TInv
<1>3. ~terminated
  BY <1>2, NextMoves
<1>4. CASE request \in {"passed", "body_held"}
  BY <1>3, <1>4, KeepsCompleted DEF LeadingGuardsDecided, LeadingGuards
<1>5. CASE request \notin {"passed", "body_held"}
  <2>1. request' = "passed" /\ step' = "idle" /\ Next
    BY <1>2, <1>5, PassesAtReturn DEF IInv, Phases
  <2>2. GuardCalls' = {}
    BY <1>2, <1>5, <2>1, ForwardStep
  <2> QED
    BY <1>1, <2>1, <2>2
<1> QED
  BY <1>4, <1>5

\* When the upstream sees a request, the guards that lead its action set have
\* let it pass: each was answered, or its failure mode allows requests.
THEOREM GuardsDecideFirst == Spec => []LeadingGuardsDecided
<1>1. Init => LeadingGuardsDecided
  BY Zenon DEF Init, LeadingGuardsDecided
<1> QED
  BY <1>1, InitGInv, NextGInv, NextDecided, PTL DEF Spec

-----------------------------------------------------------------------------
(* What a held stream waits for.                                           *)

\* The answer of every pending task is on its way.
Awaited == DOMAIN deferred_tasks \subseteq in_flight

\* The response phase, and the end of the response, as the host tells them.
Phased ==
    /\ request = "new" \/ callback \in {"request_headers", "request_body"} => ~in_response_phase
    /\ response \notin {"none", "reset"} => in_response_phase
    /\ callback \in {"response_headers", "response_body"} => in_response_phase
    /\ end_of_stream => in_response_phase
    /\ callback = "response_body" /\ response_ended /\ pipeline => end_of_stream

\* Why the filter holds a request or a response, between callbacks.
HeldFor ==
    step = "idle" =>
        /\ pipeline => ~IsCompleted(deferred_tasks)
        /\ request \in {"held", "body_held"} /\ ~in_response_phase
              => replies = 0 /\ (barrier > 0 \/ terminated)
        /\ response \in {"held", "body_held"}
              => pipeline /\ (barrier > 0 \/ (response_ended /\ end_of_stream))

\* At the end of the response only calls, and tasks whose predicates wait, stay
\* in the queue.
WaitingTasks ==
    {t \in LocalTasks : t.kind # "grpc" => t.kind # "token_usage" /\ IsWaiting(t)}

QueueWaits == ~terminated /\ end_of_stream => task_queue \in Seq(WaitingTasks)

\* Some onReply has a gRPC action that ends the pipeline.
HasTerminalCall == \E id \in GrpcIds : Len(id) > 1 /\ blueprint.actions[id].terminal

\* A pipeline is terminated by a reply, tried at least, or by such a call.
Explained == terminated => replies > 0 \/ metrics["denied"] > 0 \/ HasTerminalCall

HInv == GInv /\ Awaited /\ Phased /\ HeldFor /\ QueueWaits /\ Explained

-----------------------------------------------------------------------------
(* Why pipelines are terminated.                                           *)

\* The last task of a pipeline sends a reply, or is a terminal call.
IsLast(t) ==
    \/ t.kind = "deny" /\ t.concrete
    \/ t.kind = "grpc" /\ t.id \in GrpcIds /\ Len(t.id) > 1 /\ blueprint.actions[t.id].terminal

\* Outcomes that end the pipeline have tried a reply or leave a last task.
Excused ==
    {o \in OutcomeType :
        o.tag = "Terminate" => IF o.tasks = <<>> THEN o.denied ELSE IsLast(o.tasks[1])}

\* The outcomes that do not end the pipeline, and the reply of failure modes.
LEMMA ExcusedOutcomes ==
  /\ Done \in Excused /\ Failed \in Excused /\ Deferred \in Excused
  /\ Terminate(<<SendReplyDefault>>) \in Excused
  /\ \A s \in Seq(Task(blueprint)) : Requeued(s) \in Excused
<1>1. /\ Done.tag = "Done" /\ Failed.tag = "Failed" /\ Deferred.tag = "Deferred"
      /\ \A s : Requeued(s).tag = "Requeued"
  BY DEF Done, Failed, Deferred, Requeued, Outcome
<1>2. /\ Done \in Excused /\ Failed \in Excused /\ Deferred \in Excused
      /\ \A s \in Seq(Task(blueprint)) : Requeued(s) \in Excused
  BY <1>1, OutcomeTypes DEF Excused
<1>3. SendReplyDefault \in Task(blueprint) /\ IsLast(SendReplyDefault)
  BY SendReplyDefaultType DEF SendReplyDefault, MakeTask, IsLast
<1>4. <<SendReplyDefault>> \in Seq(Task(blueprint))
  BY <1>3
<1>5. Terminate(<<SendReplyDefault>>).tasks = <<SendReplyDefault>>
  BY DEF Terminate, Outcome
<1> HIDE DEF SendReplyDefault
<1>6. <<SendReplyDefault>> # <<>> /\ <<SendReplyDefault>>[1] = SendReplyDefault
  OBVIOUS
<1>7. Terminate(<<SendReplyDefault>>) \in Excused
  BY <1>3, <1>4, <1>5, <1>6, OutcomeTypes, Zenon DEF Excused
<1> QED
  BY <1>2, <1>7

\* Tasks end the pipeline with a reply.
LEMMA ApplyExcused ==
  ASSUME Ids(blueprint) \subseteq Seq(Nat), NEW t \in Task(blueprint), NEW o \in Apply(t)
  PROVE  o \in Excused
<1>1. o \in OutcomeType
  BY ApplyType, Zenon
<1>2. <<t>> \in Seq(Task(blueprint)) /\ <<[t EXCEPT !.failure_mode = "none"]>> \in Seq(Task(blueprint))
  <2>1. [t EXCEPT !.failure_mode = "none"] \in Task(blueprint)
    BY Zenon DEF Task, FailureMode
  <2> QED
    BY <2>1
<1>3. Postponed(t) \in Excused /\ Requeued(<<t>>) \in Excused
  BY <1>2, ExcusedOutcomes, Zenon DEF Postponed
<1>4. \A S \in SUBSET Excused : WithPredicate(t, S) \subseteq Excused
  BY <1>3, ExcusedOutcomes, Zenon DEF WithPredicate
<1>5. SetterOutcomes(t) \subseteq Excused
  BY ExcusedOutcomes, Zenon DEF SetterOutcomes
<1>6. CASE t.kind = "grpc"
  BY <1>3, <1>6, ExcusedOutcomes, Zenon DEF Apply, DynamicApply
<1>7. CASE t.kind = "deny"
  <2>1. ASSUME NEW x \in OutcomeType, x.tag = "Terminate" => x.tasks = <<>>
        PROVE  /\ [x EXCEPT !.denied = TRUE] \in Excused
               /\ [x EXCEPT !.denied = TRUE, !.sent = TRUE] \in Excused
    BY <2>1, Zenon DEF OutcomeType, Excused
  <2>2. /\ Done \in OutcomeType /\ Failed \in OutcomeType /\ Terminate(<<>>) \in OutcomeType
        /\ Done.tag = "Done" /\ Failed.tag = "Failed" /\ Terminate(<<>>).tasks = <<>>
    <3>1. <<>> \in Seq(Task(blueprint))
      OBVIOUS
    <3> QED
      BY <3>1, OutcomeTypes, Zenon DEF Done, Failed, Terminate, Outcome
  <2> DEFINE x == IF IsTerminal(t) THEN Terminate(<<>>) ELSE Done
  <2>3. /\ x \in OutcomeType /\ (x.tag = "Terminate" => x.tasks = <<>>)
        /\ Failed.tag # "Terminate"
    BY <2>2
  <2>4. {[x EXCEPT !.denied = TRUE, !.sent = TRUE]}
        \cup (IF HostMayReject THEN {[Failed EXCEPT !.denied = TRUE]} ELSE {})
            \in SUBSET Excused
    <3> HIDE DEF x
    <3>1. [x EXCEPT !.denied = TRUE, !.sent = TRUE] \in Excused
      BY <2>1, <2>3, Zenon
    <3>2. [Failed EXCEPT !.denied = TRUE] \in Excused
      BY <2>1, <2>2, <2>3, Zenon
    <3> QED
      BY <3>1, <3>2, Zenon
  <2> QED
    BY <1>4, <1>7, <2>4, Zenon DEF Apply, SendReplyApply
<1>8. CASE t.kind \in {"headers", "tracker"}
  BY <1>3, <1>4, <1>5, <1>8, ExcusedOutcomes, Zenon DEF Apply, ModifyHeadersApply
<1>9. CASE t.kind = "store"
  BY <1>4, <1>5, <1>9, Zenon DEF Apply, StoreApply
<1>10. CASE t.kind = "token_usage"
  <2>1. \A vs : [Done EXCEPT !.values = vs].tag = "Done"
    BY Zenon DEF Done, Outcome
  <2>2. Failed.tag = "Failed" /\ Requeued(<<t>>).tag = "Requeued"
    BY Zenon DEF Failed, Requeued, Outcome
  <2>3. o \in TokenUsageApply(t)
    BY <1>10, Zenon DEF Apply
  <2>4. o.tag # "Terminate"
    BY <2>1, <2>2, <2>3, Zenon DEF TokenUsageApply
  <2> QED
    BY <1>1, <2>4, Zenon DEF Excused
<1>11. t.kind \in TaskKind
  BY Zenon DEF Task
<1> QED
  BY <1>6, <1>7, <1>8, <1>9, <1>10, <1>11, Zenon DEF TaskKind

\* The decorators end the pipeline with a reply, or leave its end as it is.
LEMMA DecoratorsExcused ==
  ASSUME NEW o \in Excused, NEW mode, NEW traced \in BOOLEAN
  PROVE  WithTracing(traced, WithFailureMode(mode, o)) \in Excused
<1> DEFINE f == WithFailureMode(mode, o)
           s == [i \in 1..Len(f.tasks) |-> [f.tasks[i] EXCEPT !.traced = @ \/ traced]]
           d == WithTracing(traced, f)
<1>1. f \in Excused
  BY ExcusedOutcomes, Zenon DEF WithFailureMode
<1>2. d \in OutcomeType
  BY DecoratorsType, Zenon DEF Excused
<1> HIDE DEF f
<1>3. f \in OutcomeType /\ f.tasks \in Seq(Task(blueprint))
  BY <1>1, Zenon DEF Excused, OutcomeType
<1>4. f.tasks = <<>> => s = <<>>
  BY <1>3
<1>5. f.tasks # <<>> => s # <<>> /\ s[1] = [f.tasks[1] EXCEPT !.traced = @ \/ traced]
                        /\ f.tasks[1] \in Task(blueprint)
  BY <1>3
<1> HIDE DEF s
<1>6. d.tag = f.tag /\ d.tasks = s /\ d.denied = f.denied
  <2>1. d = [f EXCEPT !.tasks = s]
    BY Zenon DEF WithTracing, s
  <2> QED
    BY <1>3, <2>1 DEF OutcomeType
<1>7. \A u \in Task(blueprint) : IsLast(u) => IsLast([u EXCEPT !.traced = @ \/ traced])
  BY Zenon DEF IsLast, Task
<1>8. d.tag = "Terminate" => IF d.tasks = <<>> THEN d.denied ELSE IsLast(d.tasks[1])
  <2> SUFFICES ASSUME d.tag = "Terminate"
               PROVE  IF d.tasks = <<>> THEN d.denied ELSE IsLast(d.tasks[1])
    BY Zenon
  <2>1. IF f.tasks = <<>> THEN f.denied ELSE IsLast(f.tasks[1])
    BY <1>1, <1>6, Zenon DEF Excused
  <2> QED
    BY <1>4, <1>5, <1>6, <1>7, <2>1, Zenon
<1>9. d \in Excused
  BY <1>2, <1>8, Zenon DEF Excused
<1> QED
  BY <1>9, Zenon DEF f

\* Counters never go down, and the ones that are counted go up.
LEMMA CountGrows ==
  ASSUME NEW m \in [Metric -> Nat], NEW S, NEW k \in Metric
  PROVE  Count(m, S)[k] >= m[k] /\ (k \in S => Count(m, S)[k] > 0)
  BY DEF Count

\* A reply that is tried is counted.
LEMMA DenyCounts ==
  ASSUME NEW t, t.kind = "deny", t.concrete, NEW o \in Apply(t)
  PROVE  o.denied
<1>1. o \in SendReplyApply(t)
  BY Zenon DEF Apply
<1>2. /\ \A x \in {Done, Failed, Terminate(<<>>)} :
             /\ [x EXCEPT !.denied = TRUE].denied
             /\ [x EXCEPT !.denied = TRUE, !.sent = TRUE].denied
  BY DEF Done, Failed, Terminate, Outcome
<1> QED
  BY <1>1, <1>2, Zenon DEF SendReplyApply, WithPredicate

\* TaskOutcome::Terminate: a reply is tried, or the terminal call made.
LEMMA TerminateExplained ==
  ASSUME TypeOK, NEW o \in Excused, o.tag = "Terminate", NEW count, NEW errors,
         TerminatePipeline(o, deferred_tasks, count, errors)
  PROVE  Explained'
<1>1. PICK last \in IF o.tasks = <<>> THEN {o} ELSE Apply(o.tasks[1]) :
        Effects(last, errors) /\ UNCHANGED context
  BY Zenon DEF TerminatePipeline
<1>2. HasTerminalCall => HasTerminalCall'
  BY <1>1, Zenon DEF HasTerminalCall, GrpcIds, context
<1>3. metrics \in [Metric -> Nat] /\ "denied" \in Metric
  BY DEF TypeOK, PipelineTypeOK, Metric
<1>4. CASE last.denied
  <2>1. metrics' = Count(metrics, {"denied"} \cup errors)
    BY <1>1, <1>4, Zenon DEF Effects
  <2>2. metrics'["denied"] > 0
    BY <1>3, <2>1, CountGrows
  <2> QED
    BY <2>2, Zenon DEF Explained
<1>5. CASE ~last.denied
  <2>1. o.tasks # <<>> /\ IsLast(o.tasks[1]) /\ last \in Apply(o.tasks[1])
    BY <1>1, <1>5, Zenon DEF Excused
  <2>2. HasTerminalCall
    BY <1>5, <2>1, DenyCounts, Zenon DEF IsLast, HasTerminalCall
  <2> QED
    BY <1>2, <2>2, Zenon DEF Explained
<1> QED
  BY <1>4, <1>5

\* digest: what the replies of services end the pipeline with.
LEMMA DigestExplained ==
  ASSUME IInv, DigestReply, ~terminated, terminated'
  PROVE  Explained'
<1>1. /\ TypeOK /\ reply.pending \in PendingTask(blueprint) /\ reply.next \in Nat \ {0}
      /\ reply.tasks \in Seq(Task(blueprint))
  BY Zenon DEF IInv, TypeOK, PipelineTypeOK, ReplyType
<1>2. ASSUME NEW inner \in Excused, DigestOutcome(inner) PROVE Explained'
  <2> DEFINE p == reply.pending
             o == WithTracing(p.traced, WithFailureMode(p.failure_mode, inner))
  <2>1. o \in Excused
    BY <1>1, <1>2, DecoratorsExcused, Zenon DEF PendingTask
  <2>2. /\ o.tag = "Terminate"
        /\ \E count, errors : TerminatePipeline(o, deferred_tasks, count, errors)
    BY <1>2, Zenon DEF DigestOutcome
  <2> HIDE DEF o
  <2> QED
    BY <1>1, <2>1, <2>2, TerminateExplained, Zenon
<1>3. CASE DigestDone
  <2>1. (IF reply.tasks = <<>> THEN Done ELSE Requeued(reply.tasks)) \in Excused
    BY <1>1, ExcusedOutcomes, Zenon
  <2> QED
    BY <1>2, <1>3, <2>1, Zenon DEF DigestDone
<1>4. CASE DigestError
  BY <1>2, <1>4, ExcusedOutcomes, Zenon DEF DigestError
<1>5. CASE DigestAction
  <2> DEFINE id == OnReply(blueprint, reply.pending.id)[reply.next]
  <2>1. PICK verdict \in ReplyVerdicts(id) :
          \/ verdict = "fail" /\ DigestOutcome(Failed)
          \/ verdict = "terminate" /\ DigestOutcome(Terminate(<<ReplyTask(id)>>))
          \/ verdict \in {"skip", "push"} /\ UNCHANGED terminated
    BY <1>5, Zenon DEF DigestAction
  <2>2. id \in Ids(blueprint) /\ Len(id) > 1
    <3>1. /\ reply.pending.id \in Ids(blueprint)
          /\ reply.next \in 1..Len(OnReply(blueprint, reply.pending.id))
      <4>1. reply.pending.id \in Ids(blueprint)
        BY <1>1, <1>5, Zenon DEF DigestAction, PendingTask
      <4>2. OnReply(blueprint, reply.pending.id) \in Seq(Ids(blueprint))
        BY <1>1, <4>1, BlueprintFacts, Zenon
      <4> QED
        BY <1>1, <1>5, <4>1, <4>2 DEF DigestAction
    <3>2. /\ WellFormed(blueprint) /\ reply.pending.id \in Seq(Nat) /\ reply.pending.id # <<>>
      BY <1>1, <3>1, IdFacts, Zenon DEF TypeOK
    <3>3. id = reply.pending.id \o <<reply.next>> /\ id \in Ids(blueprint)
      <4>1. reply.pending.id \in Ids(blueprint) \cup {<<>>}
        BY <3>1, Zenon
      <4> QED
        BY <3>1, <3>2, <4>1, OnReplyFacts, Zenon
    <3>4. Len(id) = Len(reply.pending.id) + 1
      BY <1>1, <3>2, <3>3, IdOf, Zenon
    <3>5. Len(reply.pending.id) \in Nat \ {0}
      BY <3>2
    <3> HIDE DEF id
    <3> QED
      BY <3>3, <3>4, <3>5
  <2> HIDE DEF id
  <2>3. CASE verdict = "terminate"
    <3> DEFINE a == blueprint.actions[id]
               x == ReplyTask(id)
    <3>1. a.terminal /\ a.op \in {"deny", "grpc"}
      BY <2>1, <2>3, Zenon DEF ReplyVerdicts
    <3>2. x \in Task(blueprint)
      BY <1>1, <2>2, <2>3, ReplyTaskType, Zenon
    <3>3. x.kind = a.op /\ x.id = id /\ x.concrete = (a.op # "grpc")
      BY Zenon DEF ReplyTask, MakeTask
    <3> HIDE DEF x
    <3>4. IsLast(x)
      BY <2>2, <3>1, <3>3, Zenon DEF IsLast, GrpcIds
    <3>5. <<x>> \in Seq(Task(blueprint)) /\ <<x>> # <<>> /\ <<x>>[1] = x
      BY <3>2
    <3>6. Terminate(<<x>>).tasks = <<x>>
      BY Zenon DEF Terminate, Outcome
    <3>7. Terminate(<<x>>) \in Excused
      BY <3>4, <3>5, <3>6, OutcomeTypes, Zenon DEF Excused
    <3> QED
      BY <1>2, <2>1, <2>3, <3>7, Zenon DEF x
  <2>4. CASE verdict # "terminate"
    BY <1>2, <2>1, <2>4, ExcusedOutcomes, Zenon
  <2> QED
    BY <2>3, <2>4
<1> QED
  BY <1>3, <1>4, <1>5, Zenon DEF DigestReply

\* eval: what tasks end the pipeline with.
LEMMA EvalExplained ==
  ASSUME IInv, EvalTask, ~terminated, terminated'
  PROVE  Explained'
<1> DEFINE t == Head(tasks_to_process)
<1>1. TypeOK /\ t \in Task(blueprint) /\ Ids(blueprint) \subseteq Seq(Nat)
  <2>1. TypeOK /\ tasks_to_process \in Seq(Task(blueprint)) /\ tasks_to_process # <<>>
    BY Zenon DEF IInv, TypeOK, PipelineTypeOK, EvalTask
  <2>2. t \in Task(blueprint)
    BY <2>1
  <2> QED
    BY <2>1, <2>2, BlueprintFacts
<1>2. EvalApply(t)
  BY Zenon DEF EvalTask, EvalBlocked
<1> HIDE DEF t
<1>3. PICK inner \in Apply(t) :
        LET o == WithTracing(t.traced, WithFailureMode(t.failure_mode, inner))
        IN  o.tag = "Terminate" /\ \E errors : TerminatePipeline(o, deferred_tasks, barrier, errors)
  BY <1>2, Zenon DEF EvalApply, EvalDeferred, EvalSettled
<1>4. inner \in Excused
  BY <1>1, ApplyExcused, Zenon
<1>5. WithTracing(t.traced, WithFailureMode(t.failure_mode, inner)) \in Excused
  BY <1>1, <1>4, DecoratorsExcused, Zenon DEF Task
<1> QED
  BY <1>1, <1>3, <1>5, TerminateExplained, Zenon

\* A termination keeps its reason.
LEMMA NextExplained == IInv /\ Explained /\ [Next]_vars => Explained'
<1> SUFFICES ASSUME IInv, Explained, [Next]_vars, terminated' PROVE Explained'
  BY Zenon DEF Explained
<1>1. metrics \in [Metric -> Nat] /\ "denied" \in Metric
  BY DEF IInv, TypeOK, PipelineTypeOK, Metric
<1>2. CASE ~terminated
  <2>1. Step
    BY <1>2, ZenonT(30) DEF Next, Return, ReturnRequest, ReturnResponseHeaders, ReturnResponseBody,
       ReturnGrpcCallResponse, EvalEnd, HttpCallback, OnHttpRequestHeaders,
       OnHttpRequestHeadersMiss, OnHttpRequestHeadersError, OnHttpRequestBody,
       OnHttpResponseHeaders, OnHttpResponseBody, Begin, GrpcCallback, OnGrpcCallResponse,
       OnGrpcCallResponseLate, StreamReset, Finished, vars, pipelineVars
  <2> QED
    BY <1>2, <2>1, DigestExplained, EvalExplained, Zenon DEF Step
<1>3. CASE terminated
  <2>1. replies' = replies
    BY <1>3, TerminatedStep, Zenon DEF vars, pipelineVars, host
  <2>2. metrics' = metrics \/ \E S : metrics' = Count(metrics, S)
    BY ZenonT(30) DEF Next, Step, DigestReply, DigestDone, DigestError, DigestAction, DigestOutcome,
       TerminatePipeline, Effects, EvalTask, EvalBlocked, EvalApply, EvalDeferred, EvalSettled,
       Return, ReturnRequest, ReturnResponseHeaders, ReturnResponseBody,
       ReturnGrpcCallResponse, EvalEnd, HttpCallback, OnHttpRequestHeaders,
       OnHttpRequestHeadersMiss, OnHttpRequestHeadersError, OnHttpRequestBody,
       OnHttpResponseHeaders, OnHttpResponseBody, GrpcCallback, OnGrpcCallResponse,
       OnGrpcCallResponseLate, StreamReset, Finished, vars, pipelineVars, host
  <2>3. metrics["denied"] > 0 => metrics'["denied"] > 0
    <3>1. CASE metrics' = metrics
      BY <3>1, Zenon
    <3>2. ASSUME NEW S, metrics' = Count(metrics, S) PROVE metrics'["denied"] >= metrics["denied"]
      BY <1>1, <3>2, CountGrows, Zenon
    <3>3. metrics["denied"] \in Nat /\ \A S : Count(metrics, S)["denied"] \in Nat
      BY <1>1 DEF Count
    <3> QED
      BY <2>2, <3>1, <3>2, <3>3
  <2>4. blueprint' = blueprint
    <3>1. Idle => request # "new"
      BY <1>3, Zenon DEF Idle, IInv, Phases
    <3> QED
      BY <3>1, KeepsCompleted, Zenon
  <2> QED
    BY <1>3, <2>1, <2>3, <2>4, Zenon DEF Explained, HasTerminalCall, GrpcIds
<1> QED
  BY <1>2, <1>3

-----------------------------------------------------------------------------

\* Termination only waits for calls that were made.
LEMMA TerminateAwaited ==
  ASSUME TypeOK, Awaited, NEW o, NEW count, NEW errors,
         TerminatePipeline(o, deferred_tasks, count, errors)
  PROVE  Awaited'
<1>1. PICK last \in IF o.tasks = <<>> THEN {o} ELSE Apply(o.tasks[1]), exported \in BOOLEAN :
        LET called == last.tag = "Deferred"
            token  == IF called THEN next_token + 1 ELSE next_token
        IN  /\ deferred_tasks' = ExecuteTeardown(deferred_tasks, token, exported)
            /\ Dispatch(IF exported THEN token + 1 ELSE token)
  BY Zenon DEF TerminatePipeline
<1> DEFINE token == IF last.tag = "Deferred" THEN next_token + 1 ELSE next_token
<1>2. next_token \in Nat /\ token \in Nat /\ next_token <= token
  BY DEF TypeOK, PipelineTypeOK
<1>3. /\ deferred_tasks' = ExecuteTeardown(deferred_tasks, token, exported)
      /\ in_flight' = in_flight \cup next_token..((IF exported THEN token + 1 ELSE token) - 1)
  BY <1>1 DEF Dispatch
<1> HIDE DEF token
<1>4. /\ DOMAIN deferred_tasks' \subseteq DOMAIN deferred_tasks \cup {token}
      /\ ~exported => DOMAIN deferred_tasks' = DOMAIN deferred_tasks
  BY <1>3, TeardownGuards
<1>5. exported => token \in in_flight'
  BY <1>2, <1>3
<1> QED
  BY <1>3, <1>4, <1>5 DEF Awaited

\* The host answers the calls that are pending.
LEMMA NextAwaited == IInv /\ Awaited /\ [Next]_vars => Awaited'
<1> SUFFICES ASSUME IInv, Awaited, [Next]_vars PROVE Awaited'
  OBVIOUS
<1>1. TypeOK /\ next_token \in Nat
  BY Zenon DEF IInv, TypeOK, PipelineTypeOK
<1>2. CASE Step
  <2>1. ASSUME NEW inner, DigestOutcome(inner) PROVE Awaited'
    BY <1>1, <2>1, TerminateAwaited DEF DigestOutcome, Awaited
  <2>2. CASE DigestReply
    BY <2>1, <2>2, Zenon DEF DigestReply, DigestDone, DigestError, DigestAction, Awaited, host
  <2>3. ASSUME NEW t, EvalDeferred(t) PROVE Awaited'
    <3>1. DOMAIN deferred_tasks' = DOMAIN deferred_tasks \cup {next_token}
      BY <2>3, Zenon DEF EvalDeferred, Insert
    <3>2. in_flight' = in_flight \cup next_token..((next_token + 1) - 1)
      BY <2>3 DEF EvalDeferred, Dispatch
    <3> QED
      BY <1>1, <3>1, <3>2 DEF Awaited
  <2>4. CASE EvalTask
    BY <1>1, <2>3, <2>4, TerminateAwaited, ZenonT(30) DEF EvalTask, EvalBlocked, EvalApply, EvalSettled, Awaited, host
  <2> QED
    BY <1>2, <2>2, <2>4 DEF Step
<1>3. CASE Return
  <2>1. PICK exported \in BOOLEAN : EvalEnd(exported)
    BY <1>3 DEF Return, ReturnRequest, ReturnResponseHeaders, ReturnResponseBody,
                ReturnGrpcCallResponse
  <2>2. /\ in_flight' = in_flight \cup next_token..((IF exported THEN next_token + 1 ELSE next_token) - 1)
        /\ exported => TeardownDue
        /\ deferred_tasks' = IF TeardownDue THEN ExecuteTeardown(deferred_tasks, next_token, exported)
                             ELSE deferred_tasks
    BY <2>1, Zenon DEF EvalEnd, Dispatch
  <2>3. /\ DOMAIN deferred_tasks' \subseteq DOMAIN deferred_tasks \cup {next_token}
        /\ ~exported => DOMAIN deferred_tasks' = DOMAIN deferred_tasks
    BY <2>2, TeardownGuards
  <2>4. exported => next_token \in in_flight'
    BY <1>1, <2>2
  <2> QED
    BY <2>2, <2>3, <2>4 DEF Awaited
<1>4. CASE HttpCallback
  BY <1>4, Zenon DEF HttpCallback, OnHttpRequestHeaders, OnHttpRequestHeadersMiss, OnHttpRequestHeadersError,
     OnHttpRequestBody, OnHttpResponseHeaders, OnHttpResponseBody, Begin, Awaited
<1>5. CASE GrpcCallback
  <2>1. Idle /\ ~pipeline => DOMAIN deferred_tasks = {}
    BY Zenon DEF Idle, IInv, Phases, Inactive
  <2> QED
    BY <1>5, <2>1, Zenon DEF GrpcCallback, OnGrpcCallResponse, OnGrpcCallResponseLate, Awaited
<1>6. CASE StreamReset \/ Finished \/ UNCHANGED vars
  BY <1>6 DEF StreamReset, Finished, vars, pipelineVars, host, Awaited
<1> QED
  BY <1>2, <1>3, <1>4, <1>5, <1>6 DEF Next

\* The host's phases.
LEMMA NextPhased == IInv /\ Phased /\ [Next]_vars => Phased'
<1> SUFFICES ASSUME IInv, Phased, [Next]_vars PROVE Phased'
  BY Zenon
<1>1. CASE Step
  <2>1. UNCHANGED <<end_of_stream, in_response_phase>>
    <3>1. CASE DigestReply
      BY <3>1, ZenonT(30) DEF DigestReply, DigestDone, DigestError, DigestAction, DigestOutcome,
                  TerminatePipeline, context
    <3>2. CASE EvalTask
      BY <3>2, ZenonT(30) DEF EvalTask, EvalBlocked, EvalApply, EvalDeferred, EvalSettled, TerminatePipeline, context
    <3> QED
      BY <1>1, <3>1, <3>2 DEF Step
  <2> QED
    BY <1>1, <2>1 DEF Step, filterVars, streamVars, Phased
<1>2. CASE Return
  <2>1. UNCHANGED <<end_of_stream, in_response_phase>> /\ step = "eval" /\ callback' = "none"
    BY <1>2 DEF Return, ReturnRequest, ReturnResponseHeaders, ReturnResponseBody,
                ReturnGrpcCallResponse, EvalEnd, context
  <2>2. request' # "new"
    <3>1. callback # "request_headers" => request # "new"
      BY <2>1 DEF IInv, Phases
    <3> QED
      BY <1>2, <3>1 DEF Return, ReturnRequest, ReturnResponseHeaders, ReturnResponseBody,
         ReturnGrpcCallResponse, RequestAfter, Resumed
  <2>3. response' # response /\ response \in {"none", "reset"} => callback \in {"response_headers", "response_body"}
    BY <1>2 DEF Return, ReturnRequest, ReturnResponseHeaders, ReturnResponseBody,
       ReturnGrpcCallResponse, Resumed
  <2> QED
    BY <2>1, <2>2, <2>3, Zenon DEF Phased
<1>3. CASE HttpCallback
  <2>1. CASE OnHttpRequestHeaders
    BY <2>1, Zenon DEF OnHttpRequestHeaders, streamVars, Phased
  <2>2. CASE OnHttpRequestHeadersMiss \/ OnHttpRequestHeadersError
    <3>1. /\ step = "idle" /\ request' # "new"
          /\ UNCHANGED <<end_of_stream, in_response_phase, response, response_ended, callback, pipeline>>
      BY <2>2, Zenon DEF OnHttpRequestHeadersMiss, OnHttpRequestHeadersError, Idle, context, filterVars
    <3> QED
      BY <3>1, Zenon DEF Phased
  <2>3. CASE OnHttpRequestBody
    <3>1. /\ ~in_response_phase /\ callback' = "request_body"
          /\ UNCHANGED <<end_of_stream, in_response_phase, response, request>>
      BY <2>3, Zenon DEF OnHttpRequestBody, Begin
    <3> QED
      BY <3>1, Zenon DEF Phased
  <2>4. ASSUME NEW eos \in BOOLEAN, OnHttpResponseHeaders(eos) PROVE Phased'
    <3>1. in_response_phase' /\ callback' = "response_headers" /\ request' = request /\ request # "new"
      BY <2>4, Zenon DEF OnHttpResponseHeaders, Begin
    <3> QED
      BY <3>1, Zenon DEF Phased
  <2>5. ASSUME NEW eos \in BOOLEAN, OnHttpResponseBody(eos) PROVE Phased'
    <3>1. /\ callback' = "response_body" /\ response \notin {"none", "reset"} /\ response_ended' = eos
          /\ end_of_stream' = IF pipeline THEN eos ELSE end_of_stream
          /\ UNCHANGED <<in_response_phase, request, pipeline>>
      BY <2>5 DEF OnHttpResponseBody, Begin, Idle
    <3>2. request # "new"
      BY <3>1 DEF IInv, Phases
    <3> QED
      BY <3>1, <3>2, Zenon DEF Phased
  <2> QED
    BY <1>3, <2>1, <2>2, <2>3, <2>4, <2>5 DEF HttpCallback
<1>4. CASE GrpcCallback
  <2>1. /\ callback' \in {callback, "grpc_call_response"}
        /\ UNCHANGED <<end_of_stream, in_response_phase, request, response, response_ended, pipeline>>
    BY <1>4, Zenon DEF GrpcCallback, OnGrpcCallResponse, OnGrpcCallResponseLate, context, filterVars, streamVars
  <2> QED
    BY <2>1, Zenon DEF Phased
<1>5. CASE StreamReset \/ Finished \/ UNCHANGED vars
  BY <1>5 DEF StreamReset, Finished, vars, pipelineVars, context, filterVars, streamVars, Phased
<1> QED
  BY <1>1, <1>2, <1>3, <1>4, <1>5, Zenon DEF Next

\* A callback that returns holds the stream for a reason.
LEMMA NextHeldFor == IInv /\ Phased /\ HeldFor /\ [Next]_vars => HeldFor'
<1> SUFFICES ASSUME IInv, Phased, HeldFor, [Next]_vars, step' = "idle" PROVE HeldFor'
  BY Zenon DEF HeldFor
<1>1. /\ barrier \in Nat /\ pipeline \in BOOLEAN /\ terminated \in BOOLEAN
      /\ in_response_phase \in BOOLEAN /\ response_ended \in BOOLEAN /\ replies \in Nat
  BY Zenon DEF IInv, TypeOK, PipelineTypeOK
<1>2. ASSUME NEW exported \in BOOLEAN, EvalEnd(exported)
      PROVE  /\ UNCHANGED <<barrier, terminated, in_response_phase, end_of_stream, replies>>
             /\ IsCompleted(deferred_tasks)' <=> IsCompleted(deferred_tasks')
  BY <1>2, Zenon DEF EvalEnd, context, IsCompleted
<1>3. ASSUME NEW exported \in BOOLEAN, ReturnRequest(exported) PROVE HeldFor'
  <2>1. /\ callback \in {"request_headers", "request_body"} /\ EvalEnd(exported)
        /\ pipeline' => ~IsCompleted(deferred_tasks')
        /\ request' \in {"held", "body_held"} => pipeline' /\ barrier > 0 /\ ~(replies > 0)
        /\ response' = response
    BY <1>3, Zenon DEF ReturnRequest, RequestAfter, ShouldPause
  <2>2. response \in {"none", "reset"}
    BY <2>1, Zenon DEF Phased
  <2> QED
    BY <1>1, <1>2, <2>1, <2>2 DEF HeldFor
<1>4. ASSUME NEW exported \in BOOLEAN, ReturnResponseHeaders(exported) PROVE HeldFor'
  <2>1. /\ callback = "response_headers" /\ EvalEnd(exported)
        /\ pipeline' => ~IsCompleted(deferred_tasks')
        /\ response' \in {"held", "body_held"} => pipeline' /\ barrier > 0
    BY <1>4, Zenon DEF ReturnResponseHeaders, ShouldPause, ResponsePassed
  <2>2. in_response_phase
    BY <2>1, Zenon DEF Phased
  <2> QED
    BY <1>2, <2>1, <2>2, Zenon DEF HeldFor
<1>5. ASSUME NEW exported \in BOOLEAN, ReturnResponseBody(exported) PROVE HeldFor'
  <2>1. /\ callback = "response_body" /\ EvalEnd(exported)
        /\ pipeline' => ~IsCompleted(deferred_tasks') /\ pipeline
        /\ response' \in {"held", "body_held"} => pipeline' /\ (barrier > 0 \/ response_ended)
        /\ response_ended' = response_ended
    BY <1>1, <1>5, Zenon DEF ReturnResponseBody, ShouldPause, ResponsePassed, HasPipeline
  <2>2. in_response_phase /\ (response_ended /\ pipeline => end_of_stream)
    BY <2>1, Zenon DEF Phased
  <2> QED
    BY <1>2, <2>1, <2>2, Zenon DEF HeldFor
<1>6. ASSUME NEW exported \in BOOLEAN, ReturnGrpcCallResponse(exported) PROVE HeldFor'
  <2>1. EvalEnd(exported) /\ pipeline' = ~IsCompleted(deferred_tasks')
    BY <1>6 DEF ReturnGrpcCallResponse
  <2> DEFINE resume == IF pipeline' THEN ShouldResume
                       ELSE ~terminated \/ force_resume \/ in_response_phase
  <2>2. /\ response' = IF resume /\ in_response_phase
                       THEN Resumed(response, ResponsePassed) ELSE response
        /\ request' = CASE in_response_phase -> request
                        [] replies > 0       -> "replied"
                        [] resume            -> Resumed(request, "passed")
                        [] OTHER             -> request
    BY <1>6, Zenon DEF ReturnGrpcCallResponse
  <2>3. in_response_phase \/ ~terminated => resume \/ (pipeline' /\ barrier > 0)
    BY <1>1, Zenon DEF ShouldResume, ShouldPause
  <2> HIDE DEF resume
  <2>4. /\ Resumed(request, "passed") \notin {"held", "body_held"}
        /\ Resumed(response, ResponsePassed) \notin {"held", "body_held"}
    BY Zenon DEF Resumed, ResponsePassed
  <2>5. request' \in {"held", "body_held"} /\ ~in_response_phase => ~resume /\ replies = 0
    BY <1>1, <2>2, <2>4
  <2>6. response \notin {"none", "reset"} => in_response_phase
    BY Zenon DEF Phased
  <2>7. response' \in {"held", "body_held"} => in_response_phase /\ ~resume
    BY <2>2, <2>4, <2>6
  <2>8. pipeline' => ~IsCompleted(deferred_tasks')
    BY <2>1, Zenon
  <2> QED
    BY <1>2, <2>1, <2>3, <2>5, <2>7, <2>8 DEF HeldFor
<1>7. CASE Step
  BY <1>7, ZenonT(30) DEF Step, DigestReply, DigestDone, DigestError, DigestAction, DigestOutcome, EvalTask,
     EvalBlocked, EvalApply, EvalDeferred, EvalSettled, TerminatePipeline, StartEval
<1>8. CASE HttpCallback
  <2>1. OnHttpRequestHeadersMiss \/ OnHttpRequestHeadersError
    BY <1>8, Zenon DEF HttpCallback, OnHttpRequestHeaders, OnHttpRequestBody, OnHttpResponseHeaders,
                OnHttpResponseBody, Begin, StartEval
  <2>2. /\ step = "idle" /\ request' \notin {"held", "body_held"}
        /\ UNCHANGED <<barrier, response, response_ended, end_of_stream, pipeline, deferred_tasks,
                       task_queue>>
    BY <2>1, Zenon DEF OnHttpRequestHeadersMiss, OnHttpRequestHeadersError, Idle, context, filterVars
  <2> QED
    BY <2>2, Zenon DEF HeldFor, IsCompleted
<1>9. CASE GrpcCallback
  <2>1. PICK t \in in_flight : OnGrpcCallResponseLate(t)
    BY <1>9, Zenon DEF GrpcCallback, OnGrpcCallResponse, StartEval
  <2> QED
    BY <2>1, Zenon DEF OnGrpcCallResponseLate, HeldFor, IsCompleted, Idle, context, filterVars, streamVars
<1>10. CASE StreamReset \/ Finished \/ UNCHANGED vars
  <2>1. /\ response' = response \/ response' \notin {"held", "body_held"}
        /\ UNCHANGED <<step, pipeline, task_queue, deferred_tasks, request, in_response_phase,
                       replies, barrier, terminated, response_ended, end_of_stream>>
    BY <1>10, Zenon DEF StreamReset, Finished, vars, pipelineVars, context, host, filterVars, streamVars
  <2> QED
    BY <2>1, Zenon DEF HeldFor, IsCompleted
<1> QED
  BY <1>3, <1>4, <1>5, <1>6, <1>7, <1>8, <1>9, <1>10 DEF Next, Return

\* An extracted field of the body belongs to a gRPC action of the set, or to
\* an action below it: a task with a predicate of its own waits on.
LEMMA StillWaiting ==
  ASSUME TInv, NEW t \in LocalTasks, Finishes(t)
  PROVE  WaitingTasks \subseteq WaitingTasks'
<1>1. /\ UNCHANGED <<blueprint, end_of_stream, in_response_phase>>
      /\ \A k \in body_values' : \/ k \in body_values
                                 \/ t.kind = "token_usage" /\ k \in CollectBodyValues(blueprint, t.id)
  BY Zenon DEF Finishes, Evals
<1>2. LocalTasks' = LocalTasks
  BY <1>1, Zenon DEF LocalTasks
<1> SUFFICES ASSUME NEW u \in WaitingTasks PROVE u \in WaitingTasks'
  BY Zenon
<1>3. u \in LocalTasks /\ (u.kind # "grpc" => u.kind # "token_usage" /\ IsWaiting(u))
  BY Zenon DEF WaitingTasks
<1> SUFFICES ASSUME u.kind # "grpc" PROVE IsWaiting(u)'
  BY <1>2, <1>3, Zenon DEF WaitingTasks
<1>4. /\ ~u.concrete /\ IsPending(ActionOf(u).pred, u.id)
      /\ u.id \in Ids(blueprint) /\ Len(u.id) = 1 /\ blueprint.actions[u.id].op # "grpc"
  BY <1>3, Zenon DEF IsWaiting, LocalTasks, LocalTask
<1>5. ASSUME t.kind = "token_usage" PROVE u.id \notin CollectBodyValues(blueprint, t.id)
  <2>1. t.id \in Ids(blueprint) /\ Len(t.id) = 1 /\ blueprint.actions[t.id].op = "grpc"
    BY <1>5, Zenon DEF LocalTasks, LocalTask
  <2>2. t.id \in Seq(Nat) /\ u.id \in Seq(Nat) /\ t.id # u.id
    BY <1>3, <1>4, <2>1 DEF LocalTasks, Task
  <2>3. t.id[1] # u.id[1]
    BY <1>4, <2>1, <2>2
  <2>4. ~IsBelow(u.id, t.id)
    BY <2>1, <2>2, <2>3 DEF IsBelow
  <2> QED
    BY <2>4, Zenon DEF CollectBodyValues
<1>6. u.id \in body_values' => u.id \in body_values
  BY <1>1, <1>5
<1>7. IsPending(ActionOf(u).pred, u.id)'
  BY <1>1, <1>4, <1>6 DEF IsPending, ActionOf
<1> QED
  BY <1>4, <1>7, Zenon DEF IsWaiting

\* At the end of the response only tasks that wait stay in the queue.
LEMMA MovesWaits ==
  ASSUME TInv, Phased, ~terminated, Moves, QueueWaits
  PROVE  QueueWaits'
<1>1. <<>> \in Seq(WaitingTasks') /\ task_queue \in Seq(LocalTasks)
  BY DEF TInv, Local
<1>2. CASE Admits \/ Reschedules \/ Settles
  BY <1>1, <1>2, Zenon DEF Admits, Reschedules, Settles, QueueWaits
<1>3. CASE Answers \/ Takes \/ Ends \/ Rests
  <2>1. UNCHANGED <<blueprint, task_queue, body_values, end_of_stream, in_response_phase>>
    BY <1>3, Zenon DEF Answers, Takes, Ends, Rests
  <2>2. WaitingTasks' = WaitingTasks
    BY <2>1, Zenon DEF WaitingTasks, LocalTasks, IsWaiting, IsPending, ActionOf
  <2> QED
    BY <2>1, <2>2, Zenon DEF QueueWaits
<1>4. ASSUME NEW t \in LocalTasks, Requeues(t) PROVE QueueWaits'
  <2>1. UNCHANGED <<blueprint, body_values, end_of_stream, in_response_phase>>
    BY <1>4, Zenon DEF Requeues, Evals
  <2>2. WaitingTasks' = WaitingTasks
    BY <2>1, Zenon DEF WaitingTasks, LocalTasks, IsWaiting, IsPending, ActionOf
  <2> SUFFICES ASSUME end_of_stream PROVE task_queue' \in Seq(WaitingTasks)
    BY <2>1, <2>2, Zenon DEF QueueWaits
  <2>3. PICK u \in Task(blueprint) :
          /\ task_queue' = Append(task_queue, u)
          /\ u.kind = t.kind /\ u.id = t.id /\ u.concrete = t.concrete
          /\ \/ IsBlocked(t)
             \/ t.kind # "grpc" /\ end_of_stream /\ in_response_phase
                   => t.kind # "token_usage" /\ ~t.concrete /\ IsPending(ActionOf(t).pred, t.id)
    BY <1>4, Zenon DEF Requeues
  <2>4. IsBlocked(t) => t.kind = "grpc"
    BY Zenon DEF IsBlocked, TaskDependencies
  <2>5. in_response_phase
    BY Zenon DEF Phased
  <2>6. u \in LocalTasks
    BY <2>3, Zenon DEF LocalTasks, LocalTask
  <2>7. u \in WaitingTasks
    BY <2>3, <2>4, <2>5, <2>6 DEF WaitingTasks, IsWaiting, ActionOf
  <2> QED
    BY <2>3, <2>7 DEF QueueWaits
<1>5. ASSUME NEW t \in LocalTasks, Calls(t) PROVE QueueWaits'
  <2>1. UNCHANGED <<blueprint, task_queue, body_values, end_of_stream, in_response_phase>>
    BY <1>5, Zenon DEF Calls, Evals
  <2>2. WaitingTasks' = WaitingTasks
    BY <2>1, Zenon DEF WaitingTasks, LocalTasks, IsWaiting, IsPending, ActionOf
  <2> QED
    BY <2>1, <2>2, Zenon DEF QueueWaits
<1>6. ASSUME NEW t \in LocalTasks, Finishes(t) PROVE QueueWaits'
  <2>1. UNCHANGED <<task_queue, end_of_stream>>
    BY <1>6, Zenon DEF Finishes, Evals
  <2>2. WaitingTasks \subseteq WaitingTasks'
    BY <1>6, StillWaiting
  <2> QED
    BY <2>1, <2>2 DEF QueueWaits
<1> QED
  BY <1>2, <1>3, <1>4, <1>5, <1>6 DEF Moves

\* The invariant behind held streams.
LEMMA NextHInv == HInv /\ [Next]_vars => HInv'
<1> SUFFICES ASSUME HInv, [Next]_vars PROVE HInv'
  BY Zenon
<1>1. GInv /\ TInv /\ IInv /\ Awaited /\ Phased /\ HeldFor /\ QueueWaits /\ Explained
  BY Zenon DEF HInv, GInv, PInv, TInv
<1>2. GInv' /\ Awaited' /\ Phased' /\ HeldFor' /\ Explained'
  BY <1>1, NextGInv, NextAwaited, NextPhased, NextHeldFor, NextExplained
<1>3. QueueWaits'
  <2>1. ~terminated' => ~terminated /\ Moves
    BY <1>1, NextMoves, Zenon
  <2> QED
    BY <1>1, <2>1, MovesWaits DEF QueueWaits
<1> QED
  BY <1>2, <1>3 DEF HInv

\* What waits behind an action that is nowhere, or that failed, waits for ever.
LEMMA DeadDependency ==
  ASSUME HInv, step = "idle", ~terminated, end_of_stream, DOMAIN deferred_tasks = {},
         task_queue # <<>>
  PROVE  \/ IsWaiting(task_queue[1])
         \/ \E d \in TaskDependencies(task_queue[1]) : IsDead(d)
<1> DEFINE t == task_queue[1]
           id == t.id
           d == Previous(id)
<1>1. TypeOK /\ TInv /\ PInv /\ task_queue \in Seq(WaitingTasks)
  BY Zenon DEF HInv, GInv, PInv, TInv, IInv, QueueWaits
<1>2. 1 \in DOMAIN task_queue /\ t \in WaitingTasks
  BY <1>1
<1>3. t \in Task(blueprint) /\ (t.kind = "grpc" \/ IsWaiting(t))
  BY <1>2, Zenon DEF WaitingTasks, LocalTasks
<1> SUFFICES ASSUME t.kind = "grpc"
             PROVE  \E x \in TaskDependencies(t) : IsDead(x)
  BY <1>3, Zenon
<1>4. 1 \in Occurrences(task_queue, id) /\ id \in Ids(blueprint) /\ Has(task_queue, id)
  BY <1>2, <1>3, Zenon DEF Task, Occurrences, Has
<1>5. /\ Rank(id) > 1 /\ d \notin completed_tasks /\ Before(task_queue, d, id)
  BY <1>1, <1>4, Zenon DEF HInv, GInv, Blocked, PInv, Placed, InSequence
<1>6. TaskDependencies(t) = {d}
  BY <1>5, Zenon DEF TaskDependencies, Dependencies, Previous
<1>7. Occurrences(task_queue, d) = {}
  <2>1. \A i \in Occurrences(task_queue, d) : i \in 1..Len(task_queue) /\ i < 1
    BY <1>1, <1>4, <1>5 DEF Before, Occurrences
  <2> QED
    BY <1>1, <2>1
<1>8. /\ Occurrences(tasks_to_process, d) = {} /\ Occurrences(reply.tasks, d) = {}
      /\ Answered = {} /\ {u \in DOMAIN deferred_tasks : deferred_tasks[u].id = d} = {}
  <2>1. tasks_to_process = <<>> /\ reply.tasks = <<>>
    BY <1>1 DEF TInv, Transient, NoReply
  <2> QED
    BY <2>1, InNone, Zenon DEF Answered
<1>9. IsDead(d)
  <2> SUFFICES ASSUME d \notin failed_tasks PROVE Places(d) = {}
    BY Zenon DEF IsDead
  <2> HIDE DEF d
  <2> QED
    BY <1>5, <1>7, <1>8 DEF Places
<1> QED
  BY <1>6, <1>9, Zenon

\* A stream that is held has someone to resume it, or is a request whose
\* pipeline was terminated without a reply, or a response that has ended with a
\* task behind a dead dependency or waiting for data that will not come.
THEOREM HeldStreamsAreAwaited == Spec => []HeldIsAwaited
<1>1. Init => HInv
  <2> SUFFICES ASSUME Init PROVE HInv
    BY Zenon
  <2>1. GInv
    BY InitGInv, Zenon
  <2>2. DOMAIN deferred_tasks = {}
    BY DEF Init
  <2> QED
    BY <2>1, <2>2 DEF HInv, Init, Awaited, Phased, HeldFor, QueueWaits, Explained
<1>2. HInv => HeldIsAwaited
  <2> SUFFICES ASSUME HInv, step = "idle" PROVE HeldIsAwaited
    BY Zenon DEF HeldIsAwaited
  <2>1. /\ TypeOK /\ IInv /\ DOMAIN deferred_tasks \subseteq in_flight /\ barrier \in Nat
    BY Zenon DEF HInv, GInv, PInv, TInv, IInv, Awaited, TypeOK, PipelineTypeOK
  <2>2. barrier > 0 /\ ~terminated => GuardCalls # {}
    <3>1. Owed = Cardinality(GuardCalls)
      BY <2>1, OwedIsCalls, Zenon DEF IInv, Phases
    <3>2. Cardinality({}) = 0
      BY FS_EmptySet, Zenon
    <3> QED
      BY <2>1, <3>1, <3>2 DEF IInv, BarrierBalanced
  <2>3. GuardCalls \subseteq DOMAIN deferred_tasks
    BY Zenon DEF GuardCalls
  <2>4. ASSUME request \in {"held", "body_held"}, ~in_response_phase
        PROVE  GuardCalls \cap in_flight # {} \/ RequestAbandoned
    <3>1. replies = 0 /\ (barrier > 0 \/ terminated)
      BY <2>4, Zenon DEF HInv, HeldFor
    <3>2. CASE terminated
      <4>1. metrics["denied"] > 0 \/ HasTerminalCall
        BY <3>1, <3>2 DEF HInv, Explained
      <4> QED
        BY <2>4, <3>1, <3>2, <4>1, Zenon DEF RequestAbandoned, Unanswered, HasTerminalCall
    <3>3. CASE ~terminated
      BY <2>1, <2>2, <2>3, <3>1, <3>3, Zenon
    <3> QED
      BY <3>2, <3>3
  <2>5. ASSUME response \in {"held", "body_held"}, DOMAIN deferred_tasks \cap in_flight = {}
        PROVE  ResponseAbandoned
    <3>1. DOMAIN deferred_tasks = {}
      BY <2>1, <2>5, Zenon
    <3>2. task_queue # <<>> /\ (barrier > 0 \/ (response_ended /\ end_of_stream))
      BY <2>5, <3>1 DEF HInv, HeldFor, IsCompleted
    <3>3. ~terminated
      BY <2>1, <3>2 DEF IInv, Inert
    <3>4. response_ended /\ end_of_stream
      BY <2>2, <2>3, <3>1, <3>2, <3>3
    <3>5. 1 \in DOMAIN task_queue
      BY <2>1, <3>2 DEF TypeOK, PipelineTypeOK
    <3> QED
      BY <2>5, <3>1, <3>2, <3>3, <3>4, <3>5, DeadDependency, Zenon DEF ResponseAbandoned, IsStuck
  <2> QED
    BY <2>4, <2>5, Zenon DEF HeldIsAwaited
<1> QED
  BY <1>1, <1>2, NextHInv, PTL DEF Spec
=============================================================================
