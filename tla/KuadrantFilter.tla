--------------------------- MODULE KuadrantFilter ---------------------------
(***************************************************************************)
(* The HTTP context of one stream (src/src/filter/kuadrant_filter.rs) with *)
(* its pipeline, and Envoy as the host that calls it back: requests and    *)
(* responses that are held while a callback returned Pause, gRPC calls     *)
(* answered in any order or timed out, local replies, which start the      *)
(* response phase instead of the upstream, and streams that are reset.     *)
(***************************************************************************)
EXTENDS Pipeline

CONSTANTS
    HostTimeouts,       \* may Envoy answer a request that the filter holds?
    MaxRequestChunks,   \* bounds on the number of body callbacks
    MaxResponseChunks

ASSUME BoundsAssumption ==
    /\ HostTimeouts \in BOOLEAN /\ HostMayReject \in BOOLEAN
    /\ MaxRequestChunks \in Nat /\ MaxResponseChunks \in Nat

VARIABLES
    pipeline,          \* self.pipeline.is_some(), between callbacks
    force_resume,
    callback,          \* the callback that is running
    \* the host's view of the stream
    request,           \* "new", "held", "passed", "body_held" or "replied"
    response,          \* "none", "held", "passed", "body_held", "done" or "reset"
    response_ended,    \* end_of_stream was delivered
    request_chunks, response_chunks

filterVars == <<pipeline, force_resume, callback>>
streamVars == <<request, response, response_ended, request_chunks, response_chunks>>
vars == <<pipelineVars, filterVars, streamVars>>

Init ==
    /\ blueprint = NoBlueprint
    /\ task_queue = <<>> /\ tasks_to_process = <<>>
    /\ deferred_tasks = <<>>
    /\ completed_tasks = {} /\ failed_tasks = {} /\ body_values = {}
    /\ teardown_tasks = FALSE /\ terminated = FALSE
    /\ barrier = 0
    /\ end_of_stream = FALSE /\ in_response_phase = FALSE
    /\ reply = NoReply /\ step = "idle"
    /\ next_token = 0 /\ in_flight = {} /\ replies = 0
    /\ metrics = [m \in Metric |-> 0]
    /\ pipeline = FALSE /\ force_resume = FALSE /\ callback = "none"
    /\ request = "new" /\ response = "none" /\ response_ended = FALSE
    /\ request_chunks = 0 /\ response_chunks = 0

Idle == step = "idle" /\ response \notin {"done", "reset"}

ShouldPause(some) == some /\ barrier > 0

\* Mutants: the barrier is not looked at; a pipeline in progress never resumes.
ShouldResumeAlways == TRUE
ShouldResumeNever == FALSE

ShouldResume ==
    IF terminated /\ in_response_phase THEN ~ShouldPause(TRUE)
    ELSE ~terminated /\ ~ShouldPause(TRUE)

-----------------------------------------------------------------------------
(* What the host does with the stream when a callback has returned.        *)

\* A local reply ends the request, whatever the callback returned.
RequestAfter(pause, held) ==
    IF replies > 0 THEN "replied" ELSE IF pause THEN held ELSE "passed"

ResponsePassed == IF response_ended THEN "done" ELSE "passed"

Resumed(side, passed) == IF side \in {"held", "body_held"} THEN passed ELSE side

-----------------------------------------------------------------------------
(* on_http_request_headers                                                 *)

OnHttpRequestHeaders ==
    /\ Idle /\ request = "new"
    /\ \E b \in Blueprints :
          /\ ToTasks(b) # <<>>
          /\ blueprint' = b
          /\ teardown_tasks' = HasTeardown(b)
          /\ StartEval(ToTasks(b))
    /\ metrics' = Count(metrics, {"hits"})
    /\ callback' = "request_headers"
    /\ UNCHANGED <<deferred_tasks, completed_tasks, terminated, barrier, end_of_stream,
                   in_response_phase, body_values, next_token, in_flight, replies, failed_tasks,
                   pipeline, force_resume, streamVars>>

\* factory.build found no action set, or one without tasks.
OnHttpRequestHeadersMiss ==
    /\ Idle /\ request = "new"
    /\ metrics' = Count(metrics, {"misses"})
    /\ request' = "passed"
    /\ UNCHANGED <<context, next_token, in_flight, replies, task_queue, deferred_tasks,
                   completed_tasks, teardown_tasks, terminated, barrier, tasks_to_process, reply,
                   step, failed_tasks, filterVars, response, response_ended, request_chunks,
                   response_chunks>>

\* factory.build failed: a 500 is sent (and the VM panics if it cannot be).
OnHttpRequestHeadersError ==
    /\ Idle /\ request = "new"
    /\ metrics' = Count(metrics, {"errors"})
    /\ replies' = replies + 1
    /\ request' = "replied"
    /\ UNCHANGED <<context, next_token, in_flight, task_queue, deferred_tasks, completed_tasks,
                   teardown_tasks, terminated, barrier, tasks_to_process, reply, step,
                   failed_tasks, filterVars, response, response_ended, request_chunks,
                   response_chunks>>

-----------------------------------------------------------------------------
(* The other callbacks: eval, or digest, of the pipeline if there is one.  *)

Begin(name, some) ==
    /\ callback' = name
    /\ StartEval(IF some THEN task_queue ELSE <<>>)
    /\ UNCHANGED <<blueprint, body_values, deferred_tasks, completed_tasks, teardown_tasks,
                   terminated, barrier, next_token, in_flight, replies, failed_tasks, pipeline,
                   force_resume>>

OnHttpRequestBody ==
    /\ Idle /\ request \in {"passed", "body_held"} /\ ~in_response_phase
    /\ request_chunks < MaxRequestChunks
    /\ request_chunks' = request_chunks + 1
    /\ Begin("request_body", pipeline)
    /\ UNCHANGED <<end_of_stream, in_response_phase, metrics, request, response, response_ended,
                   response_chunks>>

OnHttpResponseHeaders(eos) ==
    /\ Idle /\ response = "none"
    /\ request \in {"passed", "body_held", "replied"} \/ (request = "held" /\ HostTimeouts)
    /\ metrics' = Count(metrics, {"allowed"})
    /\ in_response_phase' = TRUE
    /\ response_ended' = eos
    /\ Begin("response_headers", pipeline)
    /\ UNCHANGED <<end_of_stream, request, response, request_chunks, response_chunks>>

OnHttpResponseBody(eos) ==
    /\ Idle /\ response \in {"passed", "body_held"} /\ ~response_ended
    /\ eos \/ response_chunks < MaxResponseChunks
    /\ response_chunks' = response_chunks + 1
    /\ response_ended' = eos
    /\ end_of_stream' = IF pipeline THEN eos ELSE end_of_stream
    /\ Begin("response_body", pipeline)
    /\ UNCHANGED <<in_response_phase, metrics, request, response, request_chunks>>

\* digest removes the pending task; an unknown token only logs an error.
OnGrpcCallResponse(t, ok) ==
    /\ Idle /\ t \in in_flight /\ pipeline
    /\ callback' = "grpc_call_response"
    /\ in_flight' = in_flight \ {t}
    /\ IF t \in DOMAIN deferred_tasks
       THEN /\ reply' = [NoReply EXCEPT !.pending = deferred_tasks[t], !.ok = ok]
            /\ deferred_tasks' = [u \in DOMAIN deferred_tasks \ {t} |-> deferred_tasks[u]]
            /\ step' = "reply"
            /\ UNCHANGED <<task_queue, tasks_to_process>>
       ELSE /\ StartEval(task_queue)
            /\ UNCHANGED deferred_tasks
    /\ UNCHANGED <<context, next_token, replies, metrics, completed_tasks, teardown_tasks,
                   terminated, barrier, failed_tasks, pipeline, force_resume, streamVars>>

\* A response without a pipeline is only logged.
OnGrpcCallResponseLate(t) ==
    /\ Idle /\ t \in in_flight /\ ~pipeline
    /\ in_flight' = in_flight \ {t}
    /\ UNCHANGED <<context, next_token, replies, metrics, task_queue, deferred_tasks,
                   completed_tasks, teardown_tasks, terminated, barrier, tasks_to_process, reply,
                   step, failed_tasks, filterVars, streamVars>>

-----------------------------------------------------------------------------
(* The end of a callback.  A callback that found no pipeline leaves none.  *)

HasPipeline == callback = "request_headers" \/ pipeline

ReturnRequest(exported) ==
    /\ callback \in {"request_headers", "request_body"}
    /\ EvalEnd(exported)
    /\ pipeline' = (HasPipeline /\ ~IsCompleted(deferred_tasks'))
    /\ request' = RequestAfter(ShouldPause(pipeline'),
                               IF callback = "request_headers" THEN "held" ELSE "body_held")
    /\ callback' = "none"
    /\ UNCHANGED <<force_resume, response, response_ended, request_chunks, response_chunks>>

ReturnResponseHeaders(exported) ==
    /\ callback = "response_headers"
    /\ EvalEnd(exported)
    /\ pipeline' = (HasPipeline /\ ~IsCompleted(deferred_tasks'))
    /\ response' = IF ShouldPause(pipeline') THEN "held" ELSE ResponsePassed
    /\ callback' = "none"
    /\ UNCHANGED <<force_resume, request, response_ended, request_chunks, response_chunks>>

\* At the end of the stream a pipeline that is not done holds the response.
ReturnResponseBody(exported) ==
    /\ callback = "response_body"
    /\ EvalEnd(exported)
    /\ pipeline' = (HasPipeline /\ ~IsCompleted(deferred_tasks'))
    /\ LET hold == ~ShouldPause(pipeline') /\ pipeline' /\ response_ended
       IN  /\ force_resume' = (force_resume \/ hold)
           /\ response' = IF hold \/ ShouldPause(pipeline') THEN "body_held" ELSE ResponsePassed
    /\ callback' = "none"
    /\ UNCHANGED <<request, response_ended, request_chunks, response_chunks>>

ReturnGrpcCallResponse(exported) ==
    /\ callback = "grpc_call_response"
    /\ EvalEnd(exported)
    /\ pipeline' = ~IsCompleted(deferred_tasks')
    /\ LET resume == IF pipeline' THEN ShouldResume
                     ELSE ~terminated \/ force_resume \/ in_response_phase
       IN  /\ response' = IF resume /\ in_response_phase
                          THEN Resumed(response, ResponsePassed) ELSE response
           /\ request' = CASE in_response_phase -> request
                           [] replies > 0       -> "replied"
                           [] resume            -> Resumed(request, "passed")
                           [] OTHER             -> request
    /\ callback' = "none"
    /\ UNCHANGED <<force_resume, response_ended, request_chunks, response_chunks>>

\* Envoy deletes the stream before its response has passed: the client or the
\* upstream resets it, or the response ends with trailers, for which the filter
\* has no callback.  The filter is dropped with the pipeline it has; pipeline
\* and teardown_tasks stay as they were and show what is lost.
StreamReset ==
    /\ Idle /\ request # "new"
    /\ response' = "reset"
    /\ UNCHANGED <<pipelineVars, filterVars, request, response_ended, request_chunks,
                   response_chunks>>

\* The stream is over and its context is deleted.
Finished == response \in {"done", "reset"} /\ UNCHANGED vars

Step == (DigestReply \/ EvalTask) /\ UNCHANGED <<filterVars, streamVars>>

Return ==
    \E exported \in BOOLEAN :
        \/ ReturnRequest(exported)
        \/ ReturnResponseHeaders(exported)
        \/ ReturnResponseBody(exported)
        \/ ReturnGrpcCallResponse(exported)

HttpCallback ==
    \/ OnHttpRequestHeaders \/ OnHttpRequestHeadersMiss \/ OnHttpRequestHeadersError
    \/ OnHttpRequestBody
    \/ \E eos \in BOOLEAN : OnHttpResponseHeaders(eos) \/ OnHttpResponseBody(eos)

GrpcCallback ==
    \E t \in in_flight :
        \/ \E ok \in BOOLEAN : OnGrpcCallResponse(t, ok)
        \/ OnGrpcCallResponseLate(t)

Next == Step \/ Return \/ HttpCallback \/ GrpcCallback \/ StreamReset \/ Finished

Spec == Init /\ [][Next]_vars

-----------------------------------------------------------------------------
(* Properties.                                                             *)

\* Every variable holds a value of its type in the code.
TypeOK ==
    /\ PipelineTypeOK
    /\ blueprint \in Blueprints \cup {NoBlueprint}
    /\ pipeline \in BOOLEAN /\ force_resume \in BOOLEAN
    /\ callback \in {"none", "request_headers", "request_body", "response_headers",
                     "response_body", "grpc_call_response"}
    /\ request \in {"new", "held", "passed", "body_held", "replied"}
    /\ response \in {"none", "held", "passed", "body_held", "done", "reset"}
    /\ response_ended \in BOOLEAN
    /\ request_chunks \in Nat /\ response_chunks \in Nat

\* Calls whose response processor will lower the barrier.
GuardCalls == {t \in DOMAIN deferred_tasks : deferred_tasks[t].guard}

Owed == Cardinality(GuardCalls) + IF step = "reply" /\ reply.pending.guard THEN 1 ELSE 0

\* Barrier::lower never finds the count at 0 (its error log is dead code), and
\* until a pipeline is terminated the count is exactly the number of guard
\* calls that wait for an answer, in every order of dispatches, answers and
\* nested calls.
BarrierBalanced ==
    /\ barrier >= Owed
    /\ ~terminated => barrier = Owed

\* A request is let through to the upstream, by a Continue or a resume, only
\* when no guard call is waiting for its answer.
GuardedForward ==
    [][request # "passed" /\ request' = "passed" => GuardCalls' = {}]_vars

GrpcIds == {id \in Ids(blueprint) : blueprint.actions[id].op = "grpc"}

\* The gRPC guards that nothing but other such guards comes before.
LeadingGuards ==
    {i \in 1..Len(OnReply(blueprint, <<>>)) :
        \A j \in 1..i : LET a == blueprint.actions[<<j>>]
                        IN  a.op = "grpc" /\ a.guard /\ a.pred = "ready" /\ a.expr = "ready"}

\* When the upstream sees a request, every guard that leads the action set has
\* been decided: its service let the request pass or its failure mode did.
\* Otherwise the pipeline was terminated.
LeadingGuardsDecided ==
    request \in {"passed", "body_held"} /\ ~terminated
        => \A i \in LeadingGuards : <<i>> \in completed_tasks

\* Where the executor has the gRPC action id.
Places(id) ==
         ({"task_queue"} \X Occurrences(task_queue, id))
    \cup ({"tasks_to_process"} \X Occurrences(tasks_to_process, id))
    \cup ({"reply_tasks"} \X Occurrences(reply.tasks, id))
    \cup ({"deferred_tasks"} \X {t \in DOMAIN deferred_tasks : deferred_tasks[t].id = id})
    \cup ({"digest"} \X (Answered \cap {id}))
    \cup ({"completed_tasks"} \X (completed_tasks \cap {id}))
    \cup ({"failed_tasks"} \X (failed_tasks \cap {id}))

\* Until the pipeline is terminated every action of the set is in one place:
\* waiting in a queue, called, completed or failed.  eval and digest neither
\* lose an action nor run one twice, and onReply actions run at most once.
ActionsConserved ==
    ~terminated =>
        \A id \in GrpcIds : /\ \A p, q \in Places(id) : p = q
                            /\ Len(id) = 1 => Places(id) # {}

\* Two actions of one list, a set or an onReply, never wait for an answer at
\* the same time: each depends on the one before it.
ListsAreSequential ==
    \A t, u \in DOMAIN deferred_tasks :
        LET p == deferred_tasks[t]
            q == deferred_tasks[u]
        IN  t # u /\ ~p.noop /\ ~q.noop => List(p.id) # List(q.id)

\* Once the pipeline is terminated, late answers are consumed without effect:
\* no reply is sent, nothing is dispatched and no task is queued.
TerminationIsFinal ==
    [][terminated => /\ UNCHANGED <<terminated, replies, next_token, body_values, failed_tasks>>
                     /\ task_queue' = <<>> /\ tasks_to_process' = <<>>]_vars

\* The filter sets self.pipeline to None only after the teardown.  It is a
\* claim about the filter: the host deletes streams whose pipeline is still in
\* progress, and then its trace export is not made (StreamReset, and responses
\* that are done while calls or tasks are left: one without a body, or one that
\* the answer to an earlier call resumed).
TeardownBeforeDrop == step = "idle" /\ ~pipeline => ~teardown_tasks

\* A dependency that will not be completed: it failed, or it has no task, as an
\* onReply action that was skipped.
IsDead(id) == id \in failed_tasks \/ Places(id) = {}

\* A task whose own predicate waits for data.
IsWaiting(t) == t.kind # "grpc" /\ ~t.concrete /\ IsPending(ActionOf(t).pred, t.id)

\* A task left in the queue that nothing will take out of it: it comes after a
\* dead dependency, or its predicate waits for data that the filter will not
\* see any more.
IsStuck(t) == IsWaiting(t) \/ \E d \in TaskDependencies(t) : IsDead(d)

\* A pipeline that was terminated although the client got no reply: the host
\* refused the one it was sent, or what ended the pipeline is a terminal gRPC
\* action of an onReply, whose call digest makes and forgets.
Unanswered ==
    /\ terminated /\ replies = 0
    /\ \/ metrics["denied"] > 0
       \/ \E id \in GrpcIds : Len(id) > 1 /\ blueprint.actions[id].terminal

\* The ways a stream is held with nobody to resume it.
RequestAbandoned == request \in {"held", "body_held"} /\ ~in_response_phase /\ Unanswered

ResponseAbandoned ==
    /\ response \in {"held", "body_held"} /\ response_ended
    /\ \E i \in DOMAIN task_queue : IsStuck(task_queue[i])

\* A stream that is held has someone to resume it: a held request waits for a
\* guard, and a held response for any call of the pipeline.  There are two
\* ways to be held for ever: the request of a pipeline that was terminated
\* without a reply (handle_pipeline_result has no more than should_resume to
\* let it go), and a response that has ended with a stuck task in the queue.
HeldIsAwaited ==
    step = "idle" =>
        /\ request \in {"held", "body_held"} /\ ~in_response_phase
              => GuardCalls \cap in_flight # {} \/ RequestAbandoned
        /\ response \in {"held", "body_held"}
              => DOMAIN deferred_tasks \cap in_flight # {} \/ ResponseAbandoned

-----------------------------------------------------------------------------
(* Liveness.  Envoy answers every gRPC call, with a timeout if need be, and *)
(* goes on with a stream that is not held; a callback that runs returns.   *)
(* Nothing counts on a held request being timed out, on an upstream that   *)
(* responds before it has the body, or on a reset.                         *)

NotHeld == request \notin {"held", "body_held"} \/ in_response_phase

Fairness ==
    /\ WF_vars(Step) /\ WF_vars(Return)
    /\ WF_vars(NotHeld /\ HttpCallback)
    /\ WF_vars(GrpcCallback)

FairSpec == Spec /\ Fairness

\* Every request gets its whole response, if its stream is not reset: the
\* filter resumes what it holds.
StreamEnds == <>(response \in {"done", "reset"})

\* Whatever the action set, a stream that does not end is held for ever in one
\* of the two ways of HeldIsAwaited, and in no other: no answer is waited for
\* twice, no resume is missed.
StreamSettles ==
    <>[](\/ response \in {"done", "reset"}
         \/ step = "idle" /\ (RequestAbandoned \/ ResponseAbandoned))

-----------------------------------------------------------------------------
(* What the repository says of the filter, where the code disagrees.       *)

\* configuration.rs: a service's failure mode allows or denies the request on
\* an irrecoverable failure; no failure of a call is just dropped.
FailureModeHonoured == failed_tasks = {}

\* README: kuadrant.allowed counts requests allowed after evaluation.
AllowedMeansAllowed == metrics["allowed"] > 0 => metrics["hits"] > 0 /\ replies = 0
=============================================================================
