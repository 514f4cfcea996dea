-------------------------- MODULE PipelineProofs --------------------------
(***************************************************************************)
(* Lemmas about the tasks and the executor: the types of what they produce *)
(* and the guard calls that their operations leave in deferred_tasks; and  *)
(* where the executor keeps the actions of a set: what a step does with    *)
(* the tasks of a pipeline, that each of these moves keeps every action in *)
(* one place, and that none of them loses an action.                       *)
(***************************************************************************)
EXTENDS Pipeline, WellFoundedInduction, TLAPS

-----------------------------------------------------------------------------
(* Induction over numbers, and over the actions of a set.                  *)

\* A set of numbers has a least element.
LEMMA LeastNat ==
  ASSUME NEW T \in SUBSET Nat, T # {}
  PROVE  \E x \in T : \A y \in T : x <= y
<1> DEFINE R == OpToRel(<, Nat)
<1>1. \E x \in T : \A y \in T : ~(<<y, x>> \in R)
  BY NatLessThanWellFounded, WFMin, Zenon
<1>2. \A x, y \in Nat : y < x => <<y, x>> \in R
  BY Zenon DEF OpToRel
<1> HIDE DEF R
<1>3. PICK x \in T : \A y \in T : ~(<<y, x>> \in R)
  BY <1>1, Zenon
<1>4. \A y \in T : ~(y < x)
  BY <1>2, <1>3, Zenon
<1> QED
  BY <1>3, <1>4

\* Induction, for what can be said with a set.
LEMMA SetInduction ==
  ASSUME NEW S, 0 \in S, \A n \in Nat : n \in S => n + 1 \in S
  PROVE  Nat \subseteq S
<1> SUFFICES ASSUME Nat \ S # {} PROVE FALSE
  BY Zenon
<1>1. PICK x \in Nat \ S : \A y \in Nat \ S : x <= y
  BY LeastNat, Zenon
<1>2. x # 0
  BY Zenon
<1>3. x - 1 \in Nat /\ x - 1 \in S
  BY <1>1, <1>2
<1> QED
  BY <1>3

\* F holds what concatenating the sequences t[1], t[2], ... gives, up to n.
Concatenated(t, F, n) == F = [i \in 0..n |-> IF i = 0 THEN <<>> ELSE F[i - 1] \o t[i]]

\* The recursive definition of FirstTasks defines a function.
LEMMA FirstTasksSteps ==
  ASSUME NEW b, Len(OnReply(b, <<>>)) \in Nat
  PROVE  LET N == Len(OnReply(b, <<>>))
             F == FirstTasks(b)
         IN  F[0] = <<>> /\ \A i \in 1..N : F[i] = F[i - 1] \o TasksOf(b, <<i>>)
<1> DEFINE N == Len(OnReply(b, <<>>))
           t == [i \in Nat |-> TasksOf(b, <<i>>)]
           S == {n \in Nat : \E F : Concatenated(t, F, n)}
<1>1. 0 \in S
  <2>1. Concatenated(t, [i \in 0..0 |-> <<>>], 0)
    BY DEF Concatenated
  <2> QED
    BY <2>1, Zenon
<1>2. ASSUME NEW n \in Nat, n \in S PROVE n + 1 \in S
  <2>1. PICK F : Concatenated(t, F, n)
    BY <1>2, Zenon
  <2> DEFINE last == F[n] \o t[n + 1]
             G == [i \in 0..(n + 1) |-> IF i = n + 1 THEN last ELSE F[i]]
  <2> HIDE DEF t, last
  <2>2. ASSUME NEW i \in 0..(n + 1) PROVE G[i] = IF i = 0 THEN <<>> ELSE G[i - 1] \o t[i]
    <3>1. CASE i = n + 1
      <4>1. G[i] = last /\ G[i - 1] = F[n] /\ i # 0
        BY <3>1
      <4> QED
        BY <3>1, <4>1, Zenon DEF last
    <3>2. CASE i # n + 1
      <4>1. i \in 0..n /\ G[i] = F[i]
        BY <3>2
      <4>2. F[i] = IF i = 0 THEN <<>> ELSE F[i - 1] \o t[i]
        BY <2>1, <4>1, Zenon DEF Concatenated
      <4>3. i # 0 => G[i - 1] = F[i - 1]
        BY <4>1
      <4> QED
        BY <4>1, <4>2, <4>3, Zenon
    <3> QED
      BY <3>1, <3>2, Zenon
  <2>3. G = [i \in 0..(n + 1) |-> G[i]]
    BY Zenon
  <2> HIDE DEF G
  <2>4. Concatenated(t, G, n + 1)
    BY <2>2, <2>3, Zenon DEF Concatenated
  <2> QED
    BY <2>4
<1> DEFINE Eq(f) == f = [n \in 0..N |-> IF n = 0 THEN <<>> ELSE f[n - 1] \o TasksOf(b, <<n>>)]
           F == CHOOSE f : Eq(f)
<1>3. PICK G : Concatenated(t, G, N)
  <2> HIDE DEF S
  <2>1. Nat \subseteq S
    BY <1>1, <1>2, SetInduction, Zenon
  <2> QED
    BY <2>1, Zenon DEF S
<1>4. Eq(G)
  <2>1. \A i \in 0..N : i # 0 => t[i] = TasksOf(b, <<i>>)
    OBVIOUS
  <2> HIDE DEF t
  <2> QED
    BY <1>3, <2>1, Zenon DEF Concatenated
<1>5. Eq(F)
  BY <1>4, Zenon
<1>6. FirstTasks(b) = F
  BY Zenon DEF FirstTasks
<1> HIDE DEF F, N
<1>7. N \in Nat
  BY Zenon DEF N
<1>8. \A i \in 0..N : F[i] = IF i = 0 THEN <<>> ELSE F[i - 1] \o TasksOf(b, <<i>>)
  BY <1>5, Zenon
<1>9. 0 \in 0..N /\ \A i \in 1..N : i \in 0..N /\ i # 0
  BY <1>7
<1> QED
  BY <1>6, <1>8, <1>9, Zenon DEF N
-----------------------------------------------------------------------------
(* Where a list of tasks has an action.                                    *)

\* The task t calls the action id; the list s has it, at most once, and has the
\* action d nowhere but before it.
IsCall(t, id) == t.kind = "grpc" /\ t.id = id
Has(s, id) == Occurrences(s, id) # {}
Once(s, id) == \A i, j \in Occurrences(s, id) : i = j
Before(s, d, id) == \A i \in Occurrences(s, d), j \in Occurrences(s, id) : i < j

\* No action is in an empty list.
LEMMA InNone == \A id : Occurrences(<<>>, id) = {}
  BY DEF Occurrences

\* A task pushed to the back of a queue.
LEMMA InAppend ==
  ASSUME NEW T, NEW s \in Seq(T), NEW t \in T, NEW id
  PROVE  /\ Has(Append(s, t), id) <=> Has(s, id) \/ IsCall(t, id)
         /\ Once(s, id) /\ ~(Has(s, id) /\ IsCall(t, id)) => Once(Append(s, t), id)
         /\ \A d : Before(s, d, id) /\ ~(IsCall(t, d) /\ (Has(s, id) \/ IsCall(t, id)))
                      => Before(Append(s, t), d, id)
<1>1. /\ DOMAIN Append(s, t) = 1..(Len(s) + 1) /\ DOMAIN s = 1..Len(s) /\ Len(s) \in Nat
      /\ \A i \in 1..Len(s) : Append(s, t)[i] = s[i]
      /\ Append(s, t)[Len(s) + 1] = t
  OBVIOUS
<1>2. \A k, i : i \in Occurrences(Append(s, t), k)
                  <=> i \in Occurrences(s, k) \/ (i = Len(s) + 1 /\ IsCall(t, k))
  BY <1>1 DEF Occurrences, IsCall
<1>3. \A k : \A i \in Occurrences(s, k) : i \in 1..Len(s)
  BY <1>1, Zenon DEF Occurrences
<1> QED
  BY <1>1, <1>2, <1>3 DEF Has, Once, Before

\* A task taken from the front of a queue.
LEMMA InTail ==
  ASSUME NEW T, NEW s \in Seq(T), s # <<>>, NEW id
  PROVE  /\ Has(s, id) <=> Has(Tail(s), id) \/ IsCall(Head(s), id)
         /\ Once(s, id) => Once(Tail(s), id) /\ ~(Has(Tail(s), id) /\ IsCall(Head(s), id))
         /\ \A d : Before(s, d, id) => /\ Before(Tail(s), d, id)
                                       /\ IsCall(Head(s), id) => ~Has(s, d)
<1>1. /\ DOMAIN s = 1..Len(s) /\ Len(s) \in Nat \ {0}
      /\ DOMAIN Tail(s) = 1..(Len(s) - 1)
      /\ \A i \in 1..(Len(s) - 1) : Tail(s)[i] = s[i + 1]
      /\ Head(s) = s[1]
  OBVIOUS
<1>2. \A k : \A i \in 1..(Len(s) - 1) : i \in Occurrences(Tail(s), k) <=> i + 1 \in Occurrences(s, k)
  BY <1>1 DEF Occurrences
<1>3. \A k : /\ Occurrences(s, k) \subseteq 1..Len(s)
             /\ Occurrences(Tail(s), k) \subseteq 1..(Len(s) - 1)
             /\ 1 \in Occurrences(s, k) <=> IsCall(Head(s), k)
  BY <1>1 DEF Occurrences, IsCall
<1>4. \A k : \A i \in Occurrences(s, k) : i = 1 \/ i - 1 \in 1..(Len(s) - 1)
  BY <1>1, <1>3
<1>5. \A k : Has(s, k) <=> Has(Tail(s), k) \/ IsCall(Head(s), k)
  BY <1>1, <1>2, <1>3, <1>4 DEF Has
<1>6. Once(s, id) => Once(Tail(s), id) /\ ~(Has(Tail(s), id) /\ IsCall(Head(s), id))
  BY <1>1, <1>2, <1>3 DEF Has, Once
<1>7. ASSUME NEW d, Before(s, d, id)
      PROVE  Before(Tail(s), d, id) /\ (IsCall(Head(s), id) => ~Has(s, d))
  BY <1>1, <1>2, <1>3, <1>7 DEF Has, Before
<1> QED
  BY <1>5, <1>6, <1>7, Zenon

\* A queue put behind another one.
LEMMA InConcat ==
  ASSUME NEW T, NEW s \in Seq(T), NEW u \in Seq(T), NEW id
  PROVE  /\ Has(s \o u, id) <=> Has(s, id) \/ Has(u, id)
         /\ Once(s, id) /\ Once(u, id) /\ ~(Has(s, id) /\ Has(u, id)) => Once(s \o u, id)
         /\ \A d : Before(s, d, id) /\ Before(u, d, id) /\ ~(Has(s, id) /\ Has(u, d))
                      => Before(s \o u, d, id)
<1> DEFINE n == Len(s)
           m == Len(u)
<1>1. /\ DOMAIN s = 1..n /\ DOMAIN u = 1..m /\ n \in Nat /\ m \in Nat
      /\ DOMAIN (s \o u) = 1..(n + m)
      /\ \A i \in 1..n : (s \o u)[i] = s[i]
      /\ \A i \in 1..m : (s \o u)[n + i] = u[i]
  OBVIOUS
<1> HIDE DEF n, m
<1>2. \A k : /\ Occurrences(s, k) \subseteq 1..n /\ Occurrences(u, k) \subseteq 1..m
             /\ Occurrences(s \o u, k) \subseteq 1..(n + m)
  BY <1>1, Zenon DEF Occurrences
<1>3. \A k : /\ \A i \in 1..n : i \in Occurrences(s \o u, k) <=> i \in Occurrences(s, k)
             /\ \A i \in 1..m : n + i \in Occurrences(s \o u, k) <=> i \in Occurrences(u, k)
  BY <1>1 DEF Occurrences
<1>4. \A i \in 1..(n + m) : i \in 1..n \/ (i - n \in 1..m /\ i = n + (i - n))
  BY <1>1
<1>5. \A k : \A i \in Occurrences(s \o u, k) :
                i \in Occurrences(s, k) \/ (i - n \in Occurrences(u, k) /\ i - n \in 1..m)
  BY <1>2, <1>3, <1>4, Zenon
<1>6. Has(s \o u, id) <=> Has(s, id) \/ Has(u, id)
  BY <1>2, <1>3, <1>5, Zenon DEF Has
<1>7. Once(s, id) /\ Once(u, id) /\ ~(Has(s, id) /\ Has(u, id)) => Once(s \o u, id)
  BY <1>1, <1>2, <1>5 DEF Has, Once
<1>8. \A d : Before(s, d, id) /\ Before(u, d, id) /\ ~(Has(s, id) /\ Has(u, d))
                      => Before(s \o u, d, id)
  BY <1>1, <1>2, <1>5 DEF Has, Before
<1> QED
  BY <1>6, <1>7, <1>8, Zenon

\* Lists of the same calls have every action at the same places.
LEMMA InSame ==
  ASSUME NEW T, NEW s \in Seq(T), NEW u \in Seq(T), Len(s) = Len(u),
         \A i \in 1..Len(s) : s[i].kind = u[i].kind /\ s[i].id = u[i].id
  PROVE  \A id : Occurrences(s, id) = Occurrences(u, id)
  BY DEF Occurrences
-----------------------------------------------------------------------------
(* Types.                                                                  *)

\* Outcomes of tasks of the current blueprint.
OutcomeType ==
    [tag    : {"Done", "Deferred", "Failed", "Requeued", "Terminate"},
     tasks  : Seq(Task(blueprint)),
     denied : BOOLEAN,
     sent   : BOOLEAN,
     values : SUBSET Seq(Nat)]

\* A task that is made from an action of the blueprint, or that is not a gRPC
\* call, is a task of the blueprint.
LEMMA MakeTaskType ==
  ASSUME NEW b, NEW kind \in TaskKind, NEW id \in Seq(Nat), kind = "grpc" => id \in Ids(b)
  PROVE  MakeTask(kind, id) \in Task(b)
  BY Zenon DEF MakeTask, Task, FailureMode

\* The reply a failure mode sends is a task.
LEMMA SendReplyDefaultType == \A b : SendReplyDefault \in Task(b)
<1> TAKE b
<1>1. <<>> \in Seq(Nat) /\ "deny" \in TaskKind
  BY DEF TaskKind
<1>2. MakeTask("deny", <<>>) \in Task(b)
  BY <1>1, MakeTaskType, Zenon
<1> QED
  BY <1>2, Zenon DEF SendReplyDefault, Task

\* The outcomes that tasks return.
LEMMA OutcomeTypes ==
  /\ Done \in OutcomeType /\ Deferred \in OutcomeType /\ Failed \in OutcomeType
  /\ \A s \in Seq(Task(blueprint)) : Requeued(s) \in OutcomeType /\ Terminate(s) \in OutcomeType
  BY DEF Done, Deferred, Failed, Requeued, Terminate, Outcome, OutcomeType

\* What a task that is not a gRPC call stands for: the fields of the response
\* body that an action of the set reads, the header identifier, or an action of
\* the set; the ones that replies bring have their values already.
LocalTask(b, t) ==
    /\ t.kind = "token_usage" => t.id \in Ids(b) /\ Len(t.id) = 1 /\ b.actions[t.id].op = "grpc"
    /\ t.kind = "tracker" => t.concrete
    /\ t.kind \notin {"grpc", "token_usage"} /\ ~t.concrete
          => t.id \in Ids(b) /\ Len(t.id) = 1 /\ b.actions[t.id].op = t.kind

\* The tasks of the first n actions of a set: its gRPC actions, once each and
\* in the order of the set, under their failure modes.
Listed(b, s, n) ==
    /\ s \in Seq(Task(b))
    /\ \A i \in DOMAIN s :
          /\ LocalTask(b, s[i])
          /\ s[i].kind = "grpc" => /\ s[i].failure_mode # "none"
                                  /\ \E k \in 1..n : s[i].id = <<k>> /\ b.actions[<<k>>].op = "grpc"
    /\ \A k \in 1..n : b.actions[<<k>>].op = "grpc" => Has(s, <<k>>)
    /\ \A k \in Nat : Once(s, <<k>>) /\ Before(s, <<k>>, <<k + 1>>)

\* The list that a reply runs, and the set itself, are numbered from 1.
LEMMA OnReplyFacts ==
  ASSUME NEW b, WellFormed(b), NEW id \in Ids(b) \cup {<<>>}
  PROVE  /\ OnReply(b, id) \in Seq(Ids(b))
         /\ \A k \in 1..Len(OnReply(b, id)) :
                OnReply(b, id)[k] = id \o <<k>> /\ id \o <<k>> \in Ids(b)
<1>1. OnReply(b, id) \in Seq(Ids(b))
  BY Zenon DEF WellFormed
<1>2. \A k \in DOMAIN OnReply(b, id) : OnReply(b, id)[k] = id \o <<k>>
  BY Zenon DEF OnReply
<1>3. DOMAIN OnReply(b, id) = 1..Len(OnReply(b, id))
  BY <1>1
<1>4. \A k \in DOMAIN OnReply(b, id) : OnReply(b, id)[k] \in Ids(b)
  BY <1>1
<1> QED
  BY <1>1, <1>2, <1>3, <1>4, Zenon

\* The tasks of one action.
LEMMA TasksOfListed ==
  ASSUME NEW b, WellFormed(b), NEW k \in 1..Len(OnReply(b, <<>>))
  PROVE  /\ TasksOf(b, <<k>>) \in Seq(Task(b)) /\ <<k>> \in Ids(b)
         /\ \A i \in DOMAIN TasksOf(b, <<k>>) :
                LET t == TasksOf(b, <<k>>)[i]
                IN  /\ LocalTask(b, t)
                    /\ t.kind = "grpc" => /\ t.failure_mode # "none" /\ t.id = <<k>>
                                          /\ b.actions[<<k>>].op = "grpc"
         /\ b.actions[<<k>>].op = "grpc" => Has(TasksOf(b, <<k>>), <<k>>)
         /\ \A id : Once(TasksOf(b, <<k>>), id)
<1> DEFINE id == <<k>>
           a == b.actions[id]
           call == [MakeTask("grpc", id) EXCEPT !.failure_mode = a.mode,
                                                !.traced = (b.tracing = "export")]
<1>1. id \in Ids(b) /\ id \in Seq(Nat) /\ Len(id) = 1 /\ a \in Action
  <2>1. <<>> \o <<k>> \in Ids(b)
    BY OnReplyFacts, Zenon
  <2>2. <<>> \o <<k>> = id /\ id \in Seq(Nat) /\ Len(id) = 1
    OBVIOUS
  <2>3. id \in Ids(b)
    BY <2>1, <2>2, Zenon
  <2> QED
    BY <2>2, <2>3, Zenon DEF WellFormed
<1> HIDE DEF id
<1>2. ASSUME NEW kind \in TaskKind \ {"grpc"}, kind = "token_usage" => a.op = "grpc",
             kind # "tracker", kind # "token_usage" => a.op = kind
      PROVE  /\ MakeTask(kind, id) \in Task(b) /\ LocalTask(b, MakeTask(kind, id))
             /\ MakeTask(kind, id).kind = kind
  BY <1>1, <1>2, MakeTaskType, Zenon DEF MakeTask, LocalTask
<1>3. CASE a.op = "grpc"
  <2>1. /\ call \in Task(b) /\ call.kind = "grpc" /\ call.id = id /\ call.failure_mode # "none"
        /\ LocalTask(b, call)
    <3>1. MakeTask("grpc", id) \in Task(b)
      BY <1>1, MakeTaskType, Zenon DEF TaskKind
    <3>2. a.mode \in FailureMode /\ (b.tracing = "export") \in BOOLEAN
      BY <1>1, Zenon DEF Action
    <3>3. /\ call \in Task(b) /\ call.kind = "grpc" /\ call.id = id /\ call.failure_mode = a.mode
      BY <3>1, <3>2, Zenon DEF MakeTask, Task
    <3> QED
      BY <3>2, <3>3, Zenon DEF LocalTask, FailureMode
  <2> DEFINE usage == MakeTask("token_usage", id)
  <2>2. usage \in Task(b) /\ LocalTask(b, usage) /\ usage.kind = "token_usage"
    BY <1>2, <1>3, Zenon DEF TaskKind
  <2>3. \/ TasksOf(b, id) = <<usage>> \o <<call>>
        \/ TasksOf(b, id) = <<>> \o <<call>>
    BY <1>3, Zenon DEF TasksOf
  <2> HIDE DEF usage, call
  <2>4. <<usage>> \in Seq(Task(b)) /\ <<call>> \in Seq(Task(b))
    BY <2>1, <2>2
  <2> DEFINE s == TasksOf(b, id)
  <2>5. CASE s = <<usage>> \o <<call>>
    <3>1. s \in Seq(Task(b)) /\ DOMAIN s = {1, 2} /\ s[1] = usage /\ s[2] = call
      BY <2>4, <2>5
    <3> HIDE DEF s
    <3>2. Has(s, id) /\ \A x : Once(s, x)
      BY <2>1, <2>2, <3>1, Zenon DEF Has, Once, Occurrences
    <3> QED
      BY <1>1, <1>3, <2>1, <2>2, <3>1, <3>2, Zenon DEF id, s
  <2>6. CASE s = <<>> \o <<call>>
    <3>1. s \in Seq(Task(b)) /\ DOMAIN s = {1} /\ s[1] = call
      BY <2>4, <2>6
    <3> HIDE DEF s
    <3>2. Has(s, id) /\ \A x : Once(s, x)
      BY <2>1, <3>1, Zenon DEF Has, Once, Occurrences
    <3> QED
      BY <1>1, <1>3, <2>1, <3>1, <3>2, Zenon DEF id, s
  <2> QED
    BY <2>3, <2>5, <2>6, Zenon
<1>4. CASE a.op = "fail"
  <2>1. TasksOf(b, id) = <<>>
    BY <1>4, Zenon DEF TasksOf
  <2> QED
    BY <1>1, <1>4, <2>1 DEF id, Once, Occurrences
<1>5. CASE a.op \in {"deny", "headers", "store"}
  <2> DEFINE t == MakeTask(a.op, id)
  <2>1. t \in Task(b) /\ LocalTask(b, t) /\ t.kind # "grpc"
    BY <1>2, <1>5, Zenon DEF TaskKind
  <2>2. TasksOf(b, id) = <<t>>
    BY <1>5, Zenon DEF TasksOf
  <2> HIDE DEF t
  <2>3. <<t>> \in Seq(Task(b)) /\ DOMAIN <<t>> = {1} /\ <<t>>[1] = t
    BY <2>1
  <2> QED
    BY <1>1, <1>5, <2>1, <2>2, <2>3, Zenon DEF id, Once, Occurrences
<1> QED
  BY <1>1, <1>3, <1>4, <1>5, Zenon DEF Action

\* What the concatenation of the tasks of n actions with those of the next is.
LEMMA ListedConcat ==
  ASSUME NEW b, NEW n \in Nat, NEW s, Listed(b, s, n), NEW u \in Seq(Task(b)),
         \A i \in DOMAIN u :
             /\ LocalTask(b, u[i])
             /\ u[i].kind = "grpc" => /\ u[i].failure_mode # "none" /\ u[i].id = <<n + 1>>
                                     /\ b.actions[<<n + 1>>].op = "grpc",
         b.actions[<<n + 1>>].op = "grpc" => Has(u, <<n + 1>>), \A id : Once(u, id)
  PROVE  Listed(b, s \o u, n + 1)
<1>1. s \in Seq(Task(b)) /\ s \o u \in Seq(Task(b))
  BY DEF Listed
<1>2. /\ DOMAIN (s \o u) = 1..(Len(s) + Len(u)) /\ Len(s) \in Nat /\ Len(u) \in Nat
      /\ \A i \in DOMAIN (s \o u) : \/ i \in DOMAIN s /\ (s \o u)[i] = s[i]
                                    \/ i - Len(s) \in DOMAIN u /\ (s \o u)[i] = u[i - Len(s)]
  BY <1>1
<1> DEFINE Good(t, m) == /\ LocalTask(b, t)
                         /\ t.kind = "grpc" =>
                              /\ t.failure_mode # "none"
                              /\ \E k \in 1..m : t.id = <<k>> /\ b.actions[<<k>>].op = "grpc"
<1>3. \A i \in DOMAIN (s \o u) : Good((s \o u)[i], n + 1)
  <2>1. \A i \in DOMAIN s : Good(s[i], n)
    BY Zenon DEF Listed
  <2>2. \A t : Good(t, n) => Good(t, n + 1)
    <3>1. \A k \in 1..n : k \in 1..(n + 1)
      OBVIOUS
    <3> QED
      BY <3>1, Zenon
  <2>3. \A i \in DOMAIN u : Good(u[i], n + 1)
    OBVIOUS
  <2> HIDE DEF Good
  <2> QED
    BY <1>2, <2>1, <2>2, <2>3, Zenon
<1>4. \A k \in Nat : (Has(s, <<k>>) => k \in 1..n) /\ (Has(u, <<k>>) => k = n + 1)
  <2> TAKE k \in Nat
  <2>1. \A m \in Nat : <<k>> = <<m>> => k = m
    BY Zenon
  <2>2. ASSUME Has(s, <<k>>) PROVE k \in 1..n
    <3>1. PICK i \in DOMAIN s : s[i].kind = "grpc" /\ s[i].id = <<k>>
      BY <2>2, Zenon DEF Has, Occurrences
    <3>2. PICK m \in 1..n : s[i].id = <<m>>
      BY <3>1, Zenon DEF Listed
    <3> QED
      BY <2>1, <3>1, <3>2
  <2>3. ASSUME Has(u, <<k>>) PROVE k = n + 1
    <3>1. PICK i \in DOMAIN u : u[i].kind = "grpc" /\ u[i].id = <<k>>
      BY <2>3, Zenon DEF Has, Occurrences
    <3> QED
      BY <2>1, <3>1
  <2> QED
    BY <2>2, <2>3, Zenon
<1>5. ASSUME NEW k \in 1..(n + 1), b.actions[<<k>>].op = "grpc" PROVE Has(s \o u, <<k>>)
  BY <1>1, <1>5, InConcat DEF Listed
<1>6. ASSUME NEW k \in Nat PROVE Once(s \o u, <<k>>) /\ Before(s \o u, <<k>>, <<k + 1>>)
  <2>1. Once(s, <<k>>) /\ Before(s, <<k>>, <<k + 1>>) /\ Once(u, <<k>>)
    BY Zenon DEF Listed
  <2>2. Before(u, <<k>>, <<k + 1>>) /\ ~(Has(s, <<k>>) /\ Has(u, <<k>>))
    BY <1>4 DEF Before, Has
  <2>3. ~(Has(s, <<k + 1>>) /\ Has(u, <<k>>))
    BY <1>4
  <2>4. Once(s \o u, <<k>>)
    BY <1>1, <2>1, <2>2, InConcat, Zenon
  <2>5. Before(s \o u, <<k>>, <<k + 1>>)
    <3>1. \A d, id : Before(s, d, id) /\ Before(u, d, id) /\ ~(Has(s, id) /\ Has(u, d))
                        => Before(s \o u, d, id)
      BY <1>1, InConcat, Zenon
    <3> QED
      BY <2>1, <2>2, <2>3, <3>1, Zenon
  <2> QED
    BY <2>4, <2>5, Zenon
<1> QED
  BY <1>1, <1>3, <1>5, <1>6, Zenon DEF Listed

\* ToTasks: the gRPC actions of the set are its tasks once each, in order.
LEMMA ToTasksListed ==
  ASSUME NEW b, WellFormed(b)
  PROVE  Listed(b, ToTasks(b), Len(OnReply(b, <<>>)))
<1> DEFINE n == Len(OnReply(b, <<>>))
           T == Task(b)
           F == FirstTasks(b)
<1>1. n \in Nat
  BY OnReplyFacts
<1>2. F[0] = <<>> /\ \A i \in 1..n : F[i] = F[i - 1] \o TasksOf(b, <<i>>)
  BY <1>1, FirstTasksSteps, Zenon
<1> HIDE DEF F, n
<1> DEFINE S == {m \in Nat : m <= n => Listed(b, F[m], m)}
<1>3. 0 \in S
  <2>1. Listed(b, <<>>, 0)
    BY DEF Listed, Once, Before, Occurrences
  <2> QED
    BY <1>2, <2>1, Zenon
<1>4. ASSUME NEW m \in Nat, m \in S PROVE m + 1 \in S
  <2> SUFFICES ASSUME m + 1 <= n PROVE Listed(b, F[m + 1], m + 1)
    OBVIOUS
  <2>1. Listed(b, F[m], m) /\ m + 1 \in 1..n
    BY <1>1, <1>4
  <2>2. F[m + 1] = F[m] \o TasksOf(b, <<m + 1>>)
    <3>1. (m + 1) - 1 = m
      OBVIOUS
    <3> QED
      BY <1>2, <2>1, <3>1, Zenon
  <2> QED
    BY <2>1, <2>2, ListedConcat, TasksOfListed, Zenon DEF n
<1> DEFINE s == F[n]
<1>6. Listed(b, s, n)
  <2>1. Nat \subseteq S
    BY <1>3, <1>4, SetInduction, Zenon
  <2> QED
    BY <1>1, <2>1
<1> DEFINE last == IF b.tracing = "off" THEN <<>> ELSE <<Tracker>>
<1>7. ToTasks(b) = s \o last
  BY Zenon DEF ToTasks, F, n
<1>8. /\ last \in Seq(T)
      /\ \A i \in DOMAIN last : last[i].kind # "grpc" /\ LocalTask(b, last[i])
  <2>1. Tracker \in T /\ Tracker.kind = "tracker" /\ Tracker.concrete
    <3>1. <<>> \in Seq(Nat) /\ "tracker" \in TaskKind
      BY DEF TaskKind
    <3>2. MakeTask("tracker", <<>>) \in Task(b) /\ MakeTask("tracker", <<>>).kind = "tracker"
      BY <3>1, MakeTaskType, Zenon DEF MakeTask
    <3> QED
      BY <3>2, Zenon DEF Tracker, Task
  <2>2. LocalTask(b, Tracker)
    BY <2>1, Zenon DEF LocalTask
  <2> HIDE DEF T
  <2> QED
    BY <2>1, <2>2
<1> HIDE DEF last
<1> HIDE DEF s
<1>9. Listed(b, s \o last, n)
  <2>1. Listed(b, s, n) /\ s \in Seq(T) /\ s \o last \in Seq(T)
    BY <1>6, <1>8 DEF Listed
  <2>2. \A id : Occurrences(last, id) = {}
    BY <1>8, Zenon DEF Occurrences
  <2>3. \A id : ~Has(last, id) /\ Once(last, id) /\ \A d : Before(last, d, id)
    BY <2>2, Zenon DEF Has, Once, Before
  <2>4. \A k \in Nat : Once(s \o last, <<k>>) /\ Before(s \o last, <<k>>, <<k + 1>>)
    <3> TAKE k \in Nat
    <3>1. Once(s, <<k>>) /\ Before(s, <<k>>, <<k + 1>>)
      BY <2>1, Zenon DEF Listed
    <3>2. Once(s \o last, <<k>>)
      BY <1>8, <2>1, <2>3, <3>1, InConcat, Zenon
    <3>3. Before(s \o last, <<k>>, <<k + 1>>)
      <4>1. \A d, id : Before(s, d, id) /\ Before(last, d, id) /\ ~(Has(s, id) /\ Has(last, d))
                          => Before(s \o last, d, id)
        BY <1>8, <2>1, InConcat, Zenon
      <4> QED
        BY <2>3, <3>1, <4>1, Zenon
    <3> QED
      BY <3>2, <3>3, Zenon
  <2>5. \A k \in 1..n : b.actions[<<k>>].op = "grpc" => Has(s \o last, <<k>>)
    BY <1>8, <2>1, <2>3, InConcat, Zenon DEF Listed
  <2>6. /\ DOMAIN (s \o last) = 1..(Len(s) + Len(last)) /\ Len(s) \in Nat /\ Len(last) \in Nat
        /\ \A i \in DOMAIN (s \o last) :
              \/ i \in DOMAIN s /\ (s \o last)[i] = s[i]
              \/ i - Len(s) \in DOMAIN last /\ (s \o last)[i] = last[i - Len(s)]
    BY <1>8, <2>1
  <2>7. \A i \in DOMAIN (s \o last) :
          LET t == (s \o last)[i]
          IN  /\ LocalTask(b, t)
              /\ t.kind = "grpc" =>
                   /\ t.failure_mode # "none"
                   /\ \E k \in 1..n : t.id = <<k>> /\ b.actions[<<k>>].op = "grpc"
    BY <1>8, <2>1, <2>6, Zenon DEF Listed
  <2> QED
    BY <2>1, <2>4, <2>5, <2>7, Zenon DEF Listed
<1> QED
  BY <1>7, <1>9, Zenon DEF n

\* Every task returns an outcome, and only gRPC tasks defer.
LEMMA ApplyType ==
  ASSUME NEW t \in Task(blueprint), NEW o \in Apply(t),
         Ids(blueprint) \subseteq Seq(Nat)
  PROVE  o \in OutcomeType /\ (o.tag = "Deferred" => t.kind = "grpc")
<1> DEFINE NotDeferred == {x \in OutcomeType : x.tag # "Deferred"}
<1>1. /\ Done \in NotDeferred /\ Failed \in NotDeferred
      /\ \A s \in Seq(Task(blueprint)) : Requeued(s) \in NotDeferred /\ Terminate(s) \in NotDeferred
  BY OutcomeTypes, Zenon DEF Done, Failed, Requeued, Terminate, Outcome
<1>2. <<t>> \in Seq(Task(blueprint)) /\ <<>> \in Seq(Task(blueprint))
  OBVIOUS
<1>3. <<SendReplyDefault>> \in Seq(Task(blueprint))
  BY SendReplyDefaultType
<1>4. [t EXCEPT !.failure_mode = "none"] \in Task(blueprint)
  BY Zenon DEF Task, FailureMode
<1>5. Postponed(t) \in NotDeferred
  <2>1. <<[t EXCEPT !.failure_mode = "none"]>> \in Seq(Task(blueprint))
    BY <1>4
  <2> QED
    BY <1>1, <2>1, Zenon DEF Postponed
<1>6. \A S \in SUBSET NotDeferred : WithPredicate(t, S) \subseteq NotDeferred
  BY <1>1, <1>2, Zenon DEF WithPredicate
<1>7. SetterOutcomes(t) \subseteq NotDeferred
  BY <1>1, <1>3, Zenon DEF SetterOutcomes
<1>8. CASE t.kind = "grpc"
  BY <1>5, <1>8, OutcomeTypes, Zenon DEF Apply, DynamicApply
<1>9. CASE t.kind = "deny"
  <2>1. \A x \in NotDeferred : /\ [x EXCEPT !.denied = TRUE] \in NotDeferred
                               /\ [x EXCEPT !.denied = TRUE, !.sent = TRUE] \in NotDeferred
    BY Zenon DEF OutcomeType
  <2>2. {[(IF IsTerminal(t) THEN Terminate(<<>>) ELSE Done) EXCEPT !.denied = TRUE, !.sent = TRUE]}
        \cup (IF HostMayReject THEN {[Failed EXCEPT !.denied = TRUE]} ELSE {})
            \in SUBSET NotDeferred
    BY <1>1, <1>2, <2>1, Zenon
  <2>3. SendReplyApply(t) \subseteq NotDeferred
    BY <1>6, <2>2, Zenon DEF SendReplyApply
  <2> QED
    BY <1>9, <2>3, Zenon DEF Apply
<1>10. CASE t.kind \in {"headers", "tracker"}
  <2>1. ModifyHeadersApply(t) \subseteq NotDeferred
    BY <1>1, <1>2, <1>6, <1>7, Zenon DEF ModifyHeadersApply
  <2> QED
    BY <1>10, <2>1, Zenon DEF Apply
<1>11. CASE t.kind = "store"
  <2>1. StoreApply(t) \subseteq NotDeferred
    BY <1>6, <1>7, Zenon DEF StoreApply
  <2> QED
    BY <1>11, <2>1, Zenon DEF Apply
<1>12. CASE t.kind = "token_usage"
  <2>1. \A vs \in SUBSET CollectBodyValues(blueprint, t.id) :
            [Done EXCEPT !.values = vs] \in NotDeferred
    BY <1>1, Zenon DEF CollectBodyValues, OutcomeType
  <2>2. TokenUsageApply(t) \subseteq NotDeferred
    BY <1>1, <1>2, <2>1, Zenon DEF TokenUsageApply
  <2> QED
    BY <1>12, <2>2, Zenon DEF Apply
<1>13. t.kind \in TaskKind
  BY Zenon DEF Task
<1> QED
  BY <1>8, <1>9, <1>10, <1>11, <1>12, <1>13, Zenon DEF TaskKind

\* The decorators return outcomes, and pass a deferral on.
LEMMA DecoratorsType ==
  ASSUME NEW o \in OutcomeType, NEW mode, NEW traced \in BOOLEAN
  PROVE  LET d == WithTracing(traced, WithFailureMode(mode, o))
         IN  d \in OutcomeType /\ (d.tag = "Deferred" <=> o.tag = "Deferred")
<1> DEFINE f == WithFailureMode(mode, o)
           s == [i \in 1..Len(f.tasks) |-> [f.tasks[i] EXCEPT !.traced = @ \/ traced]]
<1>1. <<SendReplyDefault>> \in Seq(Task(blueprint))
  BY SendReplyDefaultType
<1>2. f \in OutcomeType /\ (f.tag = "Deferred" <=> o.tag = "Deferred")
  BY <1>1, OutcomeTypes, Zenon DEF WithFailureMode, Terminate, Done, Outcome
<1> HIDE DEF f
<1>3. \A t \in Task(blueprint) : [t EXCEPT !.traced = @ \/ traced] \in Task(blueprint)
  BY Zenon DEF Task
<1>4. f.tasks \in Seq(Task(blueprint))
  BY <1>2, Zenon DEF OutcomeType
<1>5. s \in Seq(Task(blueprint))
  BY <1>3, <1>4
<1> HIDE DEF s
<1>6. [f EXCEPT !.tasks = s] \in OutcomeType /\ [f EXCEPT !.tasks = s].tag = f.tag
  BY <1>2, <1>5, Zenon DEF OutcomeType
<1> QED
  BY <1>2, <1>6, Zenon DEF WithTracing, f, s

\* What an outcome of the task t, decorated or not, says of it.  It comes back
\* as itself, and at the end of the response only to wait for a predicate.
Suits(t, o) ==
    /\ o.tag \in {"Done", "Deferred", "Failed"} => o.tasks = <<>>
    /\ o.tag = "Requeued" =>
          /\ \E u \in Task(blueprint) : /\ o.tasks = <<u>>
                                        /\ u.kind = t.kind /\ u.id = t.id /\ u.concrete = t.concrete
          /\ t.kind = "grpc" => /\ ~end_of_stream
                                /\ "ready" # ActionOf(t).pred \/ "ready" # ActionOf(t).expr
          /\ t.kind # "grpc" /\ end_of_stream /\ in_response_phase
                => t.kind # "token_usage" /\ ~t.concrete /\ IsPending(ActionOf(t).pred, t.id)
    /\ o.values # {} => /\ o.tag = "Done" /\ t.kind = "token_usage"
                        /\ o.values \subseteq CollectBodyValues(blueprint, t.id)

\* What the tasks return.
LEMMA ApplySuits ==
  ASSUME NEW t \in Task(blueprint), NEW o \in Apply(t), t.kind = "tracker" => t.concrete
  PROVE  Suits(t, o)
<1>1. /\ Suits(t, Done) /\ Suits(t, Failed) /\ Suits(t, Deferred)
      /\ \A s : Suits(t, Terminate(s))
  BY Zenon DEF Suits, Done, Failed, Deferred, Terminate, Outcome
<1> DEFINE u == [t EXCEPT !.failure_mode = "none"]
<1>2. u \in Task(blueprint) /\ u.kind = t.kind /\ u.id = t.id /\ u.concrete = t.concrete
  BY Zenon DEF Task
<1> HIDE DEF u
<1>3. \A x : /\ Requeued(x).tag = "Requeued" /\ Requeued(x).tasks = x /\ Requeued(x).values = {}
  BY Zenon DEF Requeued, Outcome
<1>4. CASE t.kind = "grpc"
  <2>1. \A data, id : IsPending(data, id) => data # "ready"
    BY Zenon DEF IsPending
  <2>2. IsPending(ActionOf(t).pred, t.id) \/ IsPending(ActionOf(t).expr, t.id)
           => Suits(t, Postponed(t))
    <3>1. Postponed(t) = IF end_of_stream THEN Failed ELSE Requeued(<<u>>)
      BY Zenon DEF Postponed, u
    <3>2. ASSUME ~end_of_stream, "ready" # ActionOf(t).pred \/ "ready" # ActionOf(t).expr
          PROVE  Suits(t, Requeued(<<u>>))
      BY <1>2, <1>3, <1>4, <3>2, Zenon DEF Suits
    <3> QED
      BY <1>1, <2>1, <3>1, <3>2, Zenon
  <2>3. o \in DynamicApply(t)
    BY <1>4, Zenon DEF Apply
  <2> QED
    BY <1>1, <2>2, <2>3, Zenon DEF DynamicApply
<1>5. ASSUME t.kind # "grpc", ~(end_of_stream /\ in_response_phase)
                                \/ (/\ t.kind # "token_usage" /\ ~t.concrete
                                    /\ IsPending(ActionOf(t).pred, t.id))
      PROVE  Suits(t, Requeued(<<t>>))
  BY <1>3, <1>5, Zenon DEF Suits
<1>6. ASSUME NEW S, \A x \in S : Suits(t, x), t.kind \notin {"grpc", "token_usage"}, NEW x \in WithPredicate(t, S)
      PROVE  Suits(t, x)
  BY <1>1, <1>5, <1>6, Zenon DEF WithPredicate
<1>7. \A x \in SetterOutcomes(t) : Suits(t, x)
  BY <1>1, Zenon DEF SetterOutcomes
<1>8. CASE t.kind = "deny"
  <2>1. \A x \in {Done, Terminate(<<>>)} : Suits(t, [x EXCEPT !.denied = TRUE, !.sent = TRUE])
    BY DEF Suits, Done, Terminate, Outcome
  <2>2. Suits(t, [Failed EXCEPT !.denied = TRUE])
    BY Zenon DEF Suits, Failed, Outcome
  <2>3. \A x \in {[(IF IsTerminal(t) THEN Terminate(<<>>) ELSE Done) EXCEPT !.denied = TRUE, !.sent = TRUE]}
             \cup (IF HostMayReject THEN {[Failed EXCEPT !.denied = TRUE]} ELSE {}) : Suits(t, x)
    BY <2>1, <2>2, Zenon
  <2>4. o \in SendReplyApply(t)
    BY <1>8, Zenon DEF Apply
  <2> QED
    BY <1>6, <1>8, <2>3, <2>4, Zenon DEF SendReplyApply
<1>9. CASE t.kind \in {"headers", "tracker"}
  <2>1. o \in ModifyHeadersApply(t)
    BY <1>9, Zenon DEF Apply
  <2>2. in_response_phase \/ Suits(t, Requeued(<<t>>))
    BY <1>5, <1>9, Zenon
  <2> QED
    BY <1>6, <1>7, <1>9, <2>1, <2>2, Zenon DEF ModifyHeadersApply
<1>10. CASE t.kind = "store"
  <2>1. o \in StoreApply(t)
    BY <1>10, Zenon DEF Apply
  <2> QED
    BY <1>6, <1>7, <1>10, <2>1, Zenon DEF StoreApply
<1>11. CASE t.kind = "token_usage"
  <2>1. o \in TokenUsageApply(t)
    BY <1>11, Zenon DEF Apply
  <2>2. \A vs \in SUBSET CollectBodyValues(blueprint, t.id) : Suits(t, [Done EXCEPT !.values = vs])
    BY <1>11, Zenon DEF Suits, Done, Outcome
  <2>3. (in_response_phase /\ end_of_stream) \/ Suits(t, Requeued(<<t>>))
    BY <1>5, <1>11, Zenon
  <2> QED
    BY <1>1, <2>1, <2>2, <2>3, Zenon DEF TokenUsageApply
<1> QED
  BY <1>4, <1>8, <1>9, <1>10, <1>11, Zenon DEF Task, TaskKind

\* The decorators hand the outcome on; one that failed under a failure mode is
\* done or terminates.
LEMMA DecoratorsSuit ==
  ASSUME NEW t, NEW o \in OutcomeType, Suits(t, o), NEW mode, NEW traced \in BOOLEAN
  PROVE  LET d == WithTracing(traced, WithFailureMode(mode, o))
         IN  /\ Suits(t, d)
             /\ d.tag = "Failed" => mode \notin FailureMode
<1> DEFINE f == WithFailureMode(mode, o)
           s == [i \in 1..Len(f.tasks) |-> [f.tasks[i] EXCEPT !.traced = @ \/ traced]]
<1>1. f \in OutcomeType /\ Suits(t, f) /\ (f.tag = "Failed" => mode \notin FailureMode)
  <2>1. Suits(t, Done) /\ \A x : Suits(t, Terminate(x))
    BY Zenon DEF Suits, Done, Terminate, Outcome
  <2>2. <<SendReplyDefault>> \in Seq(Task(blueprint))
    BY SendReplyDefaultType
  <2> QED
    BY <2>1, <2>2, OutcomeTypes, Zenon DEF WithFailureMode, Done, Terminate, Outcome, FailureMode
<1> HIDE DEF f
<1>2. /\ [f EXCEPT !.tasks = s].tag = f.tag /\ [f EXCEPT !.tasks = s].tasks = s
      /\ [f EXCEPT !.tasks = s].values = f.values
  BY <1>1, Zenon DEF OutcomeType
<1>3. f.tasks = <<>> => s = <<>>
  OBVIOUS
<1>4. ASSUME NEW u \in Task(blueprint), f.tasks = <<u>>
      PROVE  \E v \in Task(blueprint) : /\ s = <<v>> /\ v.kind = u.kind /\ v.id = u.id
                                        /\ v.concrete = u.concrete
  <2> DEFINE v == [u EXCEPT !.traced = @ \/ traced]
  <2>1. v \in Task(blueprint) /\ v.kind = u.kind /\ v.id = u.id /\ v.concrete = u.concrete
    BY Zenon DEF Task
  <2>2. s = <<v>>
    BY <1>4
  <2> QED
    BY <2>1, <2>2, Zenon
<1> HIDE DEF s
<1>5. Suits(t, [f EXCEPT !.tasks = s])
  BY <1>1, <1>2, <1>3, <1>4 DEF Suits
<1> QED
  BY <1>1, <1>2, <1>5, Zenon DEF WithTracing, f, s

-----------------------------------------------------------------------------
(* Guard calls: entries of deferred_tasks that will lower the barrier.     *)

Guards(d) == {t \in DOMAIN d : d[t].guard}

\* A teardown only ever turns guard calls into no-ops that do not lower the
\* barrier; it adds none.
LEMMA TeardownGuards ==
  ASSUME NEW d, NEW token, NEW exported
  PROVE  LET e == ExecuteTeardown(d, token, exported)
         IN  /\ Guards(e) \subseteq Guards(d)
             /\ DOMAIN e \subseteq DOMAIN d \cup {token}
             /\ ~exported => DOMAIN e = DOMAIN d
             /\ \A t \in DOMAIN e : e[t].noop
<1> DEFINE r == ReplaceDeferredWithNoop(d)
<1>1. /\ DOMAIN r = DOMAIN d
      /\ \A t \in DOMAIN d : r[t].noop /\ (r[t].guard <=> IsGuard(d[t]))
  BY Zenon DEF ReplaceDeferredWithNoop, NoopTask
<1> HIDE DEF r
<1>2. Guards(r) \subseteq Guards(d)
  BY <1>1, Zenon DEF Guards, IsGuard
<1>3. CASE exported
  <2> DEFINE e == Insert(r, token, NoopTask(<<>>, FALSE))
  <2>1. /\ DOMAIN e = DOMAIN r \cup {token}
        /\ e[token].noop /\ ~e[token].guard
        /\ \A t \in DOMAIN r : t # token => e[t] = r[t]
    BY Zenon DEF Insert, NoopTask
  <2> HIDE DEF e
  <2>2. Guards(e) \subseteq Guards(r)
    BY <2>1, Zenon DEF Guards
  <2>3. ExecuteTeardown(d, token, exported) = e
    BY <1>3, Zenon DEF ExecuteTeardown, r, e
  <2> QED
    BY <1>1, <1>2, <1>3, <2>1, <2>2, <2>3, Zenon
<1>4. CASE ~exported
  <2>1. ExecuteTeardown(d, token, exported) = r
    BY <1>4, Zenon DEF ExecuteTeardown, r
  <2> QED
    BY <1>1, <1>2, <1>4, <2>1, Zenon
<1> QED
  BY <1>3, <1>4, Zenon

-----------------------------------------------------------------------------
(* Moves: what a step does with the tasks of a pipeline that goes on.      *)

\* The tasks of the pipeline stand for actions of the set.
LocalTasks == {t \in Task(blueprint) : LocalTask(blueprint, t)}

Local ==
    /\ task_queue \in Seq(LocalTasks) /\ tasks_to_process \in Seq(LocalTasks)
    /\ reply.tasks \in Seq(LocalTasks)

\* Tasks are drained only during eval, and a reply is processed only during
\* digest; the only no-op is the one that awaits the export.
Transient ==
    /\ step # "eval" => tasks_to_process = <<>>
    /\ step # "reply" => reply = NoReply
    /\ \A t \in DOMAIN deferred_tasks : deferred_tasks[t].noop => deferred_tasks[t].id = <<>>
    /\ reply.pending.noop => reply.pending.id = <<>>

Running ==
    /\ blueprint \in Blueprints \cup {NoBlueprint} /\ PipelineTypeOK
    /\ Transient /\ Local


\* on_http_request_headers makes a pipeline of an action set.
Admits ==
    \E b \in Blueprints :
        /\ blueprint' = b
        /\ tasks_to_process' = ToTasks(b) /\ task_queue' = <<>>
        /\ step' = "eval" /\ reply' = NoReply
        /\ DOMAIN deferred_tasks' = {}
        /\ completed_tasks' = {} /\ failed_tasks' = {} /\ body_values' = {}

\* Another callback evaluates the queue.
Reschedules ==
    /\ step = "idle" /\ step' = "eval" /\ reply' = NoReply
    /\ tasks_to_process' = task_queue /\ task_queue' = <<>>
    /\ UNCHANGED <<blueprint, deferred_tasks, completed_tasks, failed_tasks, body_values>>

\* A pending task is handed to digest.
Answers ==
    \E t \in DOMAIN deferred_tasks :
        /\ step = "idle" /\ step' = "reply"
        /\ reply'.pending = deferred_tasks[t] /\ reply'.next = 1 /\ reply'.tasks = <<>>
        /\ DOMAIN deferred_tasks' = DOMAIN deferred_tasks \ {t}
        /\ \A u \in DOMAIN deferred_tasks' : deferred_tasks'[u] = deferred_tasks[u]
        /\ UNCHANGED <<blueprint, task_queue, tasks_to_process, completed_tasks, failed_tasks,
                       body_values, end_of_stream, in_response_phase>>

\* digest takes or skips an action of onReply.
Takes ==
    /\ step = "reply" /\ step' = "reply"
    /\ ~reply.pending.noop /\ reply.pending.id \in Ids(blueprint)
    /\ reply.next \in 1..Len(OnReply(blueprint, reply.pending.id))
    /\ reply'.pending = reply.pending /\ reply'.next = reply.next + 1
    /\ \/ reply'.tasks = reply.tasks
       \/ \E t \in Task(blueprint) : /\ reply'.tasks = Append(reply.tasks, t)
                                     /\ t.id = reply.pending.id \o <<reply.next>>
                                     /\ LocalTask(blueprint, t)
    /\ UNCHANGED <<blueprint, task_queue, tasks_to_process, deferred_tasks, completed_tasks,
                   failed_tasks, body_values, end_of_stream, in_response_phase>>

\* Lists of the same tasks, however decorated.
Alike(s, u) ==
    /\ Len(s) = Len(u)
    /\ \A i \in 1..Len(u) : s[i].kind = u[i].kind /\ s[i].id = u[i].id /\ s[i].concrete = u[i].concrete

\* digest is done with the pending task.
Settles ==
    /\ step = "reply" /\ step' = "eval" /\ reply' = NoReply /\ task_queue' = <<>>
    /\ \E s \in Seq(Task(blueprint)) :
          /\ tasks_to_process' = s \o task_queue
          /\ \/ /\ completed_tasks' = completed_tasks \cup {reply.pending.id}
                /\ failed_tasks' = failed_tasks
                /\ s = <<>> \/ Alike(s, reply.tasks)
             \/ /\ failed_tasks' = failed_tasks \cup {reply.pending.id}
                /\ completed_tasks' = completed_tasks
                /\ s = <<>> /\ reply.pending.failure_mode \notin FailureMode
    /\ UNCHANGED <<blueprint, deferred_tasks, body_values, end_of_stream, in_response_phase>>

\* eval takes the task t from the drained queue.
Evals(t) ==
    /\ step = "eval" /\ tasks_to_process # <<>> /\ t = Head(tasks_to_process)
    /\ tasks_to_process' = Tail(tasks_to_process)
    /\ UNCHANGED <<blueprint, reply, step, end_of_stream, in_response_phase>>

\* It pushes t back, blocked or not ready.
Requeues(t) ==
    /\ Evals(t)
    /\ \E u \in Task(blueprint) :
          /\ task_queue' = Append(task_queue, u)
          /\ u.kind = t.kind /\ u.id = t.id /\ u.concrete = t.concrete
          /\ \/ u = t /\ IsBlocked(t)
             \/ /\ ~IsBlocked(t)
                /\ t.kind = "grpc" => /\ ~end_of_stream
                                      /\ "ready" # ActionOf(t).pred \/ "ready" # ActionOf(t).expr
                /\ t.kind # "grpc" /\ end_of_stream /\ in_response_phase
                      => t.kind # "token_usage" /\ ~t.concrete /\ IsPending(ActionOf(t).pred, t.id)
    /\ UNCHANGED <<deferred_tasks, completed_tasks, failed_tasks, body_values>>

\* It makes the call of t.
Calls(t) ==
    /\ Evals(t) /\ ~IsBlocked(t) /\ t.kind = "grpc"
    /\ next_token \notin DOMAIN deferred_tasks
    /\ DOMAIN deferred_tasks' = DOMAIN deferred_tasks \cup {next_token}
    /\ \A u \in DOMAIN deferred_tasks : deferred_tasks'[u] = deferred_tasks[u]
    /\ deferred_tasks'[next_token] =
          [id |-> t.id, guard |-> ActionOf(t).guard, failure_mode |-> t.failure_mode,
           traced |-> t.traced, noop |-> FALSE]
    /\ UNCHANGED <<task_queue, completed_tasks, failed_tasks, body_values>>

\* It is done with t.
Finishes(t) ==
    /\ Evals(t) /\ ~IsBlocked(t)
    /\ \/ completed_tasks' = completed_tasks \cup TaskIds(t) /\ failed_tasks' = failed_tasks
       \/ /\ failed_tasks' = failed_tasks \cup TaskIds(t) /\ completed_tasks' = completed_tasks
          /\ t.failure_mode \notin FailureMode
    /\ body_values \subseteq body_values'
    /\ \A k \in body_values' : \/ k \in body_values
                               \/ t.kind = "token_usage" /\ k \in CollectBodyValues(blueprint, t.id)
    /\ UNCHANGED <<task_queue, deferred_tasks>>

\* eval has seen the whole queue; the export may be called.
Ends ==
    /\ step = "eval" /\ step' = "idle" /\ tasks_to_process = <<>> /\ tasks_to_process' = <<>>
    /\ \/ deferred_tasks' = deferred_tasks
       \/ /\ DOMAIN deferred_tasks = {}
          /\ \A t \in DOMAIN deferred_tasks' : deferred_tasks'[t].noop /\ deferred_tasks'[t].id = <<>>
    /\ UNCHANGED <<blueprint, task_queue, completed_tasks, failed_tasks, reply, body_values,
                   end_of_stream, in_response_phase>>

Rests ==
    UNCHANGED <<blueprint, task_queue, tasks_to_process, deferred_tasks, completed_tasks,
                failed_tasks, reply, step, body_values, end_of_stream, in_response_phase>>

Moves ==
    \/ Admits \/ Reschedules \/ Answers \/ Takes \/ Settles
    \/ \E t \in LocalTasks : Requeues(t) \/ Calls(t) \/ Finishes(t)
    \/ Ends \/ Rests

\* A task that is decorated still stands for the same action.
LEMMA LocalDecorated ==
  ASSUME NEW t \in LocalTasks, NEW u \in Task(blueprint),
         u.kind = t.kind, u.id = t.id, u.concrete = t.concrete
  PROVE  u \in LocalTasks
  BY Zenon DEF LocalTasks, LocalTask

\* The moves keep to the actions of the set.
LEMMA LocalStep ==
  ASSUME Running, Moves
  PROVE  /\ task_queue' \in Seq(LocalTasks') /\ tasks_to_process' \in Seq(LocalTasks')
         /\ reply'.tasks \in Seq(LocalTasks')
<1>1. /\ task_queue \in Seq(LocalTasks) /\ tasks_to_process \in Seq(LocalTasks)
      /\ reply.tasks \in Seq(LocalTasks)
  BY Zenon DEF Running, Local
<1>2. \A S : <<>> \in Seq(S)
  OBVIOUS
<1>3. NoReply.tasks = <<>>
  BY Zenon DEF NoReply
<1>4. blueprint' = blueprint => LocalTasks' = LocalTasks
  BY Zenon DEF LocalTasks
<1>5. CASE Admits
  <2>1. PICK b \in Blueprints : /\ blueprint' = b /\ tasks_to_process' = ToTasks(b)
                                /\ task_queue' = <<>> /\ reply' = NoReply
    BY <1>5, Zenon DEF Admits
  <2>2. Listed(b, ToTasks(b), Len(OnReply(b, <<>>)))
    BY BlueprintsAssumption, ToTasksListed, Zenon
  <2>3. ToTasks(b) \in Seq({t \in Task(b) : LocalTask(b, t)})
    BY <2>2 DEF Listed
  <2> QED
    BY <1>2, <1>3, <2>1, <2>3, Zenon DEF LocalTasks
<1>6. CASE Reschedules
  BY <1>1, <1>2, <1>3, <1>4, <1>6, Zenon DEF Reschedules
<1>7. CASE Answers
  BY <1>1, <1>2, <1>4, <1>7, Zenon DEF Answers
<1>8. CASE Takes
  <2>1. \A t \in Task(blueprint) : LocalTask(blueprint, t) => t \in LocalTasks
    BY Zenon DEF LocalTasks
  <2>2. reply'.tasks \in Seq(LocalTasks)
    <3>1. \/ reply'.tasks = reply.tasks
          \/ \E t \in LocalTasks : reply'.tasks = Append(reply.tasks, t)
      BY <1>8, <2>1, Zenon DEF Takes
    <3>2. \A t \in LocalTasks : Append(reply.tasks, t) \in Seq(LocalTasks)
      BY <1>1
    <3> QED
      BY <1>1, <3>1, <3>2, Zenon
  <2> QED
    BY <1>1, <1>4, <1>8, <2>2, Zenon DEF Takes
<1>9. CASE Settles
  <2>1. PICK s \in Seq(Task(blueprint)) : /\ tasks_to_process' = s \o task_queue
                                          /\ s = <<>> \/ Alike(s, reply.tasks)
    BY <1>9, Zenon DEF Settles
  <2>2. s \in Seq(LocalTasks)
    <3>1. ASSUME Alike(s, reply.tasks), NEW i \in 1..Len(s) PROVE s[i] \in LocalTasks
      <4>1. /\ s[i] \in Task(blueprint) /\ reply.tasks[i] \in LocalTasks
            /\ s[i].kind = reply.tasks[i].kind /\ s[i].id = reply.tasks[i].id
            /\ s[i].concrete = reply.tasks[i].concrete
        BY <1>1, <3>1 DEF Alike
      <4> QED
        BY <4>1, LocalDecorated, Zenon
    <3> QED
      BY <2>1, <3>1
  <2>3. s \o task_queue \in Seq(LocalTasks)
    BY <1>1, <2>2
  <2> QED
    BY <1>2, <1>3, <1>4, <1>9, <2>1, <2>3, Zenon DEF Settles
<1>10. ASSUME NEW t \in LocalTasks, Requeues(t) \/ Calls(t) \/ Finishes(t)
       PROVE  /\ task_queue' \in Seq(LocalTasks') /\ tasks_to_process' \in Seq(LocalTasks')
              /\ reply'.tasks \in Seq(LocalTasks')
  <2>1. Evals(t)
    BY <1>10, Zenon DEF Requeues, Calls, Finishes
  <2>2. Tail(tasks_to_process) \in Seq(LocalTasks)
    BY <1>1, <2>1 DEF Evals
  <2>3. task_queue' \in Seq(LocalTasks)
    <3>1. \A u \in Task(blueprint) : u.kind = t.kind /\ u.id = t.id /\ u.concrete = t.concrete
                                        => u \in LocalTasks
      BY LocalDecorated, Zenon
    <3>2. \/ task_queue' = task_queue
          \/ \E u \in LocalTasks : task_queue' = Append(task_queue, u)
      BY <1>10, <3>1, Zenon DEF Requeues, Calls, Finishes
    <3> QED
      BY <1>1, <3>2
  <2> QED
    BY <1>1, <1>4, <2>1, <2>2, <2>3, Zenon DEF Evals
<1>11. CASE Ends \/ Rests
  BY <1>1, <1>2, <1>4, <1>11, Zenon DEF Ends, Rests
<1> QED
  BY <1>5, <1>6, <1>7, <1>8, <1>9, <1>10, <1>11, Zenon DEF Moves

\* The moves drain the queue and process a reply one at a time.
LEMMA TransientStep ==
  ASSUME Running, Moves
  PROVE  Transient'
<1>1. /\ step # "eval" => tasks_to_process = <<>>
      /\ step # "reply" => reply = NoReply
      /\ \A t \in DOMAIN deferred_tasks : deferred_tasks[t].noop => deferred_tasks[t].id = <<>>
      /\ reply.pending.noop => reply.pending.id = <<>>
      /\ NoReply.pending.id = <<>>
  BY Zenon DEF Running, Transient, NoReply, NoopTask
<1>2. CASE Admits
  BY <1>1, <1>2, Zenon DEF Admits, Transient
<1>3. CASE Reschedules
  BY <1>1, <1>3, Zenon DEF Reschedules, Transient
<1>4. CASE Answers
  BY <1>1, <1>4, Zenon DEF Answers, Transient
<1>5. CASE Takes
  BY <1>1, <1>5, Zenon DEF Takes, Transient
<1>6. CASE Settles
  BY <1>1, <1>6, Zenon DEF Settles, Transient
<1>7. ASSUME NEW t \in LocalTasks, Requeues(t) \/ Finishes(t) PROVE Transient'
  BY <1>1, <1>7, Zenon DEF Requeues, Finishes, Evals, Transient
<1>8. ASSUME NEW t \in LocalTasks, Calls(t) PROVE Transient'
  BY <1>1, <1>8 DEF Calls, Evals, Transient
<1>9. CASE Ends
  BY <1>1, <1>9, Zenon DEF Ends, Transient
<1>10. CASE Rests
  BY <1>1, <1>10, Zenon DEF Rests, Transient
<1> QED
  BY <1>2, <1>3, <1>4, <1>5, <1>6, <1>7, <1>8, <1>9, <1>10, Zenon DEF Moves

-----------------------------------------------------------------------------
(* The executor has every action of the set in one place.                  *)

Called(id) == \E t \in DOMAIN deferred_tasks : deferred_tasks[t].id = id
CalledOnce(id) ==
    \A t, u \in DOMAIN deferred_tasks : deferred_tasks[t].id = id /\ deferred_tasks[u].id = id => t = u

Settled == completed_tasks \cup failed_tasks
Previous(id) == List(id) \o <<Rank(id) - 1>>

\* The action is in at most one place.
Apart(id) ==
    /\ Once(task_queue, id) /\ Once(tasks_to_process, id) /\ Once(reply.tasks, id) /\ CalledOnce(id)
    /\ Has(task_queue, id) => /\ ~Has(tasks_to_process, id) /\ ~Has(reply.tasks, id)
                              /\ ~Called(id) /\ id \notin Answered \cup Settled
    /\ Has(tasks_to_process, id) => /\ ~Has(reply.tasks, id)
                                    /\ ~Called(id) /\ id \notin Answered \cup Settled
    /\ Has(reply.tasks, id) => ~Called(id) /\ id \notin Answered \cup Settled
    /\ Called(id) => id \notin Answered \cup Settled
    /\ id \in Answered => id \notin Settled
    /\ ~(id \in completed_tasks /\ id \in failed_tasks)

\* An onReply action comes after the call whose reply it belongs to, and digest
\* has the actions of one reply, up to the one it looks at.
ParentFirst(id) ==
    /\ Len(id) > 1 /\ (Has(task_queue, id) \/ Has(tasks_to_process, id) \/ Called(id)
                       \/ id \in Answered \cup Settled)
          => List(id) \in completed_tasks
    /\ Has(reply.tasks, id) => /\ step = "reply" /\ ~reply.pending.noop
                               /\ List(id) = reply.pending.id /\ Rank(id) < reply.next

\* An action is called when the actions before it in its list are completed.
InOrder(id) ==
    Called(id) \/ id \in Answered \cup Settled
        => \A j \in 1..(Rank(id) - 1) : List(id) \o <<j>> \in completed_tasks

\* An action waits behind the one that it depends on.
InSequence(id) ==
    Rank(id) > 1 => /\ Before(task_queue, Previous(id), id)
                    /\ Before(tasks_to_process, Previous(id), id)
                    /\ Before(reply.tasks, Previous(id), id)
                    /\ Has(task_queue, id) => ~Has(tasks_to_process, Previous(id))

Placed(id) == Apart(id) /\ ParentFirst(id) /\ InOrder(id) /\ InSequence(id)

\* The last number of an id, and the rest of it.
LEMMA IdOf ==
  ASSUME NEW d \in Seq(Nat), NEW k \in Nat
  PROVE  /\ d \o <<k>> \in Seq(Nat) /\ d \o <<k>> # <<>> /\ Len(d \o <<k>>) = Len(d) + 1
         /\ List(d \o <<k>>) = d /\ Rank(d \o <<k>>) = k
<1> DEFINE s == d \o <<k>>
<1>1. /\ s \in Seq(Nat) /\ Len(s) = Len(d) + 1 /\ s[Len(d) + 1] = k /\ Len(d) \in Nat
      /\ \A i \in 1..Len(d) : s[i] = d[i]
  OBVIOUS
<1> HIDE DEF s
<1>2. s # <<>>
  BY <1>1
<1>3. List(s) \in Seq(Nat) /\ Len(List(s)) = Len(d) /\ \A i \in 1..Len(d) : List(s)[i] = d[i]
  BY <1>1 DEF List
<1>4. List(s) = d
  BY <1>3
<1> QED
  BY <1>1, <1>2, <1>4, Zenon DEF s, Rank

\* The numbers of the actions of a blueprint.
LEMMA IdFacts ==
  ASSUME blueprint \in Blueprints \cup {NoBlueprint}, NEW id \in Ids(blueprint)
  PROVE  /\ id \in Seq(Nat) /\ id # <<>> /\ Rank(id) \in Nat \ {0} /\ List(id) \in Seq(Nat)
         /\ Len(id) = Len(List(id)) + 1 /\ id = List(id) \o <<Rank(id)>>
         /\ Len(id) > 1 => List(id) \in Ids(blueprint)
         /\ blueprint \in Blueprints /\ WellFormed(blueprint)
         /\ Rank(id) > 1 => /\ Previous(id) \in Ids(blueprint) /\ Previous(id) # id
                            /\ List(Previous(id)) = List(id) /\ Rank(Previous(id)) = Rank(id) - 1
<1>1. blueprint \in Blueprints
  BY DEF NoBlueprint, Ids
<1>2. WellFormed(blueprint)
  BY <1>1, BlueprintsAssumption, Zenon
<1>3. /\ id \in Seq(Nat) /\ id # <<>> /\ Rank(id) \in 1..Len(OnReply(blueprint, List(id)))
      /\ Len(id) > 1 => List(id) \in Ids(blueprint)
  BY <1>2, Zenon DEF WellFormed
<1>4. Rank(id) \in Nat /\ List(id) \in Seq(Nat) /\ Len(id) = Len(List(id)) + 1
  <2> DEFINE n == Len(id) - 1
  <2>1. n \in Nat /\ Len(id) = n + 1 /\ id \in Seq(Nat)
    BY <1>3
  <2>2. Rank(id) \in Nat
    BY <2>1 DEF Rank
  <2> HIDE DEF n
  <2>3. SubSeq(id, 1, Len(id) - 1) \in Seq(Nat) /\ Len(SubSeq(id, 1, Len(id) - 1)) = n
    BY <2>1
  <2> QED
    BY <2>1, <2>2, <2>3, Zenon DEF List
<1>5. Rank(id) \in Nat \ {0}
  BY <1>3, <1>4
<1>6. id = List(id) \o <<Rank(id)>>
  BY <1>3, <1>4 DEF List, Rank
<1>7. List(id) \in Ids(blueprint) \cup {<<>>}
  BY <1>3, <1>4
<1>8. ASSUME Rank(id) > 1
      PROVE  /\ Previous(id) \in Ids(blueprint)
             /\ List(Previous(id)) = List(id) /\ Rank(Previous(id)) = Rank(id) - 1
  <2>1. Rank(id) - 1 \in 1..Len(OnReply(blueprint, List(id))) /\ Rank(id) - 1 \in Nat
    BY <1>3, <1>5, <1>8
  <2>2. List(id) \o <<Rank(id) - 1>> \in Ids(blueprint)
    BY <1>2, <1>7, <2>1, OnReplyFacts, Zenon
  <2>3. /\ List(List(id) \o <<Rank(id) - 1>>) = List(id)
        /\ Rank(List(id) \o <<Rank(id) - 1>>) = Rank(id) - 1
    BY <1>4, <2>1, IdOf, Zenon
  <2> QED
    BY <2>2, <2>3, Zenon DEF Previous
<1>9. Rank(id) > 1 => Previous(id) # id
  <2>1. Rank(id) - 1 # Rank(id)
    BY <1>5
  <2> QED
    BY <2>1, <1>8, Zenon
<1> QED
  BY <1>1, <1>2, <1>3, <1>4, <1>5, <1>6, <1>8, <1>9, Zenon

\* Nothing is in an empty list.
LEMMA NoneHas == \A id : ~Has(<<>>, id) /\ Once(<<>>, id) /\ \A d : Before(<<>>, d, id)
  BY InNone, Zenon DEF Has, Once, Before

\* An action that a list does not have.
LEMMA HasNot ==
  ASSUME NEW s, NEW id, ~Has(s, id)
  PROVE  Once(s, id) /\ \A d : Before(s, d, id) /\ Before(s, id, d)
  BY Zenon DEF Has, Once, Before

\* The tasks of a new pipeline.
LEMMA AdmitsPlaced ==
  ASSUME Admits
  PROVE  \A id \in Ids(blueprint') : Placed(id)'
<1>1. PICK b \in Blueprints :
        /\ blueprint' = b /\ tasks_to_process' = ToTasks(b) /\ task_queue' = <<>>
        /\ step' = "eval" /\ reply' = NoReply /\ DOMAIN deferred_tasks' = {}
        /\ completed_tasks' = {} /\ failed_tasks' = {}
  BY Zenon DEF Admits
<1> DEFINE s == ToTasks(b)
<1>2. Listed(b, s, Len(OnReply(b, <<>>))) /\ WellFormed(b)
  BY BlueprintsAssumption, ToTasksListed, Zenon
<1> HIDE DEF s
<1>3. /\ \A id : Has(s, id) => \E k \in Nat : id = <<k>>
      /\ \A k \in Nat : Once(s, <<k>>) /\ Before(s, <<k>>, <<k + 1>>)
  <2>1. ASSUME NEW id, Has(s, id) PROVE \E k \in Nat : id = <<k>>
    <3>1. PICK i \in DOMAIN s : s[i].kind = "grpc" /\ s[i].id = id
      BY <2>1, Zenon DEF Has, Occurrences
    <3>2. \E k \in 1..Len(OnReply(b, <<>>)) : s[i].id = <<k>>
      BY <1>2, <3>1, Zenon DEF Listed
    <3> QED
      BY <3>1, <3>2
  <2> QED
    BY <1>2, <2>1, Zenon DEF Listed
<1>4. /\ \A id : ~Has(task_queue', id) /\ ~Has(reply'.tasks, id)
      /\ \A id : ~Called(id)' /\ CalledOnce(id)'
      /\ Answered' = {} /\ Settled' = {}
  BY <1>1, NoneHas, Zenon DEF Called, CalledOnce, Answered, Settled, NoReply
<1> SUFFICES ASSUME NEW id \in Ids(b) PROVE Placed(id)'
  BY <1>1, Zenon
<1>5. id \in Seq(Nat) /\ id # <<>> /\ Rank(id) \in Nat \ {0}
  <2>1. id \in Seq(Nat) /\ id # <<>> /\ Rank(id) \in 1..Len(OnReply(b, List(id)))
    BY <1>2, Zenon DEF WellFormed
  <2>2. Rank(id) \in Nat
    BY <2>1 DEF Rank
  <2> QED
    BY <2>1, <2>2
<1>6. Apart(id)'
  <2>1. Once(tasks_to_process', id)
    BY <1>1, <1>3, HasNot, Zenon DEF s
  <2> QED
    BY <1>1, <1>4, <2>1, HasNot, Zenon DEF Apart
<1>7. ParentFirst(id)'
  <2>1. Has(tasks_to_process', id) => Len(id) = 1
    BY <1>1, <1>3 DEF s
  <2>2. Len(id) = 1 => ~(Len(id) > 1)
    OBVIOUS
  <2> QED
    BY <1>4, <2>1, <2>2, Zenon DEF ParentFirst
<1>8. InOrder(id)'
  BY <1>4, Zenon DEF InOrder
<1>9. InSequence(id)'
  <2> SUFFICES ASSUME Rank(id) > 1, Has(s, id) PROVE Before(s, Previous(id), id)
    BY <1>1, <1>4, HasNot, Zenon DEF InSequence, s
  <2>1. PICK k \in Nat : id = <<k>>
    BY <1>3, Zenon
  <2>2. Rank(id) = k /\ List(id) = <<>>
    BY <2>1 DEF Rank, List
  <2>3. k - 1 \in Nat /\ k = (k - 1) + 1 /\ Previous(id) = <<k - 1>>
    BY <2>1, <2>2 DEF Previous
  <2> QED
    BY <1>3, <2>1, <2>3, Zenon
<1> QED
  BY <1>6, <1>7, <1>8, <1>9, Zenon DEF Placed

\* The queue is evaluated again.
LEMMA ReschedulesPlaced ==
  ASSUME Running, Reschedules, \A id \in Ids(blueprint) : Placed(id)
  PROVE  \A id \in Ids(blueprint) : Placed(id)'
<1> SUFFICES ASSUME NEW id \in Ids(blueprint) PROVE Placed(id)'
  BY Zenon
<1>1. Placed(id)
  BY Zenon
<1>2. /\ step = "idle" /\ step' = "eval" /\ reply' = NoReply
      /\ tasks_to_process' = task_queue /\ task_queue' = <<>>
      /\ UNCHANGED <<blueprint, deferred_tasks, completed_tasks, failed_tasks>>
  BY Zenon DEF Reschedules
<1>3. NoReply.tasks = <<>> /\ tasks_to_process = <<>> /\ reply = NoReply
  BY <1>2, Zenon DEF Running, Transient, NoReply
<1>4. /\ Called(id)' = Called(id) /\ CalledOnce(id)' = CalledOnce(id) /\ Settled' = Settled
      /\ Answered = {} /\ Answered' = {}
  BY <1>2, Zenon DEF Called, CalledOnce, Settled, Answered
<1>5. Apart(id)'
  BY <1>1, <1>2, <1>3, <1>4, NoneHas, Zenon DEF Placed, Apart
<1>6. ParentFirst(id)'
  BY <1>1, <1>2, <1>3, <1>4, NoneHas, Zenon DEF Placed, ParentFirst
<1>7. InOrder(id)'
  BY <1>1, <1>2, <1>4, Zenon DEF Placed, InOrder
<1>8. InSequence(id)'
  BY <1>1, <1>2, <1>3, NoneHas, Zenon DEF Placed, InSequence
<1> QED
  BY <1>5, <1>6, <1>7, <1>8, Zenon DEF Placed

\* A call is answered.
LEMMA AnswersPlaced ==
  ASSUME Running, Answers, \A id \in Ids(blueprint) : Placed(id)
  PROVE  \A id \in Ids(blueprint) : Placed(id)'
<1> SUFFICES ASSUME NEW id \in Ids(blueprint) PROVE Placed(id)'
  BY Zenon
<1>1. Placed(id)
  BY Zenon
<1>2. PICK t \in DOMAIN deferred_tasks :
        /\ step = "idle" /\ step' = "reply"
        /\ reply'.pending = deferred_tasks[t] /\ reply'.next = 1 /\ reply'.tasks = <<>>
        /\ DOMAIN deferred_tasks' = DOMAIN deferred_tasks \ {t}
        /\ \A u \in DOMAIN deferred_tasks' : deferred_tasks'[u] = deferred_tasks[u]
        /\ UNCHANGED <<blueprint, task_queue, tasks_to_process, completed_tasks, failed_tasks>>
  BY Zenon DEF Answers
<1>3. reply.tasks = <<>>
  BY <1>2 DEF Running, Transient, NoReply
<1>4. /\ CalledOnce(id) /\ Answered = {} /\ Settled' = Settled
      /\ Answered' = {deferred_tasks[t].id}
  BY <1>1, <1>2, Zenon DEF Placed, Apart, Settled, Answered
<1>5. /\ Called(id)' => Called(id) /\ id \notin Answered'
      /\ id \in Answered' => Called(id)
      /\ CalledOnce(id)'
  BY <1>2, <1>4, Zenon DEF Called, CalledOnce
<1>6. Apart(id)'
  BY <1>1, <1>2, <1>3, <1>4, <1>5, Zenon DEF Placed, Apart
<1>7. ParentFirst(id)'
  BY <1>1, <1>2, <1>4, <1>5, NoneHas, Zenon DEF Placed, ParentFirst
<1>8. InOrder(id)'
  BY <1>1, <1>2, <1>4, <1>5, Zenon DEF Placed, InOrder
<1>9. InSequence(id)'
  BY <1>1, <1>2, NoneHas, Zenon DEF Placed, InSequence
<1> QED
  BY <1>6, <1>7, <1>8, <1>9, Zenon DEF Placed

\* eval ends, or nothing happens to the tasks.
LEMMA EndsPlaced ==
  ASSUME Running, Ends \/ Rests, \A id \in Ids(blueprint) : Placed(id)
  PROVE  \A id \in Ids(blueprint) : Placed(id)'
<1> SUFFICES ASSUME NEW id \in Ids(blueprint) PROVE Placed(id)'
  BY Zenon
<1>1. Placed(id) /\ id # <<>>
  BY IdFacts, Zenon DEF Running
<1>2. /\ UNCHANGED <<blueprint, task_queue, tasks_to_process, completed_tasks, failed_tasks, reply>>
      /\ step' = step \/ (step = "eval" /\ step' = "idle")
  BY Zenon DEF Ends, Rests
<1>3. Called(id)' = Called(id) /\ CalledOnce(id)' = CalledOnce(id)
  BY <1>1, Zenon DEF Ends, Rests, Called, CalledOnce
<1>4. Answered' = Answered /\ Settled' = Settled
  BY <1>2, Zenon DEF Answered, Settled
<1>5. Apart(id)'
  BY <1>1, <1>2, <1>3, <1>4, Zenon DEF Placed, Apart
<1>6. ParentFirst(id)'
  BY <1>1, <1>2, <1>3, <1>4, Zenon DEF Placed, ParentFirst
<1>7. InOrder(id)'
  BY <1>1, <1>2, <1>3, <1>4, Zenon DEF Placed, InOrder
<1>8. InSequence(id)'
  BY <1>1, <1>2, Zenon DEF Placed, InSequence
<1> QED
  BY <1>5, <1>6, <1>7, <1>8, Zenon DEF Placed

\* digest looks at an onReply action.
LEMMA TakesPlaced ==
  ASSUME Running, Takes, \A id \in Ids(blueprint) : Placed(id)
  PROVE  \A id \in Ids(blueprint) : Placed(id)'
<1> SUFFICES ASSUME NEW id \in Ids(blueprint) PROVE Placed(id)'
  BY Zenon
<1> DEFINE d == reply.pending.id
<1>1. /\ step = "reply" /\ step' = "reply" /\ ~reply.pending.noop /\ d \in Ids(blueprint)
      /\ reply.next \in 1..Len(OnReply(blueprint, d))
      /\ reply'.pending = reply.pending /\ reply'.next = reply.next + 1
      /\ UNCHANGED <<blueprint, task_queue, tasks_to_process, deferred_tasks, completed_tasks,
                     failed_tasks>>
  BY Zenon DEF Takes
<1>2. Running /\ reply.tasks \in Seq(Task(blueprint)) /\ reply.next \in Nat \ {0}
  BY Zenon DEF Running, PipelineTypeOK, ReplyType
<1>3. /\ Placed(id) /\ Placed(d) /\ d \in Answered /\ id \in Seq(Nat) /\ d \in Seq(Nat)
      /\ d # <<>> /\ Len(d) \in Nat \ {0}
      /\ Rank(id) \in Nat \ {0} /\ (Rank(id) > 1 => List(Previous(id)) = List(id)
                                       /\ Rank(Previous(id)) = Rank(id) - 1)
  <2>1. Placed(id) /\ Placed(d) /\ d \in Answered
    BY <1>1, Zenon DEF Answered
  <2>2. d \in Seq(Nat) /\ d # <<>>
    BY <1>1, <1>2, IdFacts, Zenon DEF Running
  <2>3. Len(d) \in Nat \ {0}
    BY <2>2
  <2> QED
    BY <1>2, <2>1, <2>2, <2>3, IdFacts, Zenon DEF Running
<1>4. /\ Called(id)' = Called(id) /\ CalledOnce(id)' = CalledOnce(id)
      /\ Answered' = Answered /\ Settled' = Settled
  BY <1>1, Zenon DEF Called, CalledOnce, Answered, Settled
<1> DEFINE new == d \o <<reply.next>>
<1>5. List(new) = d /\ Rank(new) = reply.next /\ Len(new) > 1
  BY <1>2, <1>3, IdOf
<1>6. \/ reply'.tasks = reply.tasks
      \/ \E t \in Task(blueprint) : reply'.tasks = Append(reply.tasks, t) /\ t.id = new
  BY Zenon DEF Takes
<1> HIDE DEF d, new
<1>7. CASE reply'.tasks = reply.tasks
  <2>1. Apart(id)'
    BY <1>1, <1>3, <1>4, <1>7, Zenon DEF Placed, Apart
  <2>2. ParentFirst(id)'
    BY <1>1, <1>2, <1>3, <1>4, <1>7 DEF Placed, ParentFirst
  <2>3. InOrder(id)'
    BY <1>1, <1>3, <1>4, Zenon DEF Placed, InOrder
  <2>4. InSequence(id)'
    BY <1>1, <1>3, <1>7, Zenon DEF Placed, InSequence
  <2> QED
    BY <2>1, <2>2, <2>3, <2>4, Zenon DEF Placed
<1>8. ASSUME NEW t \in Task(blueprint), reply'.tasks = Append(reply.tasks, t), t.id = new
      PROVE  Placed(id)'
  <2> DEFINE r == Append(reply.tasks, t)
  <2>1. \A k : /\ Has(r, k) <=> Has(reply.tasks, k) \/ IsCall(t, k)
               /\ Once(reply.tasks, k) /\ ~(Has(reply.tasks, k) /\ IsCall(t, k)) => Once(r, k)
    BY <1>2, InAppend, Zenon
  <2>2. \A k, x : Before(reply.tasks, x, k) /\ ~(IsCall(t, x) /\ (Has(reply.tasks, k) \/ IsCall(t, k)))
                    => Before(r, x, k)
    BY <1>2, InAppend, Zenon
  <2> HIDE DEF r
  <2>3. \A k : IsCall(t, k) => k = new
    BY <1>8, Zenon DEF IsCall
  \* The action was not there before: its parent is not completed.
  <2>4. id = new => /\ ~Has(task_queue, id) /\ ~Has(tasks_to_process, id) /\ ~Has(reply.tasks, id)
                    /\ ~Called(id) /\ id \notin Answered \cup Settled
    <3>1. d \notin completed_tasks
      BY <1>3, Zenon DEF Placed, Apart, Settled
    <3>2. id = new => ~(Rank(id) < reply.next)
      BY <1>2, <1>5
    <3> QED
      BY <1>3, <1>5, <3>1, <3>2, Zenon DEF Placed, ParentFirst
  <2>5. Apart(id)'
    BY <1>1, <1>3, <1>4, <1>8, <2>1, <2>3, <2>4, Zenon DEF Placed, Apart, r
  <2>6. ParentFirst(id)'
    <3>1. Has(reply'.tasks, id) => /\ List(id) = reply.pending.id /\ Rank(id) < reply.next + 1
      BY <1>2, <1>3, <1>5, <1>8, <2>1, <2>3 DEF Placed, ParentFirst, r, d
    <3> QED
      BY <1>1, <1>3, <1>4, <3>1, Zenon DEF Placed, ParentFirst
  <2>7. InOrder(id)'
    BY <1>1, <1>3, <1>4, Zenon DEF Placed, InOrder
  <2>8. InSequence(id)'
    <3> SUFFICES ASSUME Rank(id) > 1 PROVE InSequence(id)'
      BY Zenon DEF InSequence
    <3>1. ~(IsCall(t, Previous(id)) /\ (Has(reply.tasks, id) \/ IsCall(t, id)))
      <4> SUFFICES ASSUME IsCall(t, Previous(id)), Has(reply.tasks, id) \/ IsCall(t, id) PROVE FALSE
        BY Zenon
      <4>1. Rank(id) - 1 = reply.next
        BY <1>3, <1>5, <2>3, Zenon
      <4>2. Rank(id) < reply.next \/ Rank(id) = reply.next
        BY <1>3, <1>5, <2>3, Zenon DEF Placed, ParentFirst
      <4> QED
        BY <1>2, <1>3, <4>1, <4>2
    <3>2. Before(reply'.tasks, Previous(id), id)
      BY <1>3, <1>8, <2>2, <3>1, Zenon DEF Placed, InSequence, r
    <3> QED
      BY <1>1, <1>3, <3>2, Zenon DEF Placed, InSequence
  <2> QED
    BY <2>5, <2>6, <2>7, <2>8, Zenon DEF Placed
<1> QED
  BY <1>6, <1>7, <1>8, Zenon

\* digest is done with the reply: its tasks come before the queue.
LEMMA SettlesPlaced ==
  ASSUME Running, Settles, \A id \in Ids(blueprint) : Placed(id)
  PROVE  \A id \in Ids(blueprint) : Placed(id)'
<1> SUFFICES ASSUME NEW id \in Ids(blueprint) PROVE Placed(id)'
  BY Zenon
<1> DEFINE d == reply.pending.id
<1>1. PICK s \in Seq(Task(blueprint)) :
          /\ tasks_to_process' = s \o task_queue
          /\ \/ /\ completed_tasks' = completed_tasks \cup {d} /\ failed_tasks' = failed_tasks
                /\ s = <<>> \/ Alike(s, reply.tasks)
             \/ /\ failed_tasks' = failed_tasks \cup {d} /\ completed_tasks' = completed_tasks
                /\ s = <<>>
  BY Zenon DEF Settles
<1>2. /\ step = "reply" /\ step' = "eval" /\ reply' = NoReply /\ task_queue' = <<>>
      /\ NoReply.tasks = <<>>
      /\ UNCHANGED <<blueprint, deferred_tasks>>
  BY Zenon DEF Settles, NoReply
<1>3. /\ Running /\ reply.tasks \in Seq(Task(blueprint)) /\ task_queue \in Seq(Task(blueprint))
      /\ tasks_to_process = <<>> /\ reply.pending \in PendingTask(blueprint)
  BY <1>2, Zenon DEF Running, Transient, PipelineTypeOK, ReplyType
<1>4. /\ Called(id)' = Called(id) /\ CalledOnce(id)' = CalledOnce(id)
      /\ Answered = {d} /\ Answered' = {} /\ Settled' = Settled \cup {d}
  BY <1>1, <1>2, Zenon DEF Called, CalledOnce, Answered, Settled
<1>5. /\ Placed(id) /\ (Rank(id) > 1 => /\ Placed(Previous(id)) /\ List(Previous(id)) = List(id)
                                         /\ Len(Previous(id)) = Len(id))
      /\ Len(id) \in Nat \ {0} /\ Rank(id) \in Nat \ {0}
      /\ ~reply.pending.noop => Placed(d) /\ Len(d) \in Nat \ {0} /\ Len(List(id)) = Len(id) - 1
  <2>1. \A k \in Ids(blueprint) : Len(k) \in Nat \ {0} /\ Len(List(k)) = Len(k) - 1
    <3> TAKE k \in Ids(blueprint)
    <3>1. k \in Seq(Nat) /\ k # <<>> /\ Len(k) = Len(List(k)) + 1 /\ List(k) \in Seq(Nat)
      BY <1>3, IdFacts, Zenon DEF Running
    <3> QED
      BY <3>1
  <2>2. ~reply.pending.noop => d \in Ids(blueprint)
    BY <1>3, Zenon DEF PendingTask
  <2>3. Rank(id) > 1 => Previous(id) \in Ids(blueprint) /\ List(Previous(id)) = List(id)
    BY <1>3, IdFacts, Zenon DEF Running
  <2>4. Rank(id) > 1 => Len(Previous(id)) = Len(id)
    <3> SUFFICES ASSUME Rank(id) > 1 PROVE Len(Previous(id)) = Len(id)
      BY Zenon
    <3>1. /\ Len(Previous(id)) \in Nat /\ Len(id) \in Nat
          /\ Len(List(id)) = Len(id) - 1 /\ Len(List(id)) = Len(Previous(id)) - 1
      BY <2>1, <2>3, Zenon
    <3> QED
      BY <3>1
  <2>5. Rank(id) \in Nat \ {0}
    BY <1>3, IdFacts, Zenon DEF Running
  <2> QED
    BY <2>1, <2>2, <2>3, <2>4, <2>5, Zenon
<1>6. /\ \A k : Has(s, k) => Has(reply.tasks, k)
      /\ \A k : Once(reply.tasks, k) => Once(s, k)
      /\ \A k, x : Before(reply.tasks, x, k) => Before(s, x, k)
  <2>1. CASE s = <<>>
    BY <2>1, NoneHas, Zenon
  <2>2. CASE Alike(s, reply.tasks)
    <3>1. /\ Len(s) = Len(reply.tasks)
          /\ \A i \in 1..Len(s) : s[i].kind = reply.tasks[i].kind /\ s[i].id = reply.tasks[i].id
      BY <2>2, Zenon DEF Alike
    <3>2. \A k : Occurrences(s, k) = Occurrences(reply.tasks, k)
      BY <1>3, <3>1, InSame, Zenon
    <3> QED
      BY <3>2 DEF Has, Once, Before
  <2> QED
    BY <1>1, <2>1, <2>2, Zenon
<1> HIDE DEF d
\* The onReply tasks are of the reply of an action that was not completed.
<1>7. \A k \in Ids(blueprint) : Has(s, k) =>
         /\ List(k) = d /\ ~reply.pending.noop /\ List(k) \notin completed_tasks /\ List(k) \in completed_tasks'
  <2> SUFFICES ASSUME NEW k \in Ids(blueprint), Has(s, k)
               PROVE  /\ List(k) = d /\ ~reply.pending.noop /\ List(k) \notin completed_tasks
                      /\ List(k) \in completed_tasks'
    BY Zenon
  <2>1. List(k) = d /\ ~reply.pending.noop
    BY <1>6, Zenon DEF Placed, ParentFirst, d
  <2>2. d \notin completed_tasks
    BY <1>4, <1>5, <2>1, Zenon DEF Placed, Apart, Settled
  <2>3. s # <<>>
    BY NoneHas, Zenon
  <2> QED
    BY <1>1, <2>1, <2>2, <2>3, Zenon
<1>8. \A k : /\ Has(s \o task_queue, k) <=> Has(s, k) \/ Has(task_queue, k)
             /\ Once(s, k) /\ Once(task_queue, k) /\ ~(Has(s, k) /\ Has(task_queue, k))
                   => Once(s \o task_queue, k)
  BY <1>3, InConcat, Zenon
<1>9. \A k, x : Before(s, x, k) /\ Before(task_queue, x, k) /\ ~(Has(s, k) /\ Has(task_queue, x))
                    => Before(s \o task_queue, x, k)
  BY <1>3, InConcat, Zenon
<1>10. Apart(id)'
  <2>1. ~(Has(s, id) /\ Has(task_queue, id))
    BY <1>5, <1>6, Zenon DEF Placed, Apart
  <2>2. Once(tasks_to_process', id)
    BY <1>1, <1>5, <1>6, <1>8, <2>1, Zenon DEF Placed, Apart
  <2>3. Has(tasks_to_process', id) => ~Called(id) /\ id \notin Answered \cup Settled
    BY <1>1, <1>5, <1>6, <1>8, Zenon DEF Placed, Apart
  <2>4. ~(id \in completed_tasks' /\ id \in failed_tasks')
    BY <1>1, <1>4, <1>5, Zenon DEF Placed, Apart, Settled, d
  <2> QED
    BY <1>2, <1>4, <1>5, <2>2, <2>3, <2>4, NoneHas, Zenon DEF Placed, Apart
<1>11. ParentFirst(id)'
  <2>1. completed_tasks \subseteq completed_tasks'
    BY <1>1, Zenon
  <2>2. Has(tasks_to_process', id) => Has(s, id) \/ Has(task_queue, id)
    BY <1>1, <1>8, Zenon
  <2> QED
    BY <1>2, <1>4, <1>5, <1>7, <2>1, <2>2, NoneHas, Zenon DEF Placed, ParentFirst
<1>12. InOrder(id)'
  <2>1. completed_tasks \subseteq completed_tasks'
    BY <1>1, Zenon
  <2> QED
    BY <1>2, <1>4, <1>5, <2>1, Zenon DEF Placed, InOrder
<1>13. InSequence(id)'
  <2> SUFFICES ASSUME Rank(id) > 1 PROVE InSequence(id)'
    BY Zenon DEF InSequence
  \* A queued action is not of the same list: its parent is completed.
  <2>1. ~(Has(s, id) /\ Has(task_queue, Previous(id)))
    <3> SUFFICES ASSUME Has(s, id), Has(task_queue, Previous(id)) PROVE FALSE
      BY Zenon
    <3>1. List(id) = d /\ ~reply.pending.noop /\ List(id) \notin completed_tasks
      BY <1>7, Zenon
    <3>2. Len(Previous(id)) > 1
      BY <1>5, <3>1
    <3> QED
      BY <1>5, <3>1, <3>2, Zenon DEF Placed, ParentFirst
  <2>2. Before(tasks_to_process', Previous(id), id)
    BY <1>1, <1>5, <1>6, <1>9, <2>1, Zenon DEF Placed, InSequence
  <2> QED
    BY <1>2, <2>2, NoneHas, Zenon DEF InSequence
<1> QED
  BY <1>10, <1>11, <1>12, <1>13, Zenon DEF Placed

\* What eval does with a list of tasks when it takes the first one.
LEMMA EvalsFacts ==
  ASSUME Running, NEW t \in LocalTasks, Evals(t)
  PROVE  /\ Running /\ t \in Task(blueprint) /\ task_queue \in Seq(Task(blueprint))
         /\ UNCHANGED <<blueprint, reply, step>> /\ Answered' = Answered
         /\ t.kind = "grpc" => t.id \in Ids(blueprint)
         /\ \A k : /\ Has(tasks_to_process, k) <=> Has(tasks_to_process', k) \/ IsCall(t, k)
                   /\ Once(tasks_to_process, k) => /\ Once(tasks_to_process', k)
                                                   /\ ~(Has(tasks_to_process', k) /\ IsCall(t, k))
         /\ \A k, d : Before(tasks_to_process, d, k) => /\ Before(tasks_to_process', d, k)
                                                        /\ IsCall(t, k) => ~Has(tasks_to_process, d)
<1>1. /\ Running /\ task_queue \in Seq(Task(blueprint)) /\ tasks_to_process \in Seq(Task(blueprint))
      /\ t \in Task(blueprint)
  BY Zenon DEF Running, PipelineTypeOK, LocalTasks
<1>2. /\ tasks_to_process # <<>> /\ t = Head(tasks_to_process)
      /\ tasks_to_process' = Tail(tasks_to_process) /\ UNCHANGED <<blueprint, reply, step>>
  BY Zenon DEF Evals
<1>3. t.kind = "grpc" => t.id \in Ids(blueprint)
  BY <1>1, Zenon DEF Task
<1>4. \A k : /\ Has(tasks_to_process, k) <=> Has(Tail(tasks_to_process), k) \/ IsCall(t, k)
             /\ Once(tasks_to_process, k) => /\ Once(Tail(tasks_to_process), k)
                                             /\ ~(Has(Tail(tasks_to_process), k) /\ IsCall(t, k))
  BY <1>1, <1>2, InTail, Zenon
<1>5. \A k, d : Before(tasks_to_process, d, k) => /\ Before(Tail(tasks_to_process), d, k)
                                                  /\ IsCall(t, k) => ~Has(tasks_to_process, d)
  BY <1>1, <1>2, InTail, Zenon
<1> QED
  BY <1>1, <1>2, <1>3, <1>4, <1>5, Zenon DEF Answered

\* A task goes back to the queue.
LEMMA RequeuesPlaced ==
  ASSUME Running, NEW t \in LocalTasks, Requeues(t),
         \A id \in Ids(blueprint) : Placed(id)
  PROVE  \A id \in Ids(blueprint) : Placed(id)'
<1> SUFFICES ASSUME NEW id \in Ids(blueprint) PROVE Placed(id)'
  BY Zenon
<1>1. Placed(id)
  BY Zenon
<1>2. /\ Evals(t) /\ UNCHANGED <<deferred_tasks, completed_tasks, failed_tasks>>
  BY Zenon DEF Requeues
<1>3. PICK u \in Task(blueprint) : task_queue' = Append(task_queue, u) /\ u.kind = t.kind /\ u.id = t.id
  BY Zenon DEF Requeues
<1>4. /\ task_queue \in Seq(Task(blueprint))
      /\ UNCHANGED <<blueprint, reply, step>> /\ Answered' = Answered
      /\ \A k : /\ Has(tasks_to_process, k) <=> Has(tasks_to_process', k) \/ IsCall(t, k)
                /\ Once(tasks_to_process, k) => /\ Once(tasks_to_process', k)
                                                /\ ~(Has(tasks_to_process', k) /\ IsCall(t, k))
      /\ \A k, d : Before(tasks_to_process, d, k) => /\ Before(tasks_to_process', d, k)
                                                     /\ IsCall(t, k) => ~Has(tasks_to_process, d)
  BY <1>2, EvalsFacts, Zenon
<1>5. /\ Called(id)' = Called(id) /\ CalledOnce(id)' = CalledOnce(id) /\ Settled' = Settled
  BY <1>2, Zenon DEF Called, CalledOnce, Settled
<1>6. \A k : IsCall(u, k) <=> IsCall(t, k)
  BY <1>3, Zenon DEF IsCall
<1>7. \A k : /\ Has(task_queue', k) <=> Has(task_queue, k) \/ IsCall(t, k)
             /\ Once(task_queue, k) /\ ~(Has(task_queue, k) /\ IsCall(t, k)) => Once(task_queue', k)
  BY <1>3, <1>4, <1>6, InAppend, Zenon
<1>8. \A k, d : Before(task_queue, d, k) /\ ~(IsCall(t, d) /\ (Has(task_queue, k) \/ IsCall(t, k)))
                    => Before(task_queue', d, k)
  <2>1. \A k, d : Before(task_queue, d, k) /\ ~(IsCall(u, d) /\ (Has(task_queue, k) \/ IsCall(u, k)))
                    => Before(Append(task_queue, u), d, k)
    BY <1>3, <1>4, InAppend, Zenon
  <2> QED
    BY <1>3, <1>6, <2>1, Zenon
<1>9. Apart(id)'
  BY <1>1, <1>2, <1>4, <1>5, <1>7, Zenon DEF Placed, Apart
<1>10. ParentFirst(id)'
  BY <1>1, <1>2, <1>4, <1>5, <1>7, Zenon DEF Placed, ParentFirst
<1>11. InOrder(id)'
  BY <1>1, <1>2, <1>4, <1>5, Zenon DEF Placed, InOrder
<1>12. InSequence(id)'
  <2> SUFFICES ASSUME Rank(id) > 1 PROVE InSequence(id)'
    BY Zenon DEF InSequence
  <2>1. /\ Before(task_queue, Previous(id), id) /\ Before(tasks_to_process, Previous(id), id)
        /\ Before(reply.tasks, Previous(id), id)
        /\ Has(task_queue, id) => ~Has(tasks_to_process, Previous(id))
    BY <1>1, Zenon DEF Placed, InSequence
  <2>2. IsCall(t, id) => ~Has(tasks_to_process, Previous(id))
    BY <1>4, <2>1, Zenon
  <2>3. ~(IsCall(t, Previous(id)) /\ (Has(task_queue, id) \/ IsCall(t, id)))
    BY <1>4, <2>1, <2>2, Zenon
  <2>4. Before(task_queue', Previous(id), id) /\ Before(tasks_to_process', Previous(id), id)
    BY <1>4, <1>8, <2>1, <2>3, Zenon
  <2>5. Has(task_queue', id) => ~Has(tasks_to_process', Previous(id))
    BY <1>4, <1>7, <2>1, <2>2, Zenon
  <2> QED
    BY <1>4, <2>1, <2>4, <2>5, Zenon DEF InSequence
<1> QED
  BY <1>9, <1>10, <1>11, <1>12, Zenon DEF Placed

\* A task that is not blocked comes after completed actions only.
LEMMA Unblocked ==
  ASSUME Running, NEW t \in LocalTasks, ~IsBlocked(t),
         \A id \in Ids(blueprint) : Placed(id), NEW id \in Ids(blueprint), IsCall(t, id)
  PROVE  \A j \in 1..(Rank(id) - 1) : List(id) \o <<j>> \in completed_tasks
<1>1. /\ Rank(id) \in Nat \ {0}
      /\ Rank(id) > 1 => /\ Previous(id) \in Ids(blueprint)
                         /\ List(Previous(id)) = List(id) /\ Rank(Previous(id)) = Rank(id) - 1
  BY IdFacts, Zenon DEF Running
<1>2. CASE ~(Rank(id) > 1)
  BY <1>1, <1>2
<1>3. CASE Rank(id) > 1
  <2>1. Previous(id) \in completed_tasks
    BY <1>3, Zenon DEF IsBlocked, TaskDependencies, Dependencies, IsCall, Previous
  <2>2. \A j \in 1..(Rank(id) - 2) : List(id) \o <<j>> \in completed_tasks
    <3>1. \A j \in 1..(Rank(Previous(id)) - 1) : List(Previous(id)) \o <<j>> \in completed_tasks
      BY <1>1, <1>3, <2>1, Zenon DEF Placed, InOrder, Settled
    <3>2. Rank(Previous(id)) - 1 = Rank(id) - 2
      BY <1>1, <1>3
    <3> QED
      BY <1>1, <1>3, <3>1, <3>2, Zenon
  <2>3. List(id) \o <<Rank(id) - 1>> \in completed_tasks
    BY <2>1, Zenon DEF Previous
  <2> TAKE j \in 1..(Rank(id) - 1)
  <2>4. j \in 1..(Rank(id) - 2) \/ j = Rank(id) - 1
    BY <1>1, <1>3
  <2> QED
    BY <2>2, <2>3, <2>4, Zenon
<1> QED
  BY <1>2, <1>3, Zenon

\* A task leaves the drained queue and its action, if it has one, is now called
\* or settled.
LEMMA LeavesPlaced ==
  ASSUME Running, NEW t \in LocalTasks, Evals(t), ~IsBlocked(t),
         \A id \in Ids(blueprint) : Placed(id), task_queue' = task_queue,
         completed_tasks \subseteq completed_tasks',
         NEW id \in Ids(blueprint), CalledOnce(id)',
         Called(id)' \/ id \in Settled' => Called(id) \/ id \in Settled \/ IsCall(t, id),
         ~(Called(id)' /\ id \in Settled'),
         ~(id \in completed_tasks' /\ id \in failed_tasks')
  PROVE  Placed(id)'
<1>1. Placed(id)
  BY Zenon
<1>2. /\ task_queue \in Seq(Task(blueprint))
      /\ UNCHANGED <<blueprint, reply, step>> /\ Answered' = Answered
      /\ \A k : /\ Has(tasks_to_process, k) <=> Has(tasks_to_process', k) \/ IsCall(t, k)
                /\ Once(tasks_to_process, k) => /\ Once(tasks_to_process', k)
                                                /\ ~(Has(tasks_to_process', k) /\ IsCall(t, k))
      /\ \A k, d : Before(tasks_to_process, d, k) => /\ Before(tasks_to_process', d, k)
                                                     /\ IsCall(t, k) => ~Has(tasks_to_process, d)
  BY EvalsFacts, Zenon
<1>3. Apart(id)'
  <2>1. Once(tasks_to_process', id) /\ ~(Has(tasks_to_process', id) /\ IsCall(t, id))
    BY <1>1, <1>2, Zenon DEF Placed, Apart
  <2> QED
    BY <1>1, <1>2, <2>1, Zenon DEF Placed, Apart
<1>4. ParentFirst(id)'
  BY <1>1, <1>2, Zenon DEF Placed, ParentFirst
<1>5. InOrder(id)'
  <2>1. IsCall(t, id) => \A j \in 1..(Rank(id) - 1) : List(id) \o <<j>> \in completed_tasks
    BY Unblocked, Zenon
  <2> QED
    BY <1>1, <1>2, <2>1, Zenon DEF Placed, InOrder
<1>6. InSequence(id)'
  BY <1>1, <1>2, Zenon DEF Placed, InSequence
<1> QED
  BY <1>3, <1>4, <1>5, <1>6, Zenon DEF Placed

\* A call is made.
LEMMA CallsPlaced ==
  ASSUME Running, NEW t \in LocalTasks, Calls(t),
         \A id \in Ids(blueprint) : Placed(id)
  PROVE  \A id \in Ids(blueprint) : Placed(id)'
<1> SUFFICES ASSUME NEW id \in Ids(blueprint) PROVE Placed(id)'
  BY Zenon
<1>1. /\ Evals(t) /\ ~IsBlocked(t) /\ t.kind = "grpc"
      /\ next_token \notin DOMAIN deferred_tasks
      /\ DOMAIN deferred_tasks' = DOMAIN deferred_tasks \cup {next_token}
      /\ \A u \in DOMAIN deferred_tasks : deferred_tasks'[u] = deferred_tasks[u]
      /\ deferred_tasks'[next_token].id = t.id
      /\ UNCHANGED <<task_queue, completed_tasks, failed_tasks>>
  BY DEF Calls
<1>2. IsCall(t, id) <=> t.id = id
  BY <1>1, Zenon DEF IsCall
<1>3. Called(id)' <=> Called(id) \/ IsCall(t, id)
  BY <1>1, <1>2, Zenon DEF Called
<1>4. Has(tasks_to_process, id) <=> Has(tasks_to_process', id) \/ IsCall(t, id)
  BY <1>1, EvalsFacts, Zenon
<1>5. Apart(id)
  BY Zenon DEF Placed
<1>6. CalledOnce(id)'
  BY <1>1, <1>2, <1>4, <1>5, Zenon DEF Apart, CalledOnce, Called
<1>7. ~(Called(id)' /\ id \in Settled')
  BY <1>1, <1>3, <1>4, <1>5, Zenon DEF Apart, Settled
<1>8. ~(id \in completed_tasks' /\ id \in failed_tasks')
  BY <1>1, <1>5, Zenon DEF Apart
<1>9. Settled' = Settled /\ completed_tasks \subseteq completed_tasks'
  BY <1>1, Zenon DEF Settled
<1> QED
  BY <1>1, <1>3, <1>6, <1>7, <1>8, <1>9, LeavesPlaced

\* A task is done, or it failed.
LEMMA FinishesPlaced ==
  ASSUME Running, NEW t \in LocalTasks, Finishes(t),
         \A id \in Ids(blueprint) : Placed(id)
  PROVE  \A id \in Ids(blueprint) : Placed(id)'
<1> SUFFICES ASSUME NEW id \in Ids(blueprint) PROVE Placed(id)'
  BY Zenon
<1>1. /\ Evals(t) /\ ~IsBlocked(t)
      /\ \/ completed_tasks' = completed_tasks \cup TaskIds(t) /\ failed_tasks' = failed_tasks
         \/ failed_tasks' = failed_tasks \cup TaskIds(t) /\ completed_tasks' = completed_tasks
      /\ UNCHANGED <<task_queue, deferred_tasks>>
  BY Zenon DEF Finishes
<1>2. id \in TaskIds(t) <=> IsCall(t, id)
  BY Zenon DEF TaskIds, IsCall
<1>3. Called(id)' = Called(id) /\ CalledOnce(id)' = CalledOnce(id)
  BY <1>1, Zenon DEF Called, CalledOnce
<1>4. Has(tasks_to_process, id) <=> Has(tasks_to_process', id) \/ IsCall(t, id)
  BY <1>1, EvalsFacts, Zenon
<1>5. Apart(id)
  BY Zenon DEF Placed
<1>6. CalledOnce(id)' /\ completed_tasks \subseteq completed_tasks'
  BY <1>1, <1>3, <1>5, Zenon DEF Apart
<1>7. ~(Called(id)' /\ id \in Settled')
  BY <1>1, <1>2, <1>3, <1>4, <1>5, Zenon DEF Apart, Settled
<1>8. ~(id \in completed_tasks' /\ id \in failed_tasks')
  BY <1>1, <1>2, <1>4, <1>5, Zenon DEF Apart, Settled
<1>9. id \in Settled' => id \in Settled \/ IsCall(t, id)
  BY <1>1, <1>2, Zenon DEF Settled
<1> QED
  BY <1>1, <1>3, <1>6, <1>7, <1>8, <1>9, LeavesPlaced

\* Every move keeps the actions apart and in order.
LEMMA MovesPlaced ==
  ASSUME Running, Moves, \A id \in Ids(blueprint) : Placed(id)
  PROVE  \A id \in Ids(blueprint') : Placed(id)'
<1>1. CASE Admits
  BY <1>1, AdmitsPlaced, Zenon
<1>2. CASE Reschedules
  BY <1>2, ReschedulesPlaced, Zenon DEF Reschedules
<1>3. CASE Answers
  BY <1>3, AnswersPlaced, Zenon DEF Answers
<1>4. CASE Takes
  BY <1>4, TakesPlaced, Zenon DEF Takes
<1>5. CASE Settles
  BY <1>5, SettlesPlaced, Zenon DEF Settles
<1>6. ASSUME NEW t \in LocalTasks, Requeues(t) \/ Calls(t) \/ Finishes(t)
      PROVE  \A id \in Ids(blueprint') : Placed(id)'
  <2>1. blueprint' = blueprint
    BY <1>6, Zenon DEF Requeues, Calls, Finishes, Evals
  <2> QED
    BY <1>6, <2>1, RequeuesPlaced, CallsPlaced, FinishesPlaced, Zenon
<1>7. CASE Ends \/ Rests
  <2>1. blueprint' = blueprint
    BY <1>7, Zenon DEF Ends, Rests
  <2> QED
    BY <1>7, <2>1, EndsPlaced, Zenon
<1> QED
  BY <1>1, <1>2, <1>3, <1>4, <1>5, <1>6, <1>7 DEF Moves

\* An action of the set itself is somewhere.
Somewhere(id) ==
    \/ Has(task_queue, id) \/ Has(tasks_to_process, id)
    \/ Called(id) \/ id \in Answered \cup Settled

Present ==
    ~terminated => \A id \in Ids(blueprint) :
                       Len(id) = 1 /\ blueprint.actions[id].op = "grpc" => Somewhere(id)

\* A new pipeline has all its actions.
LEMMA AdmitsPresent ==
  ASSUME Admits
  PROVE  Present'
<1>1. PICK b \in Blueprints : blueprint' = b /\ tasks_to_process' = ToTasks(b)
  BY Zenon DEF Admits
<1>2. Listed(b, ToTasks(b), Len(OnReply(b, <<>>))) /\ WellFormed(b)
  BY BlueprintsAssumption, ToTasksListed, Zenon
<1> SUFFICES ASSUME NEW id \in Ids(b), Len(id) = 1, b.actions[id].op = "grpc"
             PROVE  Has(ToTasks(b), id)
  BY <1>1, Zenon DEF Present, Somewhere
<1>3. id \in Seq(Nat) /\ Rank(id) \in 1..Len(OnReply(b, List(id)))
  BY <1>2, Zenon DEF WellFormed
<1>4. List(id) = <<>> /\ id = <<Rank(id)>>
  BY <1>3 DEF List, Rank
<1> QED
  BY <1>2, <1>3, <1>4, Zenon DEF Listed

\* A pipeline that goes on has what it had.
LEMMA MovesPresent ==
  ASSUME Running, Moves, ~Admits, NEW id \in Ids(blueprint), Somewhere(id)
  PROVE  Somewhere(id)'
<1>1. /\ Running /\ task_queue \in Seq(Task(blueprint)) /\ id # <<>>
  BY IdFacts, Zenon DEF Running, PipelineTypeOK
<1>2. CASE Reschedules
  <2>1. tasks_to_process = <<>> /\ Answered = {} /\ Called(id)' = Called(id) /\ Settled' = Settled
    BY <1>2, Zenon DEF Running, Transient, Reschedules, Answered, Called, Settled
  <2> QED
    BY <1>2, <2>1, NoneHas, Zenon DEF Reschedules, Somewhere
<1>3. CASE Answers
  <2>1. Called(id) => Called(id)' \/ id \in Answered'
    BY <1>3, Zenon DEF Answers, Called, Answered
  <2>2. Answered = {} /\ Settled' = Settled
    BY <1>3, Zenon DEF Answers, Answered, Settled
  <2> QED
    BY <1>3, <2>1, <2>2, Zenon DEF Answers, Somewhere
<1>4. CASE Takes
  BY <1>4, Zenon DEF Takes, Somewhere, Called, Answered, Settled
<1>5. CASE Settles
  <2>1. PICK s \in Seq(Task(blueprint)) : tasks_to_process' = s \o task_queue
    BY <1>5, Zenon DEF Settles
  <2>2. Has(task_queue, id) => Has(tasks_to_process', id)
    BY <1>1, <2>1, InConcat, Zenon
  <2>3. tasks_to_process = <<>> /\ Called(id)' = Called(id) /\ Settled \subseteq Settled'
        /\ Answered \subseteq Settled'
    BY <1>5, Zenon DEF Running, Transient, Settles, Called, Settled, Answered
  <2> QED
    BY <2>2, <2>3, NoneHas, Zenon DEF Somewhere
<1>6. ASSUME NEW t \in LocalTasks, Requeues(t)
      PROVE  Somewhere(id)'
  <2>1. PICK u \in Task(blueprint) : task_queue' = Append(task_queue, u) /\ u.kind = t.kind /\ u.id = t.id
    BY <1>6, Zenon DEF Requeues
  <2>2. Has(task_queue', id) <=> Has(task_queue, id) \/ IsCall(t, id)
    BY <1>1, <2>1, InAppend DEF IsCall
  <2>3. Evals(t) /\ UNCHANGED <<deferred_tasks, completed_tasks, failed_tasks>>
    BY <1>6, Zenon DEF Requeues
  <2>4. Answered' = Answered /\ (Has(tasks_to_process, id) <=> Has(tasks_to_process', id) \/ IsCall(t, id))
    BY <2>3, EvalsFacts, Zenon
  <2> QED
    BY <2>2, <2>3, <2>4, Zenon DEF Somewhere, Called, Settled
<1>7. ASSUME NEW t \in LocalTasks, Calls(t) \/ Finishes(t)
      PROVE  Somewhere(id)'
  <2>1. Evals(t) /\ task_queue' = task_queue
    BY <1>7, Zenon DEF Calls, Finishes
  <2>2. Answered' = Answered /\ (Has(tasks_to_process, id) <=> Has(tasks_to_process', id) \/ IsCall(t, id))
    BY <2>1, EvalsFacts, Zenon
  <2>3. (Called(id) => Called(id)') /\ Settled \subseteq Settled'
    BY <1>7, Zenon DEF Calls, Finishes, Called, Settled
  <2>4. IsCall(t, id) => Called(id)' \/ id \in Settled'
    BY <1>7 DEF Calls, Finishes, IsCall, TaskIds, Called, Settled
  <2> QED
    BY <2>1, <2>2, <2>3, <2>4, Zenon DEF Somewhere
<1>8. CASE Ends
  BY <1>8, Zenon DEF Ends, Somewhere, Called, Settled, Answered
<1>9. CASE Rests
  BY <1>9, Zenon DEF Rests, Somewhere, Called, Settled, Answered
<1> QED
  BY <1>2, <1>3, <1>4, <1>5, <1>6, <1>7, <1>8, <1>9 DEF Moves
=============================================================================
