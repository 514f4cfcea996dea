----------------------------- MODULE Blueprint -----------------------------
(***************************************************************************)
(* Action sets and the tasks they turn into (src/src/kuadrant/pipeline/    *)
(* blueprint.rs).                                                          *)
(*                                                                         *)
(* A blueprint is a record: actions maps the id of every action, the ones  *)
(* that run on a gRPC reply included, to the action.  Ids are sequences of *)
(* numbers: <<2>> is the second action of the set and <<2, 1>> the first   *)
(* one of its onReply list.  tracing says whether the configuration has a  *)
(* header identifier ("header") and a tracing service too ("export").      *)
(***************************************************************************)
EXTENDS Naturals, Sequences, FiniteSets

CONSTANT Blueprints

\* What an expression must wait for before it evaluates to a value: nothing,
\* the response headers, a field of the response or of the request body.
Data == {"ready", "response_headers", "response_body", "request_body"}

FailureMode == {"allow", "deny"}

Action ==
    [op       : {"grpc", "deny", "headers", "store", "fail"},
     pred     : Data,                   \* what its predicate waits for
     expr     : Data,                   \* what its other expression waits for
     target   : {"request", "response"},
     terminal : BOOLEAN,
     guard    : BOOLEAN,                \* is_guard
     mode     : FailureMode]            \* of the service of a gRPC action

Ids(b) == DOMAIN b.actions

\* The list an action is in, as the id of the action it replies to or <<>> for
\* the set, its rank there, and whether an action is below another.
List(id) == SubSeq(id, 1, Len(id) - 1)
Rank(id) == id[Len(id)]
IsBelow(k, id) == Len(id) <= Len(k) /\ SubSeq(k, 1, Len(id)) = id

\* Action::compile_typed numbers the actions of a list and makes each depend
\* on the one before it.
Dependencies(id) ==
    IF Rank(id) > 1 THEN {List(id) \o <<Rank(id) - 1>>} ELSE {}

OnReply(b, id) ==
    LET n == Cardinality({k \in Ids(b) : Len(k) = Len(id) + 1 /\ List(k) = id})
    IN  [k \in 1..n |-> id \o <<k>>]

-----------------------------------------------------------------------------
(* Tasks.  concrete marks a task whose values were computed when it was    *)
(* made; failure_mode and traced are the decorators around it.             *)

TaskKind == {"grpc", "deny", "headers", "store", "token_usage", "tracker"}

Task(b) ==
    {t \in [kind         : TaskKind,
            id           : Seq(Nat),
            concrete     : BOOLEAN,
            failure_mode : FailureMode \cup {"none"},
            traced       : BOOLEAN] : t.kind = "grpc" => t.id \in Ids(b)}

MakeTask(kind, id) ==
    [kind |-> kind, id |-> id, concrete |-> FALSE, failure_mode |-> "none", traced |-> FALSE]

\* Only gRPC tasks have an id and dependencies; Option<id> as a set.
TaskIds(t) == IF t.kind = "grpc" THEN {t.id} ELSE {}
TaskDependencies(t) == IF t.kind = "grpc" THEN Dependencies(t.id) ELSE {}

\* Where a list of tasks has the gRPC action id.
Occurrences(s, id) == {i \in DOMAIN s : s[i].kind = "grpc" /\ s[i].id = id}

\* collect_body_values: the actions below id with an expression that reads a
\* field of the response body.
CollectBodyValues(b, id) ==
    {k \in Ids(b) : IsBelow(k, id) /\ "response_body" \in {b.actions[k].pred, b.actions[k].expr}}

TasksOf(b, id) ==
    CASE b.actions[id].op = "grpc" ->
            (IF CollectBodyValues(b, id) # {} THEN <<MakeTask("token_usage", id)>> ELSE <<>>)
            \o <<[MakeTask("grpc", id) EXCEPT !.failure_mode = b.actions[id].mode,
                                              !.traced = (b.tracing = "export")]>>
      [] b.actions[id].op = "fail" -> <<>>
      [] OTHER -> <<MakeTask(b.actions[id].op, id)>>

\* The action for the header identifier, if any, is the last of the set.
Tracker == [MakeTask("tracker", <<>>) EXCEPT !.concrete = TRUE]

\* The tasks of the first actions of the set, from none to all of them.
FirstTasks(b) ==
    LET tasks[n \in 0..Len(OnReply(b, <<>>))] ==
            IF n = 0 THEN <<>> ELSE tasks[n - 1] \o TasksOf(b, <<n>>)
    IN  tasks

ToTasks(b) ==
    FirstTasks(b)[Len(OnReply(b, <<>>))]
    \o (IF b.tracing = "off" THEN <<>> ELSE <<Tracker>>)

HasTeardown(b) == b.tracing = "export"

\* Lists are numbered without gaps, and only gRPC actions have replies.
WellFormed(b) ==
    /\ b.tracing \in {"off", "header", "export"}
    /\ \A id \in Ids(b) :
          /\ id \in Seq(Nat) /\ id # <<>>
          /\ b.actions[id] \in Action
          /\ Rank(id) \in 1..Len(OnReply(b, List(id)))
          /\ Len(id) > 1 => List(id) \in Ids(b) /\ b.actions[List(id)].op = "grpc"
    /\ \A id \in Ids(b) \cup {<<>>} : OnReply(b, id) \in Seq(Ids(b))

\* The filter has no blueprint before the first callback.
NoBlueprint == [actions |-> <<>>, tracing |-> "off"]

ASSUME BlueprintsAssumption == \A b \in Blueprints : WellFormed(b)
=============================================================================
