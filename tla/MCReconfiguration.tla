------------------------- MODULE MCReconfiguration -------------------------
(***************************************************************************)
(* Configurations that differ in what the compiler looks at: the services, *)
(* the actions that call them, request data, tracing and the identifier.   *)
(***************************************************************************)
EXTENDS Reconfiguration, TLC

Svc(type, upstream) == [type |-> type, complete |-> TRUE, upstream |-> upstream]

AuthAndTraces == ("auth" :> Svc("auth", "authorino")) @@ ("traces" :> Svc("tracing", "jaeger"))
Limits ==
    ("check" :> Svc("ratelimit-check", "limitador")) @@ ("own" :> Svc("dynamic", "custom"))
Incomplete ==
    [Limits EXCEPT !["own"].complete = FALSE] @@ ("auth" :> Svc("auth", "authorino"))

Legacy(service) == [legacy |-> TRUE, op |-> "none", service |-> service, valid |-> TRUE]
Grpc(service) == [legacy |-> FALSE, op |-> "grpc", service |-> service, valid |-> TRUE]
Deny(valid) == [legacy |-> FALSE, op |-> "deny", service |-> "none", valid |-> valid]

Set(actions) == [route_valid |-> TRUE, actions |-> actions]

\* One legacy action; a gRPC action that denies on its reply; two action sets.
SampleSets ==
    {<<Set(<<1>> :> Legacy(s))>> : s \in {"auth", "check", "own"}}
    \cup {<<Set((<<1>> :> Grpc(s)) @@ (<<1, 1>> :> Deny(v)))>> :
            s \in {"own", "traces"}, v \in BOOLEAN}
    \cup {<<Set(<<1>> :> Legacy("check")),
            [Set(<<1>> :> Grpc("own")) EXCEPT !.route_valid = v]>> : v \in BOOLEAN}

RequestDatas == {{}, {[valid |-> FALSE, auth |-> TRUE]}, {[valid |-> FALSE, auth |-> FALSE]}}

Config(services, sets, data, tracing, header) ==
    [services |-> services, action_sets |-> sets, request_data |-> data,
     tracing |-> tracing, header_identifier |-> header,
     default_level |-> IF header THEN "INFO" ELSE "VERBOSE",
     descriptor_service |-> IF header THEN "operator" ELSE "other"]

LegacyAuth == <<Set(<<1>> :> Legacy("auth"))>>
LegacyCheck == <<Set(<<1>> :> Legacy("check"))>>
GrpcOwn == <<Set(<<1>> :> Grpc("own"))>>

\* The action sets vary over one map of services, tracing and request data
\* over one action set each, and the level over one that exports spans.
MCConfigurations ==
    Unparsable
    \cup {Config(Limits, sets, {}, Unconfigured, FALSE) : sets \in SampleSets}
    \cup {Config(Limits, sets, data, Unconfigured, FALSE) :
            sets \in {LegacyCheck, GrpcOwn}, data \in RequestDatas}
    \cup {Config(AuthAndTraces, LegacyAuth, data, Unconfigured, TRUE) : data \in RequestDatas}
    \cup {Config(AuthAndTraces, LegacyAuth, {}, tracing, TRUE) : tracing \in {"traces", "auth", "lost"}}
    \cup {[Config(AuthAndTraces, LegacyAuth, {}, "traces", TRUE) EXCEPT !.default_level = level] :
            level \in {"TRACE", "OFF", "VERBOSE"}}
    \cup {Config(AuthAndTraces, <<Set(<<1>> :> Grpc("traces"))>>, {}, "traces", FALSE),
          Config(Incomplete, LegacyCheck, {}, Unconfigured, FALSE)}

StreamSymmetry == Permutations(Streams)
=============================================================================
