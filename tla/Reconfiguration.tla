-------------------------- MODULE Reconfiguration --------------------------
(***************************************************************************)
(* From plugin configurations to pipeline factories: FilterRoot's          *)
(* on_configure and create_http_context (filter/root_context.rs), the      *)
(* factory's try_from (kuadrant/pipeline/factory.rs), Blueprint::compile   *)
(* (blueprint.rs), ServiceInstance::from_config (services/mod.rs) and      *)
(* init_observability (tracing/mod.rs).                                    *)
(*                                                                         *)
(* An expression is abstracted to whether it parses, a service to its type *)
(* and its upstream (for a descriptor-based one, its descriptor key).      *)
(* action_sets is a sequence; actions maps the id of each action, nested   *)
(* ones included, to the action, as in Blueprint.                          *)
(***************************************************************************)
EXTENDS Naturals, Sequences

CONSTANTS
    Configurations, \* what the host may have for get_plugin_configuration
    Unparsable,     \* the ones that are missing or are not a PluginConfiguration
    Streams,
    Unconfigured, NoAnswer, NoUpstream

VARIABLES
    pipeline_factory, \* of the root context
    expected,         \* the keys the descriptor manager knows
    descriptor_service,
    otel_filter,      \* the level filter of the span layer, "None" without one
    streams,          \* the factory of each KuadrantFilter there is, as a set
    answer            \* what on_configure was given and returned

vars == <<pipeline_factory, expected, descriptor_service, otel_filter, streams, answer>>

\* A service has its endpoint, and Unconfigured is the name of none.
ASSUME ServicesAssumption ==
    \A c \in Configurations \ Unparsable :
        /\ Unconfigured \notin DOMAIN c.services
        /\ \A n \in DOMAIN c.services : c.services[n].upstream # NoUpstream

-----------------------------------------------------------------------------
(* Services.                                                               *)

LegacyTypes == {"auth", "ratelimit", "ratelimit-check", "ratelimit-report"}
DescriptorTypes == LegacyTypes \cup {"dynamic"}

\* ServiceInstance::from_config fails for a dynamic service without its
\* grpc_service or grpc_method.
FromConfigFails(service) == service.type = "dynamic" /\ ~service.complete

\* The key DynamicService::new announces with add_expected.
KeyOf(service) == IF service.type \in DescriptorTypes THEN {service.upstream} ELSE {}

Instances(c) == {c.services[n] : n \in DOMAIN c.services}
Keys(instances) == UNION {KeyOf(s) : s \in instances}

\* ServiceInstance::Tracing(None).
NoTracing == [type |-> "tracing", complete |-> TRUE, upstream |-> NoUpstream]

\* The service that observability.tracing names, whatever its type.
TracingService(c) ==
    IF c.tracing \in DOMAIN c.services THEN c.services[c.tracing] ELSE NoTracing

-----------------------------------------------------------------------------
(* Actions.                                                                *)

\* The type of the service an action names, if there is one.
TypeOf(c, a) == IF a.service \in DOMAIN c.services THEN c.services[a.service].type ELSE "unknown"

\* A legacy action becomes a gRPC action whose message holds its own
\* expressions and the request data; translate_legacy_auth_to_typed quotes
\* the ones that mention auth instead of parsing them.
TranslateLegacy(c, a, data) ==
    [legacy  |-> FALSE,
     op      |-> "grpc",
     service |-> a.service,
     valid   |-> /\ a.valid
                 /\ \A d \in data : d.valid \/ (TypeOf(c, a) = "auth" /\ d.auth)]

\* Mutant: try_from leaves ratelimit-check to Action::compile.
TranslateMost(c, a) ==
    IF a.legacy /\ TypeOf(c, a) \in LegacyTypes \ {"ratelimit-check"}
    THEN TranslateLegacy(c, a, c.request_data)
    ELSE a

\* try_from translates with the request data as it is configured.
Translate(c, a) ==
    IF a.legacy /\ TypeOf(c, a) \in LegacyTypes
    THEN TranslateLegacy(c, a, c.request_data)
    ELSE a

\* request_data without the expressions that do not parse.
RequestData(c) == {d \in c.request_data : d.valid}

CompileTypedFails(c, a) ==
    \/ ~a.valid
    \/ a.op = "grpc" /\ TypeOf(c, a) \notin DescriptorTypes

\* Action::compile translates what try_from left, with the filtered data.
CompileActionFails(c, a) ==
    IF a.legacy
    THEN \/ TypeOf(c, a) \notin LegacyTypes
         \/ CompileTypedFails(c, TranslateLegacy(c, a, RequestData(c)))
    ELSE CompileTypedFails(c, a)

\* Blueprint::compile, of the actions try_from hands it.
CompileFails(c, set) ==
    \/ ~set.route_valid
    \/ \E id \in DOMAIN set.actions : CompileActionFails(c, Translate(c, set.actions[id]))

\* A gRPC action of a blueprint.  The other operations hold no service.
Call(id, service) == [id |-> id, service |-> service]

Compile(c, set) ==
    {Call(id, c.services[set.actions[id].service]) :
        id \in {k \in DOMAIN set.actions : Translate(c, set.actions[k]).op = "grpc"}}

-----------------------------------------------------------------------------
(* PipelineFactory::try_from.                                              *)

\* kuadrant.devMode, the last action of every blueprint, and the only one of
\* the fallback, when there is a header identifier.
DevModeId == <<0>>
DevMode(c) == IF c.header_identifier THEN {Call(DevModeId, TracingService(c))} ELSE {}

DefaultFactory == [index |-> <<>>, fallback |-> {}]

TryFromFails(c) ==
    \/ \E n \in DOMAIN c.services : FromConfigFails(c.services[n])
    \/ \E i \in DOMAIN c.action_sets : CompileFails(c, c.action_sets[i])

TryFrom(c) ==
    [index    |-> [i \in DOMAIN c.action_sets |-> Compile(c, c.action_sets[i]) \cup DevMode(c)],
     fallback |-> DevMode(c)]

\* The keys announced by the time try_from returns.  services is a HashMap:
\* when one of them fails, any of the others may have been made before it.
Announced(c) ==
    LET made == {s \in Instances(c) : ~FromConfigFails(s)}
    IN  IF made = Instances(c) THEN {Keys(made)} ELSE {Keys(some) : some \in SUBSET made}

-----------------------------------------------------------------------------
(* The root context.                                                       *)

Init ==
    /\ pipeline_factory = DefaultFactory
    /\ expected = {}
    /\ descriptor_service = Unconfigured
    /\ otel_filter = "None"
    /\ streams = [s \in Streams |-> {}]
    /\ answer = NoAnswer

Levels == {"TRACE", "DEBUG", "INFO", "WARN", "ERROR", "OFF"}

\* Mutant: the filter that is there already is kept.
InitObservabilityOnce(c) ==
    IF c.tracing = Unconfigured \/ otel_filter # "None" THEN otel_filter ELSE "WARN"

\* init_observability: the filter is made or reloaded.
InitObservability(c) ==
    IF c.tracing = Unconfigured THEN "None"
    ELSE IF c.default_level \in Levels THEN c.default_level ELSE "WARN"

\* Mutant: the manager is told the keys of the new configuration only.
AddExpectedForgets(keys) == keys

AddExpected(keys) == expected \cup keys

\* The host has no configuration, or serde_json rejects it.
OnConfigureUnparsable(c) ==
    /\ c \in Unparsable
    /\ answer' = [config |-> c, accepted |-> FALSE]
    /\ UNCHANGED <<pipeline_factory, expected, descriptor_service, otel_filter, streams>>

\* process_config.  What it has the descriptor manager fetch is the subject of
\* DescriptorManager.
ProcessConfig(c) ==
    /\ \E keys \in Announced(c) : expected' = AddExpected(keys)
    /\ IF TryFromFails(c)
       THEN UNCHANGED <<pipeline_factory, descriptor_service>>
       ELSE /\ pipeline_factory' = TryFrom(c)
            /\ descriptor_service' = c.descriptor_service

\* on_configure with a configuration that parses.
OnConfigure(c) ==
    /\ c \notin Unparsable
    /\ otel_filter' = InitObservability(c)
    /\ ProcessConfig(c)
    /\ answer' = [config |-> c, accepted |-> ~TryFromFails(c)]
    /\ UNCHANGED streams

\* create_http_context: the filter is given the factory there is now.
CreateHttpContext(s) ==
    /\ streams[s] = {}
    /\ streams' = [streams EXCEPT ![s] = {pipeline_factory}]
    /\ answer' = NoAnswer
    /\ UNCHANGED <<pipeline_factory, expected, descriptor_service, otel_filter>>

\* The host deletes the filter of a stream that ended.
Delete(s) ==
    /\ streams[s] # {}
    /\ streams' = [streams EXCEPT ![s] = {}]
    /\ answer' = NoAnswer
    /\ UNCHANGED <<pipeline_factory, expected, descriptor_service, otel_filter>>

Next ==
    \/ \E c \in Configurations : OnConfigureUnparsable(c) \/ OnConfigure(c)
    \/ \E s \in Streams : CreateHttpContext(s) \/ Delete(s)

Spec == Init /\ [][Next]_vars

-----------------------------------------------------------------------------
(* What a configuration means, said without the compiler.                  *)

\* The actions of a set that call a service.
Callers(set) == {id \in DOMAIN set.actions : set.actions[id].legacy \/ set.actions[id].op = "grpc"}

\* Every expression parses, the quoted ones excepted, and every action that
\* calls a service names one that can be called that way.
WellFormed(c) ==
    /\ c \notin Unparsable
    /\ \A n \in DOMAIN c.services : c.services[n].type = "dynamic" => c.services[n].complete
    /\ \A i \in DOMAIN c.action_sets :
        LET set == c.action_sets[i] IN
        /\ set.route_valid
        /\ \A id \in DOMAIN set.actions : set.actions[id].valid
        /\ \A id \in Callers(set) :
            LET a == set.actions[id] IN
            /\ a.service \in DOMAIN c.services
            /\ c.services[a.service].type \in (IF a.legacy THEN LegacyTypes ELSE DescriptorTypes)
            /\ a.legacy => \A d \in c.request_data :
                 d.valid \/ (d.auth /\ c.services[a.service].type = "auth")

\* Each caller calls the service it names; every action set, and requests of
\* none (0), give the identifier to the tracing service.
Promised(c) ==
    (UNION {{<<i, Call(id, c.services[c.action_sets[i].actions[id].service])>> :
               id \in Callers(c.action_sets[i])} : i \in DOMAIN c.action_sets})
    \cup (IF c.header_identifier
          THEN {<<i, Call(DevModeId, TracingService(c))>> : i \in {0} \cup DOMAIN c.action_sets}
          ELSE {})

Descriptors(c) == c.descriptor_service

\* What a factory makes the filter do.
Does(f) ==
    (UNION {{<<i, call>> : call \in f.index[i]} : i \in DOMAIN f.index})
    \cup {<<0, call>> : call \in f.fallback}

\* The descriptor keys of the services it calls.
KeysOf(f) == UNION {KeyOf(t[2].service) : t \in Does(f)}

Runs == [s \in Streams |-> {Does(f) : f \in streams[s]}]

Active == INSTANCE ActiveConfiguration
    WITH active <- Does(pipeline_factory), descriptors_from <- descriptor_service, streams <- Runs

-----------------------------------------------------------------------------
(* Properties.                                                             *)

\* Refinement: on_configure answers true exactly for well-formed
\* configurations, what it compiles does what was promised, a configuration
\* it rejects leaves the factory and the descriptor service alone (try_from
\* comes before the assignments of process_config), and the Rc a stream was
\* given is not changed under it.
ActiveSpec == Active!Spec

\* The descriptor manager knows the keys of every service that can still be
\* called, of streams that began under earlier configurations too: the keys
\* are announced to the one manager all factories share.
KeysKnown ==
    /\ KeysOf(pipeline_factory) \subseteq expected
    /\ \A s \in Streams : \A f \in streams[s] : KeysOf(f) \subseteq expected

\* What a factory does with the spans of a request.
Exports(f) == \E p \in f.fallback : p.service.type = "tracing" /\ p.service.upstream # NoUpstream

\* The levels that let the spans of a request and its tasks pass: they have the
\* level INFO.  Without a filter every span passes.
SpanLevels == {"TRACE", "DEBUG", "INFO"}
Records == otel_filter \in {"None"} \cup SpanLevels

\* A configuration with a header identifier whose tracing, if any, names a
\* tracing service: once it is accepted, spans are filtered by a level exactly
\* when the blueprints export them, and then the spans of requests are recorded
\* exactly when the configuration's default level asks for them.
\* init_observability and try_from read the same setting separately.
SpanFilterAgrees ==
    answer # NoAnswer /\ answer.accepted =>
        LET c == answer.config IN
        /\ c.header_identifier
        /\ c.tracing # Unconfigured =>
             c.tracing \in DOMAIN c.services /\ c.services[c.tracing].type = "tracing"
        => /\ (otel_filter # "None") = Exports(pipeline_factory)
           /\ Exports(pipeline_factory) => Records = (c.default_level \in SpanLevels)

\* What is in force can be used: its services have their descriptors looked
\* after, and if it exports spans, they are recorded at the level it asks for.
ConfigurationUsable == KeysKnown /\ SpanFilterAgrees
=============================================================================
