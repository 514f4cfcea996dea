------------------------- MODULE DescriptorManager -------------------------
(***************************************************************************)
(* The gRPC descriptor cache of the plugin (src/src/filter/                *)
(* descriptor_manager.rs) together with its only driver, the root context  *)
(* of the filter (src/src/filter/root_context.rs).                         *)
(*                                                                         *)
(* A key names a gRPC service at a cluster.  A file stands for the bytes   *)
(* of a FileDescriptorSet; the pools of the code are indexed by a 64-bit   *)
(* hash of those bytes, which is identified with the file here.            *)
(***************************************************************************)
EXTENDS Naturals, FiniteSets

CONSTANTS
    Keys,          \* DescriptorKey: (cluster, service) pairs
    Files,         \* contents of file descriptor sets, good and bad ones
    Provides,      \* <<k, f>>: f decodes, builds a pool and has k's service
    EmbeddedFile,  \* [keys with an embedded service -> its embedded file]
    Configs,       \* plugin configurations: the sets of keys they use
    Tokens,        \* identifiers of gRPC calls in flight
    NoFile, NoConfig,
    Unsolicited    \* may an answer carry keys that its call did not ask for?

EmbeddedKeys == DOMAIN EmbeddedFile

\* The descriptors compiled into the plugin contain the services they are for.
ASSUME ConstantsAssumption ==
    /\ Provides \subseteq Keys \X Files
    /\ EmbeddedKeys \subseteq Keys
    /\ \A k \in EmbeddedKeys : <<k, EmbeddedFile[k]>> \in Provides
    /\ Configs \subseteq SUBSET Keys
    /\ NoFile \notin Files
    /\ NoConfig \notin Configs
    /\ Unsolicited \in BOOLEAN

VARIABLES
    descriptors,   \* state of every key
    pools,         \* the files for which a pool is cached
    factory,       \* the configuration the pipeline factory was built from
    tick_enabled,  \* does the host call on_tick?
    cel_env,       \* the file each service of the factory built its Env from
    calls          \* host: the keys asked for by each call in flight

vars == <<descriptors, pools, factory, tick_enabled, cel_env, calls>>

Absent == [tag |-> "Absent"]
Embedded(f) == [tag |-> "Embedded", file |-> f]
Missing == [tag |-> "Missing"]
Pending(t) == [tag |-> "Pending", token |-> t]
Resolved(f) == [tag |-> "Resolved", file |-> f]

DescriptorState ==
    {Absent, Missing} \cup {Embedded(f) : f \in Files} \cup {Resolved(f) : f \in Files}
                      \cup {Pending(t) : t \in Tokens}

\* Every variable holds a value of its type in the code; a call is in flight
\* exactly when it asked for something (fetch_missing sends no empty request).
TypeOK ==
    /\ descriptors \in [Keys -> DescriptorState]
    /\ pools \subseteq Files
    /\ factory \in Configs \cup {NoConfig}
    /\ tick_enabled \in BOOLEAN
    /\ cel_env \in [Keys -> Files \cup {NoFile}]
    /\ calls \in [Tokens -> SUBSET Keys]

-----------------------------------------------------------------------------
(* Operations of the manager.                                              *)

\* Mutant: pools indexed by the key instead of the contents.
RegisterByKey == EmbeddedKeys

\* DescriptorManager::default registers the embedded services' pools.
RegisterEmbedded == {EmbeddedFile[k] : k \in EmbeddedKeys}

\* Mutant: insert instead of or_insert.
AddExpectedOverwrites(d, ks) ==
    [k \in Keys |->
        IF k \in ks
        THEN IF k \in EmbeddedKeys THEN Embedded(EmbeddedFile[k]) ELSE Missing
        ELSE d[k]]

\* or_insert: a key that is already known keeps its state.
AddExpected(d, ks) ==
    [k \in Keys |->
        IF k \in ks /\ d[k] = Absent
        THEN IF k \in EmbeddedKeys THEN Embedded(EmbeddedFile[k]) ELSE Missing
        ELSE d[k]]

HasExpected(d) == \E k \in Keys : d[k].tag \in {"Missing", "Pending", "Resolved"}

\* Mutant: keys that were asked for are asked for again.
GetMissingOrPending(d) == {k \in Keys : d[k].tag \in {"Missing", "Pending"}}

GetMissing(d) == {k \in Keys : d[k] = Missing}

\* The file of the pool a service is given, NoFile for DescriptorError.
GetPool(k) ==
    IF /\ descriptors[k].tag \in {"Embedded", "Resolved"}
       /\ descriptors[k].file \in pools
    THEN descriptors[k].file
    ELSE NoFile

\* Ask for everything that is missing, unless the host refuses the call.
FetchMissing(d, accepted) ==
    IF GetMissing(d) # {} /\ accepted
    THEN \E t \in Tokens :
            /\ calls[t] = {}
            /\ calls' = [calls EXCEPT ![t] = GetMissing(d)]
            /\ descriptors' = [k \in Keys |-> IF k \in GetMissing(d) THEN Pending(t) ELSE d[k]]
    ELSE /\ descriptors' = d
         /\ UNCHANGED calls

\* Mutant: on_grpc_call_response without its reset_pending.
ResetPendingForgotten(d, t) == d

ResetPending(d, t) == [k \in Keys |-> IF d[k] = Pending(t) THEN Missing ELSE d[k]]

HasPending(d, t) == \E k \in Keys : d[k] = Pending(t)

\* Mutant: descriptors are not searched for the service they are for.
UsableUnchecked(d, answer) == {e \in answer : d[e[1]].tag # "Embedded"}

\* The usable descriptors of an answer: those of embedded keys are ignored.
Usable(d, answer) == {e \in answer \cap Provides : d[e[1]].tag # "Embedded"}

\* last[k] is the file of the last usable descriptor for k in the answer.
InsertPools(d, last) ==
    [k \in Keys |-> IF k \in DOMAIN last THEN Resolved(last[k]) ELSE d[k]]

-----------------------------------------------------------------------------
(* Callbacks of the root context.                                          *)

Init ==
    /\ descriptors = [k \in Keys |-> Absent]
    /\ pools = RegisterEmbedded
    /\ factory = NoConfig
    /\ tick_enabled = FALSE
    /\ cel_env = [k \in Keys |-> NoFile]
    /\ calls = [t \in Tokens |-> {}]

\* process_config, compilation failed: the services created before the error
\* have already announced their keys.
ConfigureFails(config) ==
    \E ks \in SUBSET config :
        /\ descriptors' = AddExpected(descriptors, ks)
        /\ UNCHANGED <<pools, factory, tick_enabled, cel_env, calls>>

\* process_config: a new factory has new services, with an empty cel_env.
Configure(config, accepted, tickSet) ==
    LET expected == AddExpected(descriptors, config)
    IN  /\ factory' = config
        /\ cel_env' = [k \in Keys |-> NoFile]
        /\ FetchMissing(expected, accepted)
        /\ tick_enabled' = IF tickSet THEN HasExpected(expected) ELSE tick_enabled
        /\ UNCHANGED pools

OnConfigure ==
    \E config \in Configs :
        \/ ConfigureFails(config)
        \/ \E accepted, tickSet \in BOOLEAN : Configure(config, accepted, tickSet)

OnTick(accepted) ==
    /\ tick_enabled
    /\ FetchMissing(descriptors, accepted)
    /\ UNCHANGED <<pools, factory, tick_enabled, cel_env>>

\* The call failed or timed out, or its body could not be read or decoded, or
\* no key waits for its token any more: only reset_pending has an effect.
ResponseFails(t) ==
    /\ calls[t] # {}
    /\ calls' = [calls EXCEPT ![t] = {}]
    /\ descriptors' = ResetPending(descriptors, t)
    /\ UNCHANGED <<pools, factory, tick_enabled, cel_env>>

\* handle_response, then reset_pending: usable descriptors are kept even when
\* others of the same answer are not.
HandleResponse(t, answer) ==
    LET usable   == Usable(descriptors, answer)
        answered == {e[1] : e \in usable}
    IN  /\ calls[t] # {}
        /\ HasPending(descriptors, t)
        /\ calls' = [calls EXCEPT ![t] = {}]
        /\ \E last \in [answered -> Files] :
              /\ \A k \in answered : <<k, last[k]>> \in usable
              /\ descriptors' = ResetPending(InsertPools(descriptors, last), t)
        /\ pools' = pools \cup {e[2] : e \in usable}
        /\ UNCHANGED <<factory, tick_enabled, cel_env>>

Answers(t) == SUBSET ((IF Unsolicited THEN Keys ELSE calls[t]) \X Files)

OnGrpcCallResponse(t) ==
    \/ ResponseFails(t)
    \/ \E answer \in Answers(t) : HandleResponse(t, answer)

\* DynamicService::cel_env: built once per service from the cached pool.
CelEnv(k) ==
    /\ factory # NoConfig
    /\ k \in factory
    /\ cel_env[k] = NoFile
    /\ GetPool(k) # NoFile
    /\ cel_env' = [cel_env EXCEPT ![k] = GetPool(k)]
    /\ UNCHANGED <<descriptors, pools, factory, tick_enabled, calls>>

Next ==
    \/ OnConfigure
    \/ \E accepted \in BOOLEAN : OnTick(accepted)
    \/ \E t \in Tokens : OnGrpcCallResponse(t)
    \/ \E k \in Keys : CelEnv(k)

Spec == Init /\ [][Next]_vars

-----------------------------------------------------------------------------
(* Properties.                                                             *)

\* A key is Pending only while the call that asked for it is in flight, so
\* the callback that ends it (reset_pending always runs) is still to come.
PendingHasCall ==
    \A k \in Keys, t \in Tokens : descriptors[k] = Pending(t) => k \in calls[t]

\* No key is asked for by two calls at once, whatever the order of ticks,
\* configurations and answers (fetch_missing takes Missing keys only), and
\* keys with embedded descriptors are never asked for.
NoDuplicateFetch ==
    /\ \A t, u \in Tokens : t # u => calls[t] \cap calls[u] = {}
    /\ \A t \in Tokens : calls[t] \cap EmbeddedKeys = {}

\* get_pool never fails for a key that is Embedded or Resolved, and the pool
\* it returns has the service of the key, so method_descriptor and
\* parse_message find it.
PoolServesKey ==
    \A k \in Keys :
        descriptors[k].tag \in {"Embedded", "Resolved"} => <<k, GetPool(k)>> \in Provides

\* The CEL environment a service caches forever (OnceCell) was built from the
\* descriptors that dispatch_value and parse_message use.  Holds when answers
\* carry only what was asked for.
EnvMatchesPool ==
    \A k \in Keys : cel_env[k] # NoFile => cel_env[k] = GetPool(k)

\* The promise of the cache, with get_pool as the refinement mapping.
Registry ==
    INSTANCE DescriptorRegistry WITH available <- [k \in Keys |-> GetPool(k)]
RegistrySpec == Registry!Spec

-----------------------------------------------------------------------------
(* Liveness: the host ticks while a tick period is set and takes the call, *)
(* every call is answered or times out, and a descriptor service that is   *)
(* asked for a key again and again at last sends usable descriptors.       *)

GoodAnswer(k) ==
    \E t \in Tokens : \E answer \in Answers(t) :
        /\ descriptors[k] = Pending(t)
        /\ \E f \in Files : <<k, f>> \in answer \cap Provides
        /\ HandleResponse(t, answer)

Fairness ==
    /\ WF_vars(OnTick(TRUE))
    /\ \A t \in Tokens : WF_vars(OnGrpcCallResponse(t))
    /\ \A k \in Keys : SF_vars(GoodAnswer(k))

FairSpec == Spec /\ Fairness

\* Once the retry tick runs, every key that some file can serve becomes
\* available and stays so: failed fetches, timeouts, partial answers and
\* reconfigurations only delay it.
EventuallyResolved ==
    \A k \in Keys :
        (\E f \in Files : <<k, f>> \in Provides)
          => ((tick_enabled /\ descriptors[k] # Absent) ~> [](GetPool(k) # NoFile))
=============================================================================
