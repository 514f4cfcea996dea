--------------------------- MODULE FactoryProofs ---------------------------
(***************************************************************************)
(* Proofs about the pipeline factory.  Reconfiguration, for all            *)
(* configurations and streams: the descriptor keys in use are known, spans *)
(* are recorded when they are to be exported, and the root context         *)
(* implements ActiveConfiguration.  Routing, for all host names: the trie  *)
(* search finds the most specific patterns, and their action sets are      *)
(* tried in order.                                                         *)
(***************************************************************************)
EXTENDS Reconfiguration, Routing, WellFoundedInduction, TLAPS

-----------------------------------------------------------------------------
(* The compiler.                                                           *)

\* Action::compile and compile_typed accept an action exactly when its
\* expressions parse and it can call the service it names.
LEMMA ActionLemma ==
    ASSUME NEW c, NEW a
    PROVE  ~CompileActionFails(c, Translate(c, a)) <=>
             /\ a.valid
             /\ a.legacy \/ a.op = "grpc" =>
                  /\ a.service \in DOMAIN c.services
                  /\ c.services[a.service].type \in
                       (IF a.legacy THEN LegacyTypes ELSE DescriptorTypes)
                  /\ a.legacy => \A d \in c.request_data :
                       d.valid \/ (d.auth /\ c.services[a.service].type = "auth")
<1>1. CASE a.legacy /\ TypeOf(c, a) \in LegacyTypes
  BY <1>1 DEF CompileActionFails, CompileTypedFails, Translate, TranslateLegacy, TypeOf,
              LegacyTypes, DescriptorTypes
<1>2. CASE a.legacy /\ TypeOf(c, a) \notin LegacyTypes
  BY <1>2 DEF CompileActionFails, Translate, TypeOf, LegacyTypes
<1>3. CASE ~a.legacy
  BY <1>3 DEF CompileActionFails, CompileTypedFails, Translate, TypeOf,
              LegacyTypes, DescriptorTypes
<1>4. QED
  BY <1>1, <1>2, <1>3

\* try_from succeeds exactly for the well-formed configurations.
LEMMA AcceptsLemma ==
    ASSUME NEW c, c \notin Unparsable
    PROVE  ~TryFromFails(c) <=> WellFormed(c)
<1>1. ASSUME NEW i \in DOMAIN c.action_sets
      PROVE  ~CompileFails(c, c.action_sets[i]) <=>
               /\ c.action_sets[i].route_valid
               /\ \A id \in DOMAIN c.action_sets[i].actions :
                    ~CompileActionFails(c, Translate(c, c.action_sets[i].actions[id]))
  BY DEF CompileFails
<1>2. (\A n \in DOMAIN c.services : ~FromConfigFails(c.services[n])) <=>
      \A n \in DOMAIN c.services : c.services[n].type = "dynamic" => c.services[n].complete
  BY DEF FromConfigFails
<1>3. QED
  BY <1>1, <1>2, ActionLemma DEF TryFromFails, WellFormed, Callers

\* In a well-formed configuration the actions that end up as gRPC actions are
\* the ones that were to call a service.
LEMMA CallersLemma ==
    ASSUME NEW c, WellFormed(c), NEW i \in DOMAIN c.action_sets
    PROVE  {k \in DOMAIN c.action_sets[i].actions :
              Translate(c, c.action_sets[i].actions[k]).op = "grpc"} = Callers(c.action_sets[i])
<1>1. ASSUME NEW k \in DOMAIN c.action_sets[i].actions
      PROVE  Translate(c, c.action_sets[i].actions[k]).op = "grpc"
               <=> k \in Callers(c.action_sets[i])
  <2> DEFINE a == c.action_sets[i].actions[k]
  <2>1. CASE a.legacy
    <3>1. TypeOf(c, a) \in LegacyTypes
      BY <2>1 DEF WellFormed, Callers, TypeOf
    <3>2. QED
      BY <2>1, <3>1 DEF Translate, TranslateLegacy, Callers
  <2>2. CASE ~a.legacy
    BY <2>2 DEF Translate, Callers
  <2>3. QED
    BY <2>1, <2>2
<1>2. QED
  BY <1>1 DEF Callers

\* The calls a configuration promises: those of its actions and the identifier.
LEMMA PromisedLemma ==
    ASSUME NEW c, NEW t
    PROVE  t \in Promised(c) <=>
             \/ \E i \in DOMAIN c.action_sets : \E id \in Callers(c.action_sets[i]) :
                  t = <<i, Call(id, c.services[c.action_sets[i].actions[id].service])>>
             \/ /\ c.header_identifier
                /\ \E i \in {0} \cup DOMAIN c.action_sets :
                     t = <<i, Call(DevModeId, TracingService(c))>>
BY DEF Promised

\* A compiled factory does what its configuration promises.
LEMMA DoesLemma ==
    ASSUME NEW c, WellFormed(c)
    PROVE  Does(TryFrom(c)) = Promised(c)
<1> DEFINE f == TryFrom(c)
<1>1. ASSUME NEW i \in DOMAIN c.action_sets
      PROVE  Compile(c, c.action_sets[i]) =
               {Call(id, c.services[c.action_sets[i].actions[id].service]) :
                  id \in Callers(c.action_sets[i])}
  BY CallersLemma DEF Compile
<1>2. /\ DOMAIN f.index = DOMAIN c.action_sets
      /\ \A i \in DOMAIN c.action_sets :
           f.index[i] = Compile(c, c.action_sets[i]) \cup DevMode(c)
      /\ f.fallback = DevMode(c)
  BY DEF TryFrom
<1>3. ASSUME NEW t PROVE t \in Does(f) <=> t \in Promised(c)
  <2> DEFINE acts(i) == \E id \in Callers(c.action_sets[i]) :
                          t = <<i, Call(id, c.services[c.action_sets[i].actions[id].service])>>
             identifies(i) == c.header_identifier /\ t = <<i, Call(DevModeId, TracingService(c))>>
  <2>1. \A i : (\E p \in DevMode(c) : t = <<i, p>>) <=> identifies(i)
    BY DEF DevMode
  <2>2. \A i \in DOMAIN c.action_sets : (\E p \in Compile(c, c.action_sets[i]) : t = <<i, p>>) <=> acts(i)
    BY <1>1
  <2>3. t \in Does(f) <=>
          \/ \E i \in DOMAIN c.action_sets :
               \/ \E p \in Compile(c, c.action_sets[i]) : t = <<i, p>>
               \/ \E p \in DevMode(c) : t = <<i, p>>
          \/ \E p \in DevMode(c) : t = <<0, p>>
    <3> HIDE DEF f
    <3> QED
      BY <1>2 DEF Does
  <2>4. t \in Promised(c) <=>
          (\E i \in DOMAIN c.action_sets : acts(i) \/ identifies(i)) \/ identifies(0)
    <3>1. t \in Promised(c) <=>
            \/ \E i \in DOMAIN c.action_sets : acts(i)
            \/ /\ c.header_identifier
               /\ \E i \in {0} \cup DOMAIN c.action_sets :
                    t = <<i, Call(DevModeId, TracingService(c))>>
      BY PromisedLemma
    <3>2. QED
      BY <3>1
  <2> HIDE DEF acts, identifies, f
  <2>5. QED
    BY <2>1, <2>2, <2>3, <2>4
<1>4. QED
  BY <1>3 DEF Does, Promised

-----------------------------------------------------------------------------
(* Descriptor keys.                                                        *)

\* Everything an accepted configuration calls has been announced.
LEMMA AnnouncedLemma ==
    ASSUME NEW c, c \notin Unparsable, ~TryFromFails(c), NEW keys \in Announced(c)
    PROVE  KeysOf(TryFrom(c)) \subseteq keys
<1>1. WellFormed(c)
  BY AcceptsLemma
<1>2. keys = Keys(Instances(c))
  BY DEF Announced, TryFromFails, Instances
<1>3. ASSUME NEW t \in Promised(c) PROVE t[2].service \in Instances(c) \/ t[2].service = NoTracing
  <2>1. ASSUME NEW i \in DOMAIN c.action_sets, NEW id \in Callers(c.action_sets[i])
        PROVE  c.services[c.action_sets[i].actions[id].service] \in Instances(c)
    BY <1>1, <2>1 DEF WellFormed, Instances
  <2>2. TracingService(c) \in Instances(c) \/ TracingService(c) = NoTracing
    BY DEF TracingService, Instances
  <2>3. CASE \E i \in DOMAIN c.action_sets : \E id \in Callers(c.action_sets[i]) :
               t = <<i, Call(id, c.services[c.action_sets[i].actions[id].service])>>
    <3>1. PICK i \in DOMAIN c.action_sets : \E id \in Callers(c.action_sets[i]) :
               t = <<i, Call(id, c.services[c.action_sets[i].actions[id].service])>>
      BY <2>3
    <3>2. PICK id \in Callers(c.action_sets[i]) :
               t = <<i, Call(id, c.services[c.action_sets[i].actions[id].service])>>
      BY <3>1
    <3>3. t[2].service = c.services[c.action_sets[i].actions[id].service]
      BY <3>2 DEF Call
    <3>4. QED
      BY <2>1, <3>3
  <2>4. CASE \E i \in {0} \cup DOMAIN c.action_sets : t = <<i, Call(DevModeId, TracingService(c))>>
    BY <2>2, <2>4 DEF Call
  <2>5. QED
    BY <2>3, <2>4, PromisedLemma
<1>4. KeyOf(NoTracing) = {}
  BY DEF KeyOf, NoTracing, DescriptorTypes, LegacyTypes
<1>5. Does(TryFrom(c)) = Promised(c)
  BY <1>1, DoesLemma
<1>6. QED
  BY <1>2, <1>3, <1>4, <1>5 DEF KeysOf, Keys

\* KeysKnown: no configuration makes the manager forget a key that a stream
\* or the current factory may still ask it for.
THEOREM KeysKnownTheorem == Spec => []KeysKnown
<1>1. Init => KeysKnown
  BY DEF Init, KeysKnown, KeysOf, Does, DefaultFactory
<1>2. KeysKnown /\ [Next]_vars => KeysKnown'
  <2> SUFFICES ASSUME KeysKnown, [Next]_vars PROVE KeysKnown'
    OBVIOUS
  <2>1. ASSUME NEW c \in Configurations, OnConfigureUnparsable(c) PROVE KeysKnown'
    BY <2>1 DEF OnConfigureUnparsable, KeysKnown
  <2>2. ASSUME NEW c \in Configurations, OnConfigure(c) PROVE KeysKnown'
    <3>1. PICK keys \in Announced(c) : expected' = expected \cup keys
      BY <2>2 DEF OnConfigure, ProcessConfig, AddExpected
    <3>2. CASE TryFromFails(c)
      BY <2>2, <3>1, <3>2 DEF OnConfigure, ProcessConfig, KeysKnown
    <3>3. CASE ~TryFromFails(c)
      <4>1. KeysOf(TryFrom(c)) \subseteq keys
        BY <2>2, <3>3, AnnouncedLemma DEF OnConfigure, ProcessConfig
      <4>2. QED
        BY <2>2, <3>1, <3>3, <4>1 DEF OnConfigure, ProcessConfig, KeysKnown
    <3>4. QED
      BY <3>2, <3>3
  <2>3. ASSUME NEW s \in Streams, CreateHttpContext(s) PROVE KeysKnown'
    BY <2>3 DEF CreateHttpContext, KeysKnown
  <2>4. ASSUME NEW s \in Streams, Delete(s) PROVE KeysKnown'
    BY <2>4 DEF Delete, KeysKnown
  <2>5. CASE UNCHANGED vars
    BY <2>5 DEF vars, KeysKnown
  <2>6. QED
    BY <2>1, <2>2, <2>3, <2>4, <2>5 DEF Next
<1>3. QED
  BY <1>1, <1>2, PTL DEF Spec
-----------------------------------------------------------------------------
(* Spans.                                                                  *)

\* With a header identifier, a factory exports spans exactly when the tracing
\* setting names a tracing service; Tracing(None) exports nothing.
LEMMA ExportsLemma ==
    ASSUME NEW c \in Configurations \ Unparsable, c.header_identifier
    PROVE  Exports(TryFrom(c)) <=>
             c.tracing \in DOMAIN c.services /\ c.services[c.tracing].type = "tracing"
<1>1. TryFrom(c).fallback = {Call(DevModeId, TracingService(c))}
  BY DEF TryFrom, DevMode
<1>2. Call(DevModeId, TracingService(c)).service = TracingService(c)
  BY DEF Call
<1>3. Exports(TryFrom(c)) <=>
        TracingService(c).type = "tracing" /\ TracingService(c).upstream # NoUpstream
  BY <1>1, <1>2 DEF Exports
<1>4. CASE c.tracing \in DOMAIN c.services
  BY <1>3, <1>4, ServicesAssumption DEF TracingService
<1>5. CASE c.tracing \notin DOMAIN c.services
  BY <1>3, <1>5 DEF TracingService, NoTracing
<1>6. QED
  BY <1>4, <1>5

\* Until the host calls again, the span filter and the factory are both those
\* of the configuration that was just accepted.
JustAccepted ==
    answer # NoAnswer /\ answer.accepted =>
        /\ answer.config \in Configurations \ Unparsable
        /\ pipeline_factory = TryFrom(answer.config)
        /\ otel_filter = InitObservability(answer.config)

LEMMA JustAcceptedLemma == Spec => []JustAccepted
<1>1. Init => JustAccepted
  BY DEF Init, JustAccepted
<1>2. JustAccepted /\ [Next]_vars => JustAccepted'
  <2> SUFFICES ASSUME JustAccepted, [Next]_vars PROVE JustAccepted'
    OBVIOUS
  <2>1. ASSUME NEW c \in Configurations, OnConfigureUnparsable(c) PROVE JustAccepted'
    BY <2>1 DEF OnConfigureUnparsable, JustAccepted
  <2>2. ASSUME NEW c \in Configurations, OnConfigure(c) PROVE JustAccepted'
    BY <2>2 DEF OnConfigure, ProcessConfig, JustAccepted, InitObservability
  <2>3. ASSUME NEW s \in Streams, CreateHttpContext(s) \/ Delete(s) PROVE JustAccepted'
    BY <2>3 DEF CreateHttpContext, Delete, JustAccepted
  <2>4. CASE UNCHANGED vars
    BY <2>4 DEF vars, JustAccepted, InitObservability
  <2>5. QED
    BY <2>1, <2>2, <2>3, <2>4 DEF Next
<1>3. QED
  BY <1>1, <1>2, PTL DEF Spec

\* ConfigurationUsable: besides the keys, init_observability and try_from,
\* which read the tracing setting separately, agree on whether spans are
\* filtered by a level and exported, and the spans of requests pass the filter
\* exactly when the level that was asked for is INFO or a lower one.
THEOREM UsableTheorem == Spec => []ConfigurationUsable
<1>1. JustAccepted => SpanFilterAgrees
  <2> DEFINE c == answer.config
  <2> SUFFICES ASSUME JustAccepted, answer # NoAnswer, answer.accepted, c.header_identifier,
                      c.tracing # Unconfigured =>
                        c.tracing \in DOMAIN c.services /\ c.services[c.tracing].type = "tracing"
               PROVE  /\ (otel_filter # "None") = Exports(pipeline_factory)
                      /\ Exports(pipeline_factory) => Records = (c.default_level \in SpanLevels)
    BY DEF SpanFilterAgrees
  <2>1. c \in Configurations \ Unparsable
    BY DEF JustAccepted
  <2>2. otel_filter # "None" <=> c.tracing # Unconfigured
    BY DEF JustAccepted, InitObservability, Levels
  <2>3. Exports(pipeline_factory) <=>
          c.tracing \in DOMAIN c.services /\ c.services[c.tracing].type = "tracing"
    BY <2>1, ExportsLemma DEF JustAccepted
  <2>4. Unconfigured \notin DOMAIN c.services
    BY <2>1, ServicesAssumption
  <2>5. Exports(pipeline_factory) \in BOOLEAN
    BY DEF Exports
  <2>6. c.tracing # Unconfigured => (Records <=> c.default_level \in SpanLevels)
    BY DEF JustAccepted, InitObservability, Levels, SpanLevels, Records
  <2>7. Records \in BOOLEAN
    BY DEF Records
  <2> HIDE DEF c
  <2>8. QED
    BY <2>2, <2>3, <2>4, <2>5, <2>6, <2>7
<1>2. QED
  BY <1>1, KeysKnownTheorem, JustAcceptedLemma, PTL DEF ConfigurationUsable

-----------------------------------------------------------------------------
(* Refinement.                                                             *)

\* There is an Rc or there is none, for each stream.
StreamsOK == DOMAIN streams = Streams /\ streams = [s \in Streams |-> streams[s]]

LEMMA StreamsLemma == Spec => []StreamsOK
<1>1. Init => StreamsOK
  BY DEF Init, StreamsOK
<1>2. StreamsOK /\ [Next]_vars => StreamsOK'
  BY DEF StreamsOK, Next, vars, OnConfigureUnparsable, OnConfigure, CreateHttpContext, Delete
<1>3. QED
  BY <1>1, <1>2, PTL DEF Spec

\* The root context implements ActiveConfiguration: it accepts exactly the
\* well-formed configurations, replaces the one in force as a whole or not at
\* all, and never changes what a stream runs.
THEOREM RefinementTheorem == Spec => ActiveSpec
<1>1. Init => Active!Init
  <2>1. Does(DefaultFactory) = {}
    BY DEF Does, DefaultFactory
  <2>2. QED
    BY <2>1 DEF Init, Active!Init, Runs
<1>2. StreamsOK /\ [Next]_vars => [Active!Next]_Active!vars
  <2> SUFFICES ASSUME StreamsOK, [Next]_vars PROVE [Active!Next]_Active!vars
    OBVIOUS
  <2>1. ASSUME NEW c \in Configurations, OnConfigureUnparsable(c) PROVE Active!Offer(c)
    BY <2>1 DEF OnConfigureUnparsable, Active!Offer, WellFormed, Runs
  <2>2. ASSUME NEW c \in Configurations, OnConfigure(c) PROVE Active!Offer(c)
    <3>1. ~TryFromFails(c) <=> WellFormed(c)
      BY <2>2, AcceptsLemma DEF OnConfigure, ProcessConfig
    <3>2. answer' = [config |-> c, accepted |-> WellFormed(c)] /\ Runs' = Runs
      <4>1. WellFormed(c) \in BOOLEAN
        BY DEF WellFormed
      <4>2. (~TryFromFails(c)) = WellFormed(c)
        BY <3>1, <4>1
      <4>3. QED
        BY <2>2, <4>2 DEF OnConfigure, ProcessConfig, Runs
    <3>3. CASE WellFormed(c)
      BY <2>2, <3>1, <3>2, <3>3, DoesLemma DEF OnConfigure, ProcessConfig, Active!Offer, Descriptors
    <3>4. CASE ~WellFormed(c)
      BY <2>2, <3>1, <3>2, <3>4 DEF OnConfigure, ProcessConfig, Active!Offer
    <3>5. QED
      BY <3>3, <3>4
  <2>3. ASSUME NEW s \in Streams, CreateHttpContext(s) PROVE Active!Begin(s)
    <3>1. streams' = [streams EXCEPT ![s] = {pipeline_factory}] /\ streams[s] = {}
      BY <2>3 DEF CreateHttpContext
    <3>2. /\ Runs[s] = {}
          /\ Runs' = [Runs EXCEPT ![s] = {Does(pipeline_factory)}]
      <4>1. \A r \in Streams : streams'[r] = IF r = s THEN {pipeline_factory} ELSE streams[r]
        BY <3>1 DEF StreamsOK
      <4>2. {Does(f) : f \in {pipeline_factory}} = {Does(pipeline_factory)}
        OBVIOUS
      <4>3. \A r \in Streams : Runs'[r] = IF r = s THEN {Does(pipeline_factory)} ELSE Runs[r]
        BY <4>1, <4>2 DEF Runs
      <4>4. Runs[s] = {}
        BY <3>1 DEF Runs
      <4>5. QED
        BY <4>3, <4>4 DEF Runs
    <3>3. QED
      BY <2>3, <3>2 DEF CreateHttpContext, Active!Begin
  <2>4. ASSUME NEW s \in Streams, Delete(s) PROVE Active!End(s)
    <3>1. streams' = [streams EXCEPT ![s] = {}] /\ streams[s] # {}
      BY <2>4 DEF Delete
    <3>2. /\ Runs[s] # {}
          /\ Runs' = [Runs EXCEPT ![s] = {}]
      <4>1. \A r \in Streams : streams'[r] = IF r = s THEN {} ELSE streams[r]
        BY <3>1 DEF StreamsOK
      <4>2. {Does(f) : f \in {}} = {}
        OBVIOUS
      <4>3. \A r \in Streams : Runs'[r] = IF r = s THEN {} ELSE Runs[r]
        BY <4>1, <4>2 DEF Runs
      <4>4. Runs[s] # {}
        BY <3>1 DEF Runs
      <4>5. QED
        BY <4>3, <4>4 DEF Runs
    <3>3. QED
      BY <2>4, <3>2 DEF Delete, Active!End
  <2>5. CASE UNCHANGED vars
    BY <2>5 DEF vars, Active!vars, Runs
  <2>6. QED
    BY <2>1, <2>2, <2>3, <2>4, <2>5 DEF Next, Active!Next
<1>3. QED
  BY <1>1, <1>2, StreamsLemma, PTL DEF Spec, ActiveSpec, Active!Spec
-----------------------------------------------------------------------------
(* The index of host names.                                                *)

\* A set of numbers has a least element.
LEMMA Least ==
    ASSUME NEW T \in SUBSET Nat, T # {}
    PROVE  \E x \in T : \A y \in T : x <= y
<1> DEFINE R == OpToRel(<, Nat)
<1>1. \A x, y \in Nat : y < x => <<y, x>> \in R
  BY DEF OpToRel
<1>2. \E x \in T : \A y \in T : ~(<<y, x>> \in R)
  BY NatLessThanWellFounded, WFMin
<1> HIDE DEF R
<1>3. PICK x \in T : \A y \in T : ~(<<y, x>> \in R)
  BY <1>2
<1>4. \A y \in T : ~(y < x)
  BY <1>1, <1>3, Zenon
<1> QED
  BY <1>4

\* A set of numbers up to n has a greatest one.
LEMMA Greatest ==
    ASSUME NEW n \in Nat, NEW T \in SUBSET (0..n), T # {}
    PROVE  \E x \in T : \A y \in T : y <= x
<1> DEFINE U == {n - x : x \in T}
<1>1. U \in SUBSET Nat /\ U # {}
  <2>1. \A x \in T : n - x \in Nat
    OBVIOUS
  <2>2. PICK x \in T : TRUE
    OBVIOUS
  <2>3. n - x \in U
    OBVIOUS
  <2> QED
    BY <2>1, <2>3
<1> HIDE DEF U
<1>2. PICK u \in U : \A v \in U : u <= v
  BY <1>1, Least
<1>3. PICK x \in T : u = n - x
  BY DEF U
<1>4. ASSUME NEW y \in T PROVE y <= x
  <2>1. n - y \in U
    BY DEF U
  <2> QED
    BY <1>2, <1>3, <2>1
<1> QED
  BY <1>4

\* reverse_subdomain: a dot before each label, then the mark.
LEMMA KeyFacts ==
    ASSUME NEW l \in Seq(Labels), NEW w \in BOOLEAN
    PROVE  LET k == ReverseSubdomain(l, w) IN
           /\ k \in Seq(Labels \cup {".", "$"})
           /\ Len(k) = 2 * Len(l) + 1
           /\ \A i \in 1..Len(l) : k[2 * i - 1] = "." /\ k[2 * i] = l[i]
           /\ k[2 * Len(l) + 1] = IF w THEN "." ELSE "$"
<1> DEFINE n == Len(l)
           d == Dotted(l)
           m == IF w THEN "." ELSE "$"
<1>1. n \in Nat /\ \A i \in 1..n : l[i] \in Labels
  OBVIOUS
<1>2. \A i \in 1..(2 * n) : i % 2 = 1 \/ i \div 2 \in 1..n
  BY <1>1
<1>3. d \in Seq(Labels \cup {".", "$"}) /\ Len(d) = 2 * n
  BY <1>1, <1>2 DEF Dotted
<1>4. ASSUME NEW i \in 1..n PROVE d[2 * i - 1] = "." /\ d[2 * i] = l[i]
  <2>1. /\ 2 * i - 1 \in 1..(2 * n) /\ (2 * i - 1) % 2 = 1
        /\ 2 * i \in 1..(2 * n) /\ (2 * i) % 2 = 0 /\ (2 * i) \div 2 = i
    BY <1>1
  <2> QED
    BY <1>1, <2>1 DEF Dotted
<1>5. m \in Labels \cup {".", "$"}
  OBVIOUS
<1> HIDE DEF d, m
<1>6. /\ Append(d, m) \in Seq(Labels \cup {".", "$"})
      /\ Len(Append(d, m)) = 2 * n + 1
      /\ \A i \in 1..(2 * n) : Append(d, m)[i] = d[i]
      /\ Append(d, m)[2 * n + 1] = m
  BY <1>1, <1>3, <1>5
<1>7. \A i \in 1..n : 2 * i - 1 \in 1..(2 * n) /\ 2 * i \in 1..(2 * n)
  BY <1>1
<1>8. ReverseSubdomain(l, w) = Append(d, m)
  BY DEF ReverseSubdomain, d, m
<1> QED
  BY <1>4, <1>6, <1>7, <1>8, Zenon DEF m

\* What a prefix of a sequence is, position by position.
LEMMA PrefixFacts ==
    ASSUME NEW T, NEW s \in Seq(T), NEW t \in Seq(T)
    PROVE  IsPrefix(s, t) <=> Len(s) <= Len(t) /\ \A i \in 1..Len(s) : s[i] = t[i]
<1>1. CASE Len(s) <= Len(t)
  <2>1. /\ SubSeq(s, 1, Len(s)) \in Seq(T) /\ Len(SubSeq(s, 1, Len(s))) = Len(s)
        /\ SubSeq(t, 1, Len(s)) \in Seq(T) /\ Len(SubSeq(t, 1, Len(s))) = Len(s)
        /\ \A i \in 1..Len(s) : SubSeq(s, 1, Len(s))[i] = s[i] /\ SubSeq(t, 1, Len(s))[i] = t[i]
    BY <1>1
  <2> QED
    BY <1>1, <2>1 DEF IsPrefix
<1>2. CASE ~(Len(s) <= Len(t))
  BY <1>2 DEF IsPrefix
<1> QED
  BY <1>1, <1>2

Keyed == Labels \cup {".", "$"}

\* A prefix search of reversed names is a search by domain: the key of a
\* pattern is a prefix of the key of a host exactly if the pattern matches.
LEMMA PrefixMatches ==
    ASSUME NEW p \in [labels : Seq(Labels), wildcard : BOOLEAN], NEW h \in Seq(Labels)
    PROVE  IsPrefix(Key(p), ReverseSubdomain(h, FALSE)) <=> Matches(p, h)
<1> DEFINE l == p.labels
           n == Len(l)
           m == Len(h)
           k == Key(p)
           kh == ReverseSubdomain(h, FALSE)
<1>1. l \in Seq(Labels) /\ p.wildcard \in BOOLEAN /\ n \in Nat /\ m \in Nat
  OBVIOUS
<1>2. /\ k \in Seq(Keyed) /\ Len(k) = 2 * n + 1
      /\ \A i \in 1..n : k[2 * i - 1] = "." /\ k[2 * i] = l[i]
      /\ k[2 * n + 1] = IF p.wildcard THEN "." ELSE "$"
  BY <1>1, KeyFacts DEF Key, Keyed
<1>3. /\ kh \in Seq(Keyed) /\ Len(kh) = 2 * m + 1
      /\ \A i \in 1..m : kh[2 * i - 1] = "." /\ kh[2 * i] = h[i]
      /\ kh[2 * m + 1] = "$"
  BY KeyFacts DEF Keyed
<1>4. IsPrefix(l, h) <=> n <= m /\ \A i \in 1..n : l[i] = h[i]
  BY <1>1, PrefixFacts
<1>5. Matches(p, h) <=> /\ IF p.wildcard THEN n < m ELSE n = m
                        /\ \A i \in 1..n : l[i] = h[i]
  <2>1. CASE p.wildcard
    BY <1>1, <1>4, <2>1 DEF Matches
  <2>2. CASE ~p.wildcard
    <3>1. l = h <=> n = m /\ \A i \in 1..n : l[i] = h[i]
      BY <1>1
    <3> QED
      BY <2>2, <3>1 DEF Matches
  <2> QED
    BY <2>1, <2>2
<1> HIDE DEF k, kh
<1>6. IsPrefix(k, kh) <=> 2 * n + 1 <= 2 * m + 1 /\ \A j \in 1..(2 * n + 1) : k[j] = kh[j]
  <2>1. k \in Seq(Keyed) /\ kh \in Seq(Keyed)
    BY <1>2, <1>3
  <2>2. IsPrefix(k, kh) <=> Len(k) <= Len(kh) /\ \A j \in 1..Len(k) : k[j] = kh[j]
    BY <2>1, PrefixFacts
  <2> QED
    BY <1>2, <1>3, <2>2, Zenon
<1> HIDE DEF l, n, m
<1>7. ASSUME IsPrefix(k, kh) PROVE Matches(p, h)
  <2>1. n <= m /\ \A j \in 1..(2 * n + 1) : k[j] = kh[j]
    BY <1>1, <1>6, <1>7
  <2>2. ASSUME NEW i \in 1..n PROVE l[i] = h[i]
    <3>1. 2 * i \in 1..(2 * n + 1) /\ i \in 1..m
      BY <1>1, <2>1
    <3> QED
      BY <1>2, <1>3, <2>1, <3>1
  <2>3. 2 * n + 1 \in 1..(2 * n + 1) /\ kh[2 * n + 1] = IF p.wildcard THEN "." ELSE "$"
    BY <1>1, <1>2, <2>1
  <2>4. CASE n = m
    BY <1>1, <1>3, <1>5, <2>2, <2>3, <2>4
  <2>5. CASE n < m
    <3>1. n + 1 \in 1..m /\ 2 * (n + 1) - 1 = 2 * n + 1
      BY <1>1, <2>5
    <3>2. kh[2 * n + 1] = "."
      BY <1>3, <3>1
    <3> QED
      BY <1>5, <2>2, <2>3, <2>5, <3>2
  <2> QED
    BY <1>1, <2>1, <2>4, <2>5
<1>8. ASSUME Matches(p, h) PROVE IsPrefix(k, kh)
  <2>1. n <= m /\ \A i \in 1..n : l[i] = h[i]
    BY <1>1, <1>5, <1>8
  <2>2. ASSUME NEW j \in 1..(2 * n + 1) PROVE k[j] = kh[j]
    <3>1. CASE j = 2 * n + 1
      <4>1. CASE p.wildcard
        <5>1. n + 1 \in 1..m /\ 2 * (n + 1) - 1 = j
          BY <1>1, <1>5, <1>8, <3>1, <4>1
        <5> QED
          BY <1>2, <1>3, <3>1, <4>1, <5>1
      <4>2. CASE ~p.wildcard
        BY <1>1, <1>2, <1>3, <1>5, <1>8, <3>1, <4>2
      <4> QED
        BY <4>1, <4>2
    <3>2. CASE j # 2 * n + 1
      <4>1. PICK i \in 1..n : j = 2 * i - 1 \/ j = 2 * i
        <5>1. (j + 1) \div 2 \in 1..n
          BY <1>1, <3>2
        <5>2. j = 2 * ((j + 1) \div 2) - 1 \/ j = 2 * ((j + 1) \div 2)
          BY <1>1
        <5> QED
          BY <5>1, <5>2
      <4>2. i \in 1..m
        BY <1>1, <2>1
      <4>3. /\ k[2 * i - 1] = "." /\ kh[2 * i - 1] = "."
            /\ k[2 * i] = l[i] /\ kh[2 * i] = h[i] /\ l[i] = h[i]
        BY <1>2, <1>3, <2>1, <4>2, Zenon
      <4> QED
        BY <4>1, <4>3, Zenon
    <3> QED
      BY <3>1, <3>2
  <2> QED
    BY <1>1, <1>6, <2>1, <2>2
<1> QED
  BY <1>7, <1>8 DEF k, kh

-----------------------------------------------------------------------------
(* Patterns and action sets.                                               *)

\* The patterns of the configuration, and the state of the index.
IndexOK == hostnames \in [1..ActionSets -> SUBSET Hostnames]

\* Of two patterns that match a host the one with the longer key is the more
\* specific one.
LEMMA LongerIsMoreSpecific ==
    ASSUME NEW p \in [labels : Seq(Labels), wildcard : BOOLEAN],
           NEW q \in [labels : Seq(Labels), wildcard : BOOLEAN],
           NEW h \in Seq(Labels), Matches(p, h), Matches(q, h)
    PROVE  MoreSpecific(p, q) <=> Len(Key(p)) > Len(Key(q))
<1> DEFINE n == Len(p.labels)
           m == Len(q.labels)
<1>1. /\ p.labels \in Seq(Labels) /\ q.labels \in Seq(Labels)
      /\ p.wildcard \in BOOLEAN /\ q.wildcard \in BOOLEAN
      /\ n \in Nat /\ m \in Nat /\ Len(h) \in Nat
  OBVIOUS
<1>2. Len(Key(p)) = 2 * n + 1 /\ Len(Key(q)) = 2 * m + 1
  BY <1>1, KeyFacts DEF Key
<1>3. IF p.wildcard THEN n < Len(h) ELSE n = Len(h)
  BY DEF Matches
<1>4. IF q.wildcard THEN m < Len(h) ELSE m = Len(h)
  BY DEF Matches
<1>5. MoreSpecific(p, q) <=> (~p.wildcard /\ q.wildcard) \/ n > m
  BY DEF MoreSpecific
<1> HIDE DEF n, m
<1>6. (~p.wildcard /\ q.wildcard) => n > m
  BY <1>1, <1>3, <1>4
<1>7. n > m <=> 2 * n + 1 > 2 * m + 1
  BY <1>1
<1> QED
  BY <1>2, <1>5, <1>6, <1>7

\* A pattern of the configuration, its key and the hosts it matches.
LEMMA PatternFacts ==
    ASSUME IndexOK, NEW h \in Hosts
    PROVE  /\ h \in Seq(Labels)
           /\ ReverseSubdomain(h, FALSE) \in Seq(Keyed)
           /\ \A i \in 1..ActionSets : \A p \in hostnames[i] :
                /\ p \in [labels : Seq(Labels), wildcard : BOOLEAN]
                /\ Key(p) \in Seq(Keyed)
                /\ Key(p) \in IndexKeys
                /\ Key(p) \in Ancestors(IndexKeys, ReverseSubdomain(h, FALSE)) <=> Matches(p, h)
                /\ p \in MatchingPatterns(h) <=> Matches(p, h)
<1>1. h \in Seq(Labels)
  BY RoutingAssumption
<1>2. ReverseSubdomain(h, FALSE) \in Seq(Keyed)
  BY <1>1, KeyFacts DEF Keyed
<1>3. ASSUME NEW i \in 1..ActionSets, NEW p \in hostnames[i]
      PROVE  /\ p \in [labels : Seq(Labels), wildcard : BOOLEAN]
             /\ Key(p) \in Seq(Keyed)
             /\ Key(p) \in IndexKeys
             /\ Key(p) \in Ancestors(IndexKeys, ReverseSubdomain(h, FALSE)) <=> Matches(p, h)
             /\ p \in MatchingPatterns(h) <=> Matches(p, h)
  <2>1. p \in [labels : Seq(Labels), wildcard : BOOLEAN]
    BY RoutingAssumption DEF IndexOK
  <2>2. Key(p) \in Seq(Keyed)
    <3>1. p.labels \in Seq(Labels) /\ p.wildcard \in BOOLEAN
      BY <2>1
    <3> QED
      BY <3>1, KeyFacts DEF Key, Keyed
  <2>3. Key(p) \in IndexKeys
    BY DEF IndexKeys
  <2>4. Key(p) \in Ancestors(IndexKeys, ReverseSubdomain(h, FALSE)) <=> Matches(p, h)
    BY <1>1, <2>1, <2>3, PrefixMatches DEF Ancestors
  <2>5. p \in MatchingPatterns(h) <=> Matches(p, h)
    BY DEF MatchingPatterns
  <2> QED
    BY <2>1, <2>2, <2>3, <2>4, <2>5
<1> QED
  BY <1>1, <1>2, <1>3

\* get_ancestor_value: the trie search ends at one key, if any, and the action
\* sets under it are those with the most specific pattern for the host.
LEMMA AncestorIsMostSpecific ==
    ASSUME IndexOK, NEW h \in Hosts,
           NEW key \in GetAncestor(IndexKeys, ReverseSubdomain(h, FALSE))
    PROVE  Indexed(key) = Eligible(h) /\ Eligible(h) # {}
<1> DEFINE kh == ReverseSubdomain(h, FALSE)
           A == Ancestors(IndexKeys, kh)
<1>1. h \in Seq(Labels) /\ kh \in Seq(Keyed)
  BY PatternFacts
<1>2. key \in A /\ \A l \in A : Len(l) <= Len(key)
  BY DEF GetAncestor
<1>3. PICK i0 \in 1..ActionSets : \E p \in hostnames[i0] : key = Key(p)
  BY <1>2 DEF Ancestors, IndexKeys
<1>4. PICK p0 \in hostnames[i0] : key = Key(p0)
  BY <1>3
<1> HIDE DEF A
<1>5. key \in Seq(Keyed) /\ IsPrefix(key, kh)
  BY <1>2, <1>4, PatternFacts DEF A, Ancestors
<1>6. ASSUME NEW i \in 1..ActionSets, NEW p \in hostnames[i], Key(p) = key
      PROVE  p \in MostSpecific(h)
  <2>1. /\ p \in [labels : Seq(Labels), wildcard : BOOLEAN]
        /\ Matches(p, h) /\ p \in MatchingPatterns(h)
    BY <1>2, <1>6, PatternFacts DEF A
  <2>2. ASSUME NEW q \in MatchingPatterns(h) PROVE ~MoreSpecific(q, p)
    <3>1. PICK j \in 1..ActionSets : q \in hostnames[j] /\ Matches(q, h)
      BY DEF MatchingPatterns
    <3>2. q \in [labels : Seq(Labels), wildcard : BOOLEAN] /\ Key(q) \in A /\ Key(q) \in Seq(Keyed)
      BY <3>1, PatternFacts DEF A
    <3>3. Len(Key(q)) <= Len(key) /\ Len(Key(q)) \in Nat /\ Len(key) \in Nat
      BY <1>2, <1>5, <3>2
    <3>4. MoreSpecific(q, p) <=> Len(Key(q)) > Len(Key(p))
      BY <1>1, <2>1, <3>1, <3>2, LongerIsMoreSpecific
    <3> QED
      BY <1>6, <3>3, <3>4
  <2> QED
    BY <2>1, <2>2 DEF MostSpecific
<1>7. ASSUME NEW i \in 1..ActionSets, NEW p \in hostnames[i], p \in MostSpecific(h)
      PROVE  Key(p) = key
  <2>1. p0 \in MatchingPatterns(h) /\ Matches(p0, h)
    BY <1>2, <1>4, PatternFacts DEF A
  <2>2. p \in MatchingPatterns(h) /\ ~MoreSpecific(p0, p)
    BY <1>7, <2>1 DEF MostSpecific
  <2>3. Matches(p, h) /\ Key(p) \in A /\ Key(p) \in Seq(Keyed) /\ IsPrefix(Key(p), kh)
    BY <2>2, PatternFacts DEF A, Ancestors
  <2>4. ~(Len(key) > Len(Key(p)))
    <3>1. /\ p0 \in [labels : Seq(Labels), wildcard : BOOLEAN]
          /\ p \in [labels : Seq(Labels), wildcard : BOOLEAN]
      BY PatternFacts
    <3>2. MoreSpecific(p0, p) <=> Len(Key(p0)) > Len(Key(p))
      BY <1>1, <2>1, <2>3, <3>1, LongerIsMoreSpecific
    <3> QED
      BY <1>4, <2>2, <3>2
  <2>5. Len(key) = Len(Key(p))
    BY <1>2, <1>5, <2>3, <2>4
  <2> HIDE DEF kh
  <2>6. \A j \in 1..Len(key) : key[j] = kh[j]
    BY <1>1, <1>5, PrefixFacts
  <2>7. \A j \in 1..Len(key) : Key(p)[j] = kh[j]
    BY <1>1, <2>3, <2>5, PrefixFacts
  <2> QED
    BY <1>5, <2>3, <2>5, <2>6, <2>7
<1>8. Indexed(key) = Eligible(h)
  BY <1>6, <1>7 DEF Indexed, Eligible
<1>9. i0 \in Indexed(key)
  BY <1>4 DEF Indexed
<1> QED
  BY <1>8, <1>9

\* A host under none of whose keys there is an action set matches no pattern.
LEMMA NoAncestor ==
    ASSUME IndexOK, NEW h \in Hosts, GetAncestor(IndexKeys, ReverseSubdomain(h, FALSE)) = {}
    PROVE  Eligible(h) = {}
<1> DEFINE kh == ReverseSubdomain(h, FALSE)
           A == Ancestors(IndexKeys, kh)
           Lengths == {Len(k) : k \in A}
<1>1. kh \in Seq(Keyed) /\ Len(kh) \in Nat
  <2>1. kh \in Seq(Keyed)
    BY PatternFacts
  <2> HIDE DEF kh
  <2> QED
    BY <2>1
<1>2. ASSUME NEW k \in A PROVE Len(k) \in 0..Len(kh)
  <2>1. PICK i \in 1..ActionSets : \E p \in hostnames[i] : k = Key(p)
    BY DEF Ancestors, IndexKeys
  <2>2. k \in Seq(Keyed) /\ IsPrefix(k, kh)
    BY <2>1, PatternFacts DEF Ancestors
  <2> HIDE DEF kh
  <2> QED
    BY <1>1, <2>2, PrefixFacts
<1>3. A = {}
  <2> SUFFICES ASSUME A # {} PROVE FALSE
    OBVIOUS
  <2>1. Lengths \in SUBSET (0..Len(kh)) /\ Lengths # {}
    BY <1>2
  <2> HIDE DEF Lengths
  <2>2. PICK x \in Lengths : \A y \in Lengths : y <= x
    BY <1>1, <2>1, Greatest
  <2>3. PICK k \in A : x = Len(k)
    BY DEF Lengths
  <2>4. \A l \in A : Len(l) <= Len(k)
    BY <2>2, <2>3 DEF Lengths
  <2>5. k \in GetAncestor(IndexKeys, kh)
    BY <2>4 DEF GetAncestor
  <2> QED
    BY <2>5
<1>4. ASSUME NEW i \in 1..ActionSets, NEW p \in hostnames[i] PROVE p \notin MatchingPatterns(h)
  BY <1>3, PatternFacts
<1> QED
  BY <1>4 DEF Eligible, MostSpecific

-----------------------------------------------------------------------------
(* Selecting a blueprint.                                                  *)

\* While candidates are tried, those that were tried did not match, and they
\* and the others are the action sets with the most specific pattern.
Selecting ==
    result = "selecting" =>
        /\ host \in Hosts
        /\ candidates \subseteq 1..ActionSets
        /\ candidates \cup DOMAIN verdicts = Eligible(host)
        /\ Eligible(host) # {}
        /\ \A i \in DOMAIN verdicts : verdicts[i] = "false"

RInv == IndexOK /\ Selecting /\ RouteIsMostSpecific /\ UnroutedIsUnmatched

LEMMA InitRInv == RoutingInit => RInv
BY DEF RoutingInit, RInv, IndexOK, Selecting, RouteIsMostSpecific, UnroutedIsUnmatched

\* The host names do not change, nor what they mean.
LEMMA SameEligible ==
    ASSUME hostnames' = hostnames
    PROVE  \A h : Eligible(h)' = Eligible(h)
BY DEF Eligible, MostSpecific, MatchingPatterns

LEMMA SelectRInv ==
    ASSUME RInv, NEW h \in Hosts \cup {NoHost}, SelectBlueprint(h)
    PROVE  RInv'
<1> DEFINE found == GetAncestor(IndexKeys, ReverseSubdomain(h, FALSE))
<1>1. hostnames' = hostnames /\ host' = h /\ IndexOK /\ IndexOK'
  BY DEF SelectBlueprint, RInv, IndexOK
<1>2. verdicts' = <<>> /\ DOMAIN verdicts' = {}
  BY DEF SelectBlueprint
<1>3. CASE h = NoHost
  <2>1. result' = "error"
    BY <1>3 DEF SelectBlueprint
  <2> QED
    BY <1>1, <2>1 DEF RInv, Selecting, RouteIsMostSpecific, UnroutedIsUnmatched
<1>4. CASE h # NoHost /\ found = {}
  <2>1. result' = "none" /\ h \in Hosts
    BY <1>4 DEF SelectBlueprint
  <2>2. Eligible(h) = {} /\ Eligible(host)' = {}
    BY <1>1, <1>4, <2>1, NoAncestor, SameEligible
  <2> QED
    BY <1>1, <1>2, <2>1, <2>2 DEF RInv, Selecting, RouteIsMostSpecific, UnroutedIsUnmatched
<1>5. CASE h # NoHost /\ found # {}
  <2> DEFINE key == CHOOSE k \in found : TRUE
  <2>1. result' = "selecting" /\ h \in Hosts /\ candidates' = Indexed(key)
    BY <1>5 DEF SelectBlueprint
  <2>2. key \in found
    BY <1>5
  <2> HIDE DEF key
  <2>3. Indexed(key) = Eligible(h) /\ Eligible(h) # {}
    BY <1>1, <2>1, <2>2, AncestorIsMostSpecific
  <2>4. Eligible(host)' = Eligible(h) /\ candidates' \subseteq 1..ActionSets
    BY <1>1, <2>1, SameEligible DEF Indexed
  <2> QED
    BY <1>1, <1>2, <2>1, <2>3, <2>4 DEF RInv, Selecting, RouteIsMostSpecific, UnroutedIsUnmatched
<1> QED
  BY <1>3, <1>4, <1>5

LEMMA MatchRInv ==
    ASSUME RInv, NEW verdict \in {"true", "false", "error"}, RoutePredicatesMatch(verdict)
    PROVE  RInv'
<1> DEFINE c == NextCandidate
<1>1. /\ hostnames' = hostnames /\ host' = host /\ fallback' = fallback /\ IndexOK'
      /\ result = "selecting" /\ candidates # {}
  BY DEF RoutePredicatesMatch, RInv, IndexOK
<1>2. /\ host \in Hosts /\ candidates \subseteq 1..ActionSets
      /\ candidates \cup DOMAIN verdicts = Eligible(host) /\ Eligible(host) # {}
      /\ \A i \in DOMAIN verdicts : verdicts[i] = "false"
  BY <1>1 DEF RInv, Selecting
<1>3. c \in candidates /\ \A i \in candidates : c <= i
  <2>1. \E x \in candidates : \A y \in candidates : x <= y
    <3>1. candidates \in SUBSET Nat
      BY <1>2
    <3> QED
      BY <1>1, <3>1, Least
  <2> QED
    BY <2>1 DEF NextCandidate, Min
<1>4. Eligible(host)' = Eligible(host)
  BY <1>1, SameEligible
<1>5. /\ verdicts' = [i \in DOMAIN verdicts \cup {c} |-> IF i = c THEN verdict ELSE verdicts[i]]
      /\ candidates' = candidates \ {c}
      /\ result' = CASE verdict = "true"  -> "blueprint"
                     [] verdict = "error" -> "error"
                     [] OTHER             -> "selecting"
      /\ selected' = IF verdict = "true" THEN c ELSE 0
  BY DEF RoutePredicatesMatch
<1> HIDE DEF c
<1>6. CASE verdict = "true"
  <2>1. result' = "blueprint" /\ selected' = c
    BY <1>5, <1>6
  <2>2. c \in Eligible(host)
    BY <1>2, <1>3
  <2>3. ASSUME NEW i \in Eligible(host), i < c PROVE i \in DOMAIN verdicts' /\ verdicts'[i] = "false"
    <3>1. i \in Nat /\ c \in Nat
      BY <1>2, <1>3, RoutingAssumption DEF Eligible
    <3>2. i \notin candidates /\ i # c
      BY <1>3, <2>3, <3>1
    <3>3. i \in DOMAIN verdicts /\ verdicts[i] = "false"
      BY <1>2, <3>2
    <3> QED
      BY <1>5, <3>2, <3>3
  <2> QED
    BY <1>1, <1>4, <2>1, <2>2, <2>3 DEF RInv, Selecting, RouteIsMostSpecific, UnroutedIsUnmatched
<1>7. CASE verdict = "error"
  <2>1. result' = "error"
    BY <1>5, <1>7
  <2> QED
    BY <1>1, <2>1 DEF RInv, Selecting, RouteIsMostSpecific, UnroutedIsUnmatched
<1>8. CASE verdict = "false"
  <2>1. result' = "selecting"
    BY <1>5, <1>8
  <2>2. /\ candidates' \cup DOMAIN verdicts' = Eligible(host)
        /\ \A i \in DOMAIN verdicts' : verdicts'[i] = "false"
    BY <1>2, <1>3, <1>5, <1>8
  <2> QED
    BY <1>1, <1>2, <1>4, <1>5, <2>1, <2>2
       DEF RInv, Selecting, RouteIsMostSpecific, UnroutedIsUnmatched
<1> QED
  BY <1>6, <1>7, <1>8

LEMMA NoMatchRInv ==
    ASSUME RInv, NoCandidateMatches
    PROVE  RInv'
<1>1. /\ hostnames' = hostnames /\ host' = host /\ fallback' = fallback /\ IndexOK'
      /\ verdicts' = verdicts
      /\ result = "selecting" /\ candidates = {}
      /\ result' = IF fallback THEN "fallback" ELSE "none"
  BY DEF NoCandidateMatches, RInv, IndexOK
<1>2. /\ DOMAIN verdicts = Eligible(host) /\ Eligible(host) # {}
      /\ \A i \in DOMAIN verdicts : verdicts[i] = "false"
  BY <1>1 DEF RInv, Selecting
<1>3. Eligible(host)' = Eligible(host)
  BY <1>1, SameEligible
<1> QED
  BY <1>1, <1>2, <1>3 DEF RInv, Selecting, RouteIsMostSpecific, UnroutedIsUnmatched

LEMMA NextRInv == RInv /\ [RoutingNext]_routing => RInv'
<1> SUFFICES ASSUME RInv, [RoutingNext]_routing PROVE RInv'
  OBVIOUS
<1>1. ASSUME NEW h \in Hosts \cup {NoHost}, SelectBlueprint(h) PROVE RInv'
  BY <1>1, SelectRInv
<1>2. ASSUME NEW verdict \in {"true", "false", "error"}, RoutePredicatesMatch(verdict) PROVE RInv'
  BY <1>2, MatchRInv
<1>3. CASE NoCandidateMatches
  BY <1>3, NoMatchRInv
<1>4. CASE UNCHANGED routing
  <2>1. \A h : Eligible(h)' = Eligible(h)
    BY <1>4, SameEligible DEF routing
  <2> QED
    BY <1>4, <2>1 DEF routing, RInv, IndexOK, Selecting, RouteIsMostSpecific, UnroutedIsUnmatched
<1> QED
  BY <1>1, <1>2, <1>3, <1>4 DEF RoutingNext

\* RouteIsMostSpecific: whatever the host names, select_blueprint takes the
\* first action set with the most specific pattern whose predicates hold.
THEOREM RoutesAreMostSpecific == RoutingSpec => []RouteIsMostSpecific
<1>1. RInv => RouteIsMostSpecific
  BY DEF RInv
<1> QED
  BY <1>1, InitRInv, NextRInv, PTL DEF RoutingSpec

\* UnroutedIsUnmatched: no action set of the host is passed over, and the
\* fallback is for hosts that have some.
THEOREM UnroutedMatchNothing == RoutingSpec => []UnroutedIsUnmatched
<1>1. RInv => UnroutedIsUnmatched
  BY DEF RInv
<1> QED
  BY <1>1, InitRInv, NextRInv, PTL DEF RoutingSpec
=============================================================================
