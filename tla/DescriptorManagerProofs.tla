---------------------- MODULE DescriptorManagerProofs ----------------------
(***************************************************************************)
(* Proofs about the descriptor cache, for all sets of keys, files,         *)
(* configurations and calls, and about the walk that registers the types   *)
(* of a descriptor, for every way in which they refer to each other.       *)
(***************************************************************************)
EXTENDS DescriptorManager, TypeRegistry, TLAPS

\* What the operations of the manager keep true of the states d of the keys,
\* the calls c in flight and the pools p.  A key that was asked for stays
\* Pending until its call ends, or is Resolved by a descriptor that another
\* call volunteered; a key with a pool has one that serves it.
Consistent(d, c, p) ==
    /\ d \in [Keys -> DescriptorState]
    /\ c \in [Tokens -> SUBSET Keys]
    /\ \A k \in Keys, t \in Tokens : d[k] = Pending(t) => k \in c[t]
    /\ \A t \in Tokens : \A k \in c[t] : d[k] = Pending(t) \/ d[k].tag = "Resolved"
    /\ \A t, u \in Tokens : t # u => c[t] \cap c[u] = {}
    /\ \A t \in Tokens : c[t] \cap EmbeddedKeys = {}
    /\ \A k \in EmbeddedKeys : d[k].tag \in {"Absent", "Embedded", "Resolved"}
    /\ RegisterEmbedded \subseteq p
    /\ \A k \in Keys : d[k].tag \in {"Embedded", "Resolved"} =>
          d[k].file \in p /\ <<k, d[k].file>> \in Provides

\* The inductive invariant.
IInv == TypeOK /\ Consistent(descriptors, calls, pools)

-----------------------------------------------------------------------------
(* The states of a key, by their tags.  The proofs below use these facts   *)
(* and not the records.                                                    *)

\* The tag and the fields of a state tell states apart.
LEMMA StateFields ==
  /\ Absent.tag = "Absent" /\ Missing.tag = "Missing"
  /\ \A f : Embedded(f).tag = "Embedded" /\ Embedded(f).file = f
  /\ \A f : Resolved(f).tag = "Resolved" /\ Resolved(f).file = f
  /\ \A t : Pending(t).tag = "Pending" /\ Pending(t).token = t
  BY DEF Absent, Missing, Embedded, Resolved, Pending

\* A state is one of the five forms.
LEMMA StateForms ==
  ASSUME NEW s
  PROVE  s \in DescriptorState <=>
            \/ s = Absent \/ s = Missing
            \/ \E f \in Files : s = Embedded(f) \/ s = Resolved(f)
            \/ \E t \in Tokens : s = Pending(t)
  BY DEF DescriptorState

-----------------------------------------------------------------------------
(* Each operation of the manager keeps the states consistent.              *)

\* add_expected: a key that was not known becomes Embedded or Missing.
LEMMA AddExpectedConsistent ==
  ASSUME NEW d, NEW c, NEW p, NEW ks, Consistent(d, c, p)
  PROVE  Consistent(AddExpected(d, ks), c, p)
<1> DEFINE e == AddExpected(d, ks)
<1>1. \A k \in EmbeddedKeys : /\ k \in Keys /\ EmbeddedFile[k] \in Files
                              /\ EmbeddedFile[k] \in p
                              /\ <<k, EmbeddedFile[k]>> \in Provides
  BY ConstantsAssumption DEF Consistent, RegisterEmbedded
<1>2. \A k \in Keys : \/ e[k] = d[k]
                      \/ d[k] = Absent /\ k \in EmbeddedKeys /\ e[k] = Embedded(EmbeddedFile[k])
                      \/ d[k] = Absent /\ k \notin EmbeddedKeys /\ e[k] = Missing
  BY DEF AddExpected
<1>3. e \in [Keys -> DescriptorState]
  BY <1>1, StateForms DEF AddExpected, Consistent
<1> HIDE DEF e
<1>4. \A k \in Keys, t \in Tokens : e[k] = Pending(t) => k \in c[t]
  BY <1>2, StateFields DEF Consistent
<1>5. \A t \in Tokens : \A k \in c[t] : e[k] = Pending(t) \/ e[k].tag = "Resolved"
  BY <1>2, StateFields DEF Consistent
<1>6. \A k \in EmbeddedKeys : e[k].tag \in {"Absent", "Embedded", "Resolved"}
  <2> TAKE k \in EmbeddedKeys
  <2>1. e[k] = d[k] \/ e[k] = Embedded(EmbeddedFile[k])
    BY <1>1, <1>2
  <2>2. Embedded(EmbeddedFile[k]).tag = "Embedded"
    BY StateFields
  <2> QED
    BY <2>1, <2>2 DEF Consistent
<1>7. \A k \in Keys : e[k].tag \in {"Embedded", "Resolved"} =>
          e[k].file \in p /\ <<k, e[k].file>> \in Provides
  BY <1>1, <1>2, StateFields DEF Consistent
<1>8. Consistent(e, c, p)
  BY <1>3, <1>4, <1>5, <1>6, <1>7 DEF Consistent
<1> QED
  BY <1>8 DEF e

\* fetch_missing: the missing keys become Pending on a token that was free, and
\* no call in flight has asked for any of them.
LEMMA FetchMissingConsistent ==
  ASSUME NEW d, NEW p, NEW accepted, Consistent(d, calls, p), FetchMissing(d, accepted)
  PROVE  Consistent(descriptors', calls', p)
<1>1. CASE GetMissing(d) # {} /\ accepted
  <2>1. PICK t \in Tokens :
            /\ calls[t] = {}
            /\ calls' = [calls EXCEPT ![t] = GetMissing(d)]
            /\ descriptors' = [k \in Keys |-> IF k \in GetMissing(d) THEN Pending(t) ELSE d[k]]
    BY <1>1 DEF FetchMissing
  <2>2. /\ GetMissing(d) \subseteq Keys
        /\ \A k \in Keys : k \in GetMissing(d) <=> d[k] = Missing
    BY DEF GetMissing
  <2>3. /\ calls' \in [Tokens -> SUBSET Keys]
        /\ calls'[t] = GetMissing(d)
        /\ \A u \in Tokens : u # t => calls'[u] = calls[u]
    BY <2>1, <2>2 DEF Consistent
  <2>4. \A u \in Tokens : calls[u] \cap GetMissing(d) = {}
    BY <2>2, StateFields DEF Consistent
  <2>5. GetMissing(d) \cap EmbeddedKeys = {}
    BY <2>2, StateFields DEF Consistent
  <2>6. descriptors' \in [Keys -> DescriptorState]
    BY <2>1, StateForms DEF Consistent
  <2>7. \A k \in Keys : \/ k \in GetMissing(d) /\ descriptors'[k] = Pending(t)
                        \/ k \notin GetMissing(d) /\ descriptors'[k] = d[k]
    BY <2>1
  <2>8. \A k \in Keys, u \in Tokens : descriptors'[k] = Pending(u) => k \in calls'[u]
    BY <2>1, <2>3, <2>7, StateFields DEF Consistent
  <2>9. \A u \in Tokens : \A k \in calls'[u] :
            descriptors'[k] = Pending(u) \/ descriptors'[k].tag = "Resolved"
    BY <2>2, <2>3, <2>4, <2>7 DEF Consistent
  <2>10. \A u, v \in Tokens : u # v => calls'[u] \cap calls'[v] = {}
    BY <2>3, <2>4 DEF Consistent
  <2>11. \A u \in Tokens : calls'[u] \cap EmbeddedKeys = {}
    BY <2>3, <2>5 DEF Consistent
  <2>12. \A k \in EmbeddedKeys : descriptors'[k].tag \in {"Absent", "Embedded", "Resolved"}
    BY <2>5, <2>7, ConstantsAssumption DEF Consistent
  <2>13. \A k \in Keys : descriptors'[k].tag \in {"Embedded", "Resolved"} =>
            descriptors'[k].file \in p /\ <<k, descriptors'[k].file>> \in Provides
    BY <2>7, StateFields DEF Consistent
  <2> QED
    BY <2>3, <2>6, <2>8, <2>9, <2>10, <2>11, <2>12, <2>13 DEF Consistent
<1>2. CASE ~(GetMissing(d) # {} /\ accepted)
  BY <1>2 DEF FetchMissing
<1> QED
  BY <1>1, <1>2

\* reset_pending at the end of the call t: what still waits for it is Missing.
LEMMA ResetPendingConsistent ==
  ASSUME NEW d, NEW c, NEW p, NEW t \in Tokens, Consistent(d, c, p)
  PROVE  Consistent(ResetPending(d, t), [c EXCEPT ![t] = {}], p)
<1> DEFINE e == ResetPending(d, t)
           a == [c EXCEPT ![t] = {}]
<1>1. \A k \in Keys : \/ d[k] = Pending(t) /\ e[k] = Missing
                      \/ d[k] # Pending(t) /\ e[k] = d[k]
  BY DEF ResetPending
<1>2. e \in [Keys -> DescriptorState]
  BY StateForms DEF ResetPending, Consistent
<1>3. /\ a \in [Tokens -> SUBSET Keys]
      /\ a[t] = {}
      /\ \A u \in Tokens : u # t => a[u] = c[u]
  BY DEF Consistent
<1> HIDE DEF e, a
<1>4. \A k \in Keys, u \in Tokens : e[k] = Pending(u) => k \in a[u]
  BY <1>1, <1>3, StateFields DEF Consistent
<1>5. \A u \in Tokens : \A k \in a[u] : e[k] = Pending(u) \/ e[k].tag = "Resolved"
  BY <1>1, <1>3, StateFields DEF Consistent
<1>6. \A u, v \in Tokens : u # v => a[u] \cap a[v] = {}
  BY <1>3 DEF Consistent
<1>7. \A u \in Tokens : a[u] \cap EmbeddedKeys = {}
  BY <1>3 DEF Consistent
<1>8. \A k \in EmbeddedKeys : e[k].tag \in {"Absent", "Embedded", "Resolved"}
  BY <1>1, StateFields, ConstantsAssumption DEF Consistent
<1>9. \A k \in Keys : e[k].tag \in {"Embedded", "Resolved"} =>
          e[k].file \in p /\ <<k, e[k].file>> \in Provides
  BY <1>1, StateFields DEF Consistent
<1>10. Consistent(e, a, p)
  BY <1>2, <1>3, <1>4, <1>5, <1>6, <1>7, <1>8, <1>9 DEF Consistent
<1> QED
  BY <1>10 DEF e, a

\* insert_pool_from_bytes for the usable descriptors of an answer: their keys
\* are Resolved, with files that serve them.
LEMMA InsertPoolsConsistent ==
  ASSUME NEW d, NEW c, NEW p, NEW q, NEW last, Consistent(d, c, p), p \subseteq q,
         \A k \in DOMAIN last : /\ k \in Keys /\ d[k].tag # "Embedded"
                                /\ last[k] \in Files /\ last[k] \in q
                                /\ <<k, last[k]>> \in Provides
  PROVE  Consistent(InsertPools(d, last), c, q)
<1> DEFINE e == InsertPools(d, last)
<1>1. \A k \in Keys : \/ k \in DOMAIN last /\ e[k] = Resolved(last[k])
                      \/ k \notin DOMAIN last /\ e[k] = d[k]
  BY DEF InsertPools
<1>2. e \in [Keys -> DescriptorState]
  BY StateForms DEF InsertPools, Consistent
<1>3. \A k \in DOMAIN last : Resolved(last[k]).tag = "Resolved" /\ Resolved(last[k]).file = last[k]
  BY StateFields
<1> HIDE DEF e
<1>4. \A k \in Keys, t \in Tokens : e[k] = Pending(t) => k \in c[t]
  BY <1>1, <1>3, StateFields DEF Consistent
<1>5. \A t \in Tokens : \A k \in c[t] : e[k] = Pending(t) \/ e[k].tag = "Resolved"
  BY <1>1, <1>3 DEF Consistent
<1>6. \A k \in EmbeddedKeys : e[k].tag \in {"Absent", "Embedded", "Resolved"}
  BY <1>1, <1>3, ConstantsAssumption DEF Consistent
<1>7. \A k \in Keys : e[k].tag \in {"Embedded", "Resolved"} =>
          e[k].file \in q /\ <<k, e[k].file>> \in Provides
  BY <1>1, <1>3 DEF Consistent
<1>8. Consistent(e, c, q)
  BY <1>2, <1>4, <1>5, <1>6, <1>7 DEF Consistent
<1> QED
  BY <1>8 DEF e

-----------------------------------------------------------------------------
(* The invariant.                                                          *)

\* Init establishes it: nothing is known and nothing is in flight.
LEMMA InitInvariant == Init => IInv
<1> SUFFICES ASSUME Init PROVE IInv
  OBVIOUS
<1>1. TypeOK
  BY ConstantsAssumption, StateForms DEF Init, TypeOK, RegisterEmbedded, EmbeddedKeys
<1>2. \A k \in Keys : descriptors[k] = Absent /\ descriptors[k].tag = "Absent"
  BY StateFields DEF Init
<1>3. \A t \in Tokens : calls[t] = {}
  BY DEF Init
<1>4. \A k \in Keys, t \in Tokens : descriptors[k] # Pending(t)
  BY <1>2, StateFields
<1>5. RegisterEmbedded \subseteq pools
  BY DEF Init
<1> QED
  BY <1>1, <1>2, <1>3, <1>4, <1>5, ConstantsAssumption DEF IInv, TypeOK, Consistent

\* handle_response followed by reset_pending.
LEMMA HandleResponseInvariant ==
  ASSUME IInv, NEW t \in Tokens, NEW answer \in Answers(t), HandleResponse(t, answer)
  PROVE  IInv'
<1> DEFINE usable   == Usable(descriptors, answer)
           answered == {e[1] : e \in usable}
<1>1. PICK last \in [answered -> Files] :
         /\ \A k \in answered : <<k, last[k]>> \in usable
         /\ descriptors' = ResetPending(InsertPools(descriptors, last), t)
  BY DEF HandleResponse
<1>2. /\ calls' = [calls EXCEPT ![t] = {}]
      /\ pools' = pools \cup {e[2] : e \in usable}
      /\ UNCHANGED <<factory, tick_enabled, cel_env>>
  BY DEF HandleResponse
<1>3. \A e \in usable : /\ e \in Provides /\ descriptors[e[1]].tag # "Embedded"
                        /\ e = <<e[1], e[2]>> /\ e[1] \in Keys /\ e[2] \in Files
  BY ConstantsAssumption DEF Usable
<1>4. pools' \subseteq Files /\ pools \subseteq pools'
  BY <1>2, <1>3 DEF IInv, TypeOK
<1>5. \A k \in answered : /\ k \in Keys /\ descriptors[k].tag # "Embedded"
                          /\ last[k] \in Files /\ last[k] \in pools'
                          /\ <<k, last[k]>> \in Provides
  BY <1>1, <1>2, <1>3
<1> HIDE DEF usable, answered
<1>6. DOMAIN last = answered
  OBVIOUS
<1>7. Consistent(InsertPools(descriptors, last), calls, pools')
  BY <1>4, <1>5, <1>6, InsertPoolsConsistent DEF IInv
<1>8. Consistent(descriptors', calls', pools')
  BY <1>1, <1>2, <1>7, ResetPendingConsistent
<1> QED
  BY <1>2, <1>4, <1>8 DEF IInv, TypeOK, Consistent

\* Every step preserves it.
LEMMA NextInvariant == IInv /\ [Next]_vars => IInv'
<1> SUFFICES ASSUME IInv, [Next]_vars PROVE IInv'
  OBVIOUS
<1>1. ASSUME NEW config \in Configs, ConfigureFails(config) PROVE IInv'
  <2>1. PICK ks \in SUBSET config : descriptors' = AddExpected(descriptors, ks)
    BY <1>1 DEF ConfigureFails
  <2>2. Consistent(descriptors', calls, pools)
    BY <2>1, AddExpectedConsistent DEF IInv
  <2> QED
    BY <1>1, <2>2 DEF ConfigureFails, IInv, TypeOK, Consistent
<1>2. ASSUME NEW config \in Configs, NEW accepted \in BOOLEAN, NEW tickSet \in BOOLEAN,
             Configure(config, accepted, tickSet)
      PROVE  IInv'
  <2>1. Consistent(AddExpected(descriptors, config), calls, pools)
    BY AddExpectedConsistent DEF IInv
  <2>2. Consistent(descriptors', calls', pools)
    BY <1>2, <2>1, FetchMissingConsistent DEF Configure
  <2>3. /\ factory' \in Configs /\ pools' = pools /\ tick_enabled' \in BOOLEAN
        /\ cel_env' \in [Keys -> Files \cup {NoFile}]
    BY <1>2 DEF Configure, HasExpected, IInv, TypeOK
  <2> QED
    BY <2>2, <2>3 DEF IInv, TypeOK, Consistent
<1>3. ASSUME NEW accepted \in BOOLEAN, OnTick(accepted) PROVE IInv'
  <2>1. Consistent(descriptors', calls', pools)
    BY <1>3, FetchMissingConsistent DEF OnTick, IInv
  <2> QED
    BY <1>3, <2>1 DEF OnTick, IInv, TypeOK, Consistent
<1>4. ASSUME NEW t \in Tokens, ResponseFails(t) PROVE IInv'
  <2>1. Consistent(descriptors', calls', pools)
    BY <1>4, ResetPendingConsistent DEF ResponseFails, IInv
  <2> QED
    BY <1>4, <2>1 DEF ResponseFails, IInv, TypeOK, Consistent
<1>5. ASSUME NEW k \in Keys, CelEnv(k) PROVE IInv'
  <2>1. GetPool(k) \in Files
    BY <1>5 DEF CelEnv, GetPool, IInv, TypeOK
  <2> QED
    BY <1>5, <2>1 DEF CelEnv, IInv, TypeOK, Consistent
<1>6. CASE UNCHANGED vars
  BY <1>6 DEF vars, IInv, TypeOK, Consistent
<1> QED
  BY <1>1, <1>2, <1>3, <1>4, <1>5, <1>6, HandleResponseInvariant
     DEF Next, OnConfigure, OnGrpcCallResponse

\* The cache stays consistent in every behaviour.
THEOREM Invariance == Spec => []IInv
  BY InitInvariant, NextInvariant, PTL DEF Spec

\* Every variable keeps its type.
THEOREM TypeCorrect == Spec => []TypeOK
<1>1. IInv => TypeOK
  BY DEF IInv
<1> QED
  BY <1>1, Invariance, PTL

\* A Pending key always has its call in flight: it cannot be forgotten.
THEOREM PendingIsAwaited == Spec => []PendingHasCall
<1>1. IInv => PendingHasCall
  BY DEF IInv, Consistent, PendingHasCall
<1> QED
  BY <1>1, Invariance, PTL

\* No key is asked for by two calls at once, and no embedded one at all.
THEOREM FetchesAreDisjoint == Spec => []NoDuplicateFetch
<1>1. IInv => NoDuplicateFetch
  BY DEF IInv, Consistent, NoDuplicateFetch
<1> QED
  BY <1>1, Invariance, PTL

\* get_pool does not fail for an available key and returns a pool that has the
\* service of the key.
THEOREM PoolsServeTheirKeys == Spec => []PoolServesKey
<1>1. IInv => PoolServesKey
  BY DEF IInv, Consistent, PoolServesKey, GetPool
<1> QED
  BY <1>1, Invariance, PTL

-----------------------------------------------------------------------------
(* The life of a key, and the refinement that follows from it.             *)

\* When answers carry only what was asked for, a key that some call asked for
\* is Pending on that call.
Solicited == ~Unsolicited => \A t \in Tokens : \A k \in calls[t] : descriptors[k] = Pending(t)

\* What a step may do to the state of a key.
KeyStep(k) ==
    \/ descriptors'[k] = descriptors[k]
    \/ /\ descriptors[k] = Absent /\ k \in EmbeddedKeys
       /\ descriptors'[k] = Embedded(EmbeddedFile[k])
    \/ /\ descriptors[k].tag \in {"Absent", "Missing", "Pending"}
       /\ descriptors'[k].tag \in {"Missing", "Pending"}
    \/ /\ descriptors'[k].tag = "Resolved"
       /\ Unsolicited \/ (descriptors[k].tag = "Pending" /\ k \notin EmbeddedKeys)

\* fetch_missing only touches Missing keys, and asks for exactly those that
\* are Pending afterwards.
LEMMA FetchMissingSteps ==
  ASSUME NEW d, Consistent(d, calls, pools), NEW accepted, FetchMissing(d, accepted)
  PROVE  /\ \A k \in Keys : \/ descriptors'[k] = d[k]
                            \/ d[k] = Missing /\ descriptors'[k].tag = "Pending"
         /\ (\A t \in Tokens : \A k \in calls[t] : d[k] = Pending(t))
              => \A t \in Tokens : \A k \in calls'[t] : descriptors'[k] = Pending(t)
<1>1. CASE GetMissing(d) # {} /\ accepted
  <2>1. PICK t \in Tokens :
            /\ calls' = [calls EXCEPT ![t] = GetMissing(d)]
            /\ descriptors' = [k \in Keys |-> IF k \in GetMissing(d) THEN Pending(t) ELSE d[k]]
    BY <1>1 DEF FetchMissing
  <2>2. \A k \in Keys : k \in GetMissing(d) <=> d[k] = Missing
    BY DEF GetMissing
  <2>3. /\ calls'[t] = GetMissing(d) /\ GetMissing(d) \subseteq Keys
        /\ \A u \in Tokens : u # t => calls'[u] = calls[u] /\ calls[u] \subseteq Keys
    BY <2>1 DEF Consistent, GetMissing
  <2>4. \A k \in Keys : \/ d[k] = Missing /\ descriptors'[k] = Pending(t)
                        \/ d[k] # Missing /\ descriptors'[k] = d[k]
    BY <2>1, <2>2
  <2>5. \A u \in Tokens : Pending(u) # Missing /\ Pending(u).tag = "Pending"
    BY StateFields
  <2> QED
    BY <2>2, <2>3, <2>4, <2>5
<1>2. CASE ~(GetMissing(d) # {} /\ accepted)
  BY <1>2 DEF FetchMissing
<1> QED
  BY <1>1, <1>2

\* add_expected only touches keys that are not known.
LEMMA AddExpectedSteps ==
  ASSUME NEW d, NEW ks, NEW k \in Keys
  PROVE  \/ AddExpected(d, ks)[k] = d[k]
         \/ /\ d[k] = Absent /\ k \in EmbeddedKeys
            /\ AddExpected(d, ks)[k] = Embedded(EmbeddedFile[k])
         \/ /\ d[k] = Absent /\ AddExpected(d, ks)[k] = Missing
  BY DEF AddExpected

\* A usable answer to the call t, followed by reset_pending.
LEMMA HandleResponseSteps ==
  ASSUME IInv, Solicited, NEW t \in Tokens, NEW answer \in Answers(t), HandleResponse(t, answer)
  PROVE  Solicited' /\ \A k \in Keys : KeyStep(k)
<1> DEFINE usable   == Usable(descriptors, answer)
           answered == {e[1] : e \in usable}
<1>1. PICK last \in [answered -> Files] :
         descriptors' = ResetPending(InsertPools(descriptors, last), t)
  BY DEF HandleResponse
<1>2. calls' = [calls EXCEPT ![t] = {}]
  BY DEF HandleResponse
<1>3. answered \subseteq Keys /\ (~Unsolicited => answered \subseteq calls[t])
  BY DEF Usable, Answers, IInv, TypeOK
<1> HIDE DEF usable, answered
<1>4. \A k \in Keys :
         \/ k \in answered /\ descriptors'[k].tag = "Resolved"
         \/ k \notin answered /\ descriptors[k] = Pending(t) /\ descriptors'[k] = Missing
         \/ k \notin answered /\ descriptors'[k] = descriptors[k]
  <2> TAKE k \in Keys
  <2>1. CASE k \in answered
    <3>1. InsertPools(descriptors, last)[k] = Resolved(last[k])
      BY <2>1 DEF InsertPools
    <3>2. Resolved(last[k]) # Pending(t) /\ Resolved(last[k]).tag = "Resolved"
      BY StateFields
    <3> QED
      BY <1>1, <2>1, <3>1, <3>2 DEF ResetPending
  <2>2. CASE k \notin answered
    BY <1>1, <2>2 DEF InsertPools, ResetPending
  <2> QED
    BY <2>1, <2>2
<1>5. \A u \in Tokens : Pending(u).tag = "Pending"
  BY StateFields
<1>6. \A k \in Keys : KeyStep(k)
  <2> TAKE k \in Keys
  <2>1. CASE k \in answered
    BY <1>3, <1>4, <1>5, <2>1 DEF KeyStep, Solicited, IInv, Consistent
  <2>2. CASE k \notin answered
    BY <1>4, <1>5, <2>2, StateFields DEF KeyStep
  <2> QED
    BY <2>1, <2>2
<1>7. Solicited'
  <2> SUFFICES ASSUME ~Unsolicited, NEW u \in Tokens, NEW k \in calls'[u]
               PROVE  descriptors'[k] = Pending(u)
    BY DEF Solicited
  <2>1. u # t /\ k \in calls[u] /\ k \in Keys
    BY <1>2 DEF IInv, TypeOK
  <2>2. descriptors[k] = Pending(u) /\ k \notin calls[t]
    BY <2>1 DEF Solicited, IInv, Consistent
  <2>3. Pending(u) # Pending(t)
    BY <2>1, StateFields
  <2> QED
    BY <1>3, <1>4, <2>1, <2>2, <2>3
<1> QED
  BY <1>6, <1>7

\* Every step moves every key along its life.
LEMMA KeySteps == IInv /\ Solicited /\ [Next]_vars => Solicited' /\ \A k \in Keys : KeyStep(k)
<1> SUFFICES ASSUME IInv, Solicited, [Next]_vars
             PROVE  Solicited' /\ \A k \in Keys : KeyStep(k)
  OBVIOUS
<1>0. /\ Absent.tag = "Absent" /\ Missing.tag = "Missing"
      /\ \A t \in Tokens : Pending(t).tag = "Pending" /\ Pending(t) # Absent
      /\ \A t \in Tokens : calls[t] \subseteq Keys
  BY StateFields DEF IInv, TypeOK
<1>1. ASSUME NEW config \in Configs, ConfigureFails(config)
      PROVE  Solicited' /\ \A k \in Keys : KeyStep(k)
  <2>1. PICK ks \in SUBSET config : descriptors' = AddExpected(descriptors, ks)
    BY <1>1 DEF ConfigureFails
  <2>2. \A k \in Keys : KeyStep(k)
    BY <1>0, <2>1, AddExpectedSteps DEF KeyStep
  <2>3. Solicited'
    BY <1>0, <1>1, <2>1, AddExpectedSteps DEF ConfigureFails, Solicited
  <2> QED
    BY <2>2, <2>3
<1>2. ASSUME NEW config \in Configs, NEW accepted \in BOOLEAN, NEW tickSet \in BOOLEAN,
             Configure(config, accepted, tickSet)
      PROVE  Solicited' /\ \A k \in Keys : KeyStep(k)
  <2> DEFINE d == AddExpected(descriptors, config)
  <2>1. Consistent(d, calls, pools)
    BY AddExpectedConsistent DEF IInv
  <2>2. FetchMissing(d, accepted)
    BY <1>2 DEF Configure
  <2>3. \A k \in Keys :
           \/ d[k] = descriptors[k]
           \/ /\ descriptors[k] = Absent /\ k \in EmbeddedKeys
              /\ d[k] = Embedded(EmbeddedFile[k])
           \/ descriptors[k] = Absent /\ d[k] = Missing
    BY AddExpectedSteps
  <2> HIDE DEF d
  <2>4. \A k \in Keys : KeyStep(k)
    <3> TAKE k \in Keys
    <3>1. descriptors'[k] = d[k] \/ (d[k] = Missing /\ descriptors'[k].tag = "Pending")
      BY <2>1, <2>2, FetchMissingSteps
    <3>2. Embedded(EmbeddedFile[k]) # Missing
      BY StateFields
    <3> QED
      BY <1>0, <2>3, <3>1, <3>2 DEF KeyStep
  <2>5. ~Unsolicited => \A t \in Tokens : \A k \in calls[t] : d[k] = Pending(t)
    BY <1>0, <2>3 DEF Solicited
  <2>6. Solicited'
    BY <2>1, <2>2, <2>5, FetchMissingSteps DEF Solicited
  <2> QED
    BY <2>4, <2>6
<1>3. ASSUME NEW accepted \in BOOLEAN, OnTick(accepted)
      PROVE  Solicited' /\ \A k \in Keys : KeyStep(k)
  BY <1>0, <1>3, FetchMissingSteps DEF OnTick, IInv, Solicited, KeyStep
<1>4. ASSUME NEW t \in Tokens, ResponseFails(t)
      PROVE  Solicited' /\ \A k \in Keys : KeyStep(k)
  <2>1. /\ descriptors' = ResetPending(descriptors, t)
        /\ calls' = [calls EXCEPT ![t] = {}]
    BY <1>4 DEF ResponseFails
  <2>2. \A k \in Keys : \/ descriptors[k] = Pending(t) /\ descriptors'[k] = Missing
                        \/ descriptors[k] # Pending(t) /\ descriptors'[k] = descriptors[k]
    BY <2>1 DEF ResetPending
  <2>3. \A k \in Keys : KeyStep(k)
    BY <1>0, <2>2 DEF KeyStep
  <2>4. \A u \in Tokens : u # t => Pending(u) # Pending(t)
    BY StateFields
  <2>5. calls'[t] = {} /\ \A u \in Tokens : u # t => calls'[u] = calls[u]
    BY <2>1 DEF IInv, TypeOK
  <2>6. Solicited'
    BY <1>0, <2>2, <2>4, <2>5 DEF Solicited
  <2> QED
    BY <2>3, <2>6
<1>5. ASSUME NEW k \in Keys, CelEnv(k)
      PROVE  Solicited' /\ \A j \in Keys : KeyStep(j)
  BY <1>5 DEF CelEnv, Solicited, KeyStep
<1>6. CASE UNCHANGED vars
  BY <1>6 DEF vars, Solicited, KeyStep
<1> QED
  BY <1>1, <1>2, <1>3, <1>4, <1>5, <1>6, HandleResponseSteps
     DEF Next, OnConfigure, OnGrpcCallResponse

\* Initially no call has asked for anything.
LEMMA InitSolicited == Init => Solicited
  BY DEF Init, Solicited

\* get_pool hands out the file of an available key and nothing for the others.
LEMMA GetPoolByState ==
  ASSUME IInv, NEW k \in Keys
  PROVE  /\ descriptors[k].tag \in {"Embedded", "Resolved"}
              => GetPool(k) = descriptors[k].file /\ GetPool(k) \in Files
                 /\ <<k, GetPool(k)>> \in Provides
         /\ descriptors[k].tag \notin {"Embedded", "Resolved"} => GetPool(k) = NoFile
  BY ConstantsAssumption DEF GetPool, IInv, Consistent, TypeOK

\* What a step may do to the descriptors handed out for a key.
LEMMA GetPoolSteps ==
  ASSUME IInv, IInv', NEW k \in Keys, KeyStep(k)
  PROVE  \/ GetPool(k)' = GetPool(k)
         \/ /\ <<k, GetPool(k)'>> \in Provides
            /\ \/ Unsolicited
               \/ /\ GetPool(k) = NoFile
                  /\ k \in EmbeddedKeys => GetPool(k)' = EmbeddedFile[k]
<1>1. /\ descriptors[k].tag \in {"Embedded", "Resolved"} => GetPool(k) = descriptors[k].file
      /\ descriptors[k].tag \notin {"Embedded", "Resolved"} => GetPool(k) = NoFile
  BY GetPoolByState
<1>2. /\ descriptors'[k].tag \in {"Embedded", "Resolved"}
            => GetPool(k)' = descriptors'[k].file /\ <<k, GetPool(k)'>> \in Provides
      /\ descriptors'[k].tag \notin {"Embedded", "Resolved"} => GetPool(k)' = NoFile
  BY ConstantsAssumption DEF GetPool, IInv, Consistent
<1>3. /\ Absent.tag = "Absent"
      /\ Embedded(EmbeddedFile[k]).tag = "Embedded"
      /\ Embedded(EmbeddedFile[k]).file = EmbeddedFile[k]
  BY StateFields
<1> QED
  BY <1>1, <1>2, <1>3 DEF KeyStep

\* The cache implements the registry: under get_pool as refinement mapping
\* every behaviour of the root context is one of DescriptorRegistry.
THEOREM Refinement == Spec => RegistrySpec
<1> DEFINE pool == [k \in Keys |-> GetPool(k)]
<1>1. Init => Registry!Init
  <2> SUFFICES ASSUME Init PROVE pool = [k \in Keys |-> NoFile]
    BY DEF Registry!Init
  <2>1. \A k \in Keys : descriptors[k].tag = "Absent"
    BY StateFields DEF Init
  <2>2. \A k \in Keys : GetPool(k) = NoFile
    BY <2>1 DEF GetPool
  <2> QED
    BY <2>2
<1>2. IInv /\ IInv' /\ Solicited /\ [Next]_vars => [Registry!Next]_pool
  <2> SUFFICES ASSUME IInv, IInv', Solicited, [Next]_vars PROVE Registry!Next
    OBVIOUS
  <2>1. \A k \in Keys : KeyStep(k)
    BY KeySteps
  <2>2. \A k \in Keys : GetPool(k)' \in Files \cup {NoFile}
    BY DEF GetPool, IInv, TypeOK, Consistent
  <2>3. pool' = [k \in Keys |-> GetPool(k)']
    OBVIOUS
  <2>4. pool' \in [Keys -> Files \cup {NoFile}]
    BY <2>2, <2>3
  <2>5. \A k \in Keys : pool'[k] = pool[k] \/ Registry!Changes(k)
    BY <2>1, <2>3, GetPoolSteps DEF Registry!Changes, EmbeddedKeys
  <2> QED
    BY <2>4, <2>5 DEF Registry!Next
<1>3. IInv /\ Solicited /\ [Next]_vars => IInv' /\ Solicited'
  BY NextInvariant, KeySteps
<1>4. Init => IInv /\ Solicited
  BY InitInvariant, InitSolicited
<1> QED
  BY <1>1, <1>2, <1>3, <1>4, PTL DEF Spec, RegistrySpec, Registry!Spec

\* If descriptor services answer only what they are asked for, the environment
\* a service has cached is always the one of the descriptors in use.
THEOREM EnvironmentsAreCurrent ==
  ASSUME ~Unsolicited
  PROVE  Spec => []EnvMatchesPool
<1> DEFINE Inv == IInv /\ Solicited /\ EnvMatchesPool
<1>1. Init => Inv
  BY InitInvariant, InitSolicited DEF Init, EnvMatchesPool
<1>2. Inv /\ [Next]_vars => Inv'
  <2> SUFFICES ASSUME Inv, [Next]_vars PROVE Inv'
    OBVIOUS
  <2>1. IInv' /\ Solicited' /\ \A k \in Keys : KeyStep(k)
    BY NextInvariant, KeySteps
  <2>2. \A k \in Keys : GetPool(k) # NoFile => GetPool(k)' = GetPool(k)
    BY <2>1, GetPoolSteps
  <2>3. \A k \in Keys : \/ cel_env'[k] = cel_env[k] \/ cel_env'[k] = NoFile
                        \/ cel_env'[k] = GetPool(k)
    <3>1. cel_env \in [Keys -> Files \cup {NoFile}]
      BY DEF IInv, TypeOK
    <3> QED
      BY <3>1 DEF Next, OnConfigure, ConfigureFails, Configure, OnTick, OnGrpcCallResponse,
         ResponseFails, HandleResponse, CelEnv, vars
  <2>4. EnvMatchesPool'
    BY <2>2, <2>3 DEF EnvMatchesPool
  <2> QED
    BY <2>1, <2>4
<1>3. Inv => EnvMatchesPool
  OBVIOUS
<1> QED
  BY <1>1, <1>2, <1>3, PTL DEF Spec

-----------------------------------------------------------------------------
(* The walk over message types.                                            *)

\* Types on the stack or visited.
Seen == visited \cup Elements(toRegister)

\* What is seen is reachable; what a visited type refers to is seen.
WalkInv ==
    /\ WalkTypeOK
    /\ root \in Seen
    /\ \A t \in visited : Elements(fields[t]) \subseteq Seen
    /\ \A S \in SUBSET Types : root \in S /\ Closed(S) => Seen \subseteq S
    /\ env = visited \ MapEntries

LEMMA ElementsOfConcat ==
    ASSUME NEW s \in Seq(Types), NEW q \in Seq(Types)
    PROVE  s \o q \in Seq(Types) /\ Elements(s \o q) = Elements(s) \cup Elements(q)
<1>1. s \o q \in Seq(Types) /\ Len(s \o q) = Len(s) + Len(q)
  OBVIOUS
<1>2. \A i \in 1..Len(s) : (s \o q)[i] = s[i]
  OBVIOUS
<1>3. \A i \in 1..Len(q) : (s \o q)[Len(s) + i] = q[i]
  OBVIOUS
<1>4. Elements(s \o q) \subseteq Elements(s) \cup Elements(q)
  <2> SUFFICES ASSUME NEW i \in 1..(Len(s) + Len(q)) PROVE (s \o q)[i] \in Elements(s) \cup Elements(q)
    BY <1>1 DEF Elements
  <2>1. CASE i \in 1..Len(s)
    BY <2>1, <1>2 DEF Elements
  <2>2. CASE i \notin 1..Len(s)
    <3>1. i - Len(s) \in 1..Len(q) /\ i = Len(s) + (i - Len(s))
      BY <2>2
    <3>2. (s \o q)[i] = q[i - Len(s)]
      BY <3>1, <1>3
    <3> QED
      BY <3>1, <3>2 DEF Elements
  <2> QED
    BY <2>1, <2>2
<1>5. Elements(s) \subseteq Elements(s \o q)
  BY <1>1, <1>2 DEF Elements
<1>6. Elements(q) \subseteq Elements(s \o q)
  <2> SUFFICES ASSUME NEW i \in 1..Len(q) PROVE q[i] \in Elements(s \o q)
    BY DEF Elements
  <2>1. Len(s) + i \in 1..Len(s \o q)
    BY <1>1
  <2> QED
    BY <2>1, <1>1, <1>3 DEF Elements
<1> QED
  BY <1>1, <1>4, <1>5, <1>6

LEMMA IsASeq ==
    ASSUME NEW n \in Nat, NEW s \in [1..n -> Types]
    PROVE  s \in Seq(Types)
OBVIOUS

LEMMA StackFacts ==
    ASSUME WalkTypeOK, toRegister # <<>>
    PROVE  /\ Top \in Types /\ Rest \in Seq(Types)
           /\ Elements(toRegister) = Elements(Rest) \cup {Top}
<1> DEFINE n == Len(toRegister)
<1>1. n \in Nat /\ n > 0 /\ DOMAIN toRegister = 1..n
  BY DEF WalkTypeOK
<1>2. Top \in Types
  BY <1>1 DEF WalkTypeOK, Top
<1>3. Rest \in Seq(Types) /\ Len(Rest) = n - 1 /\ \A i \in 1..(n - 1) : Rest[i] = toRegister[i]
  BY <1>1 DEF WalkTypeOK, Rest
<1>4. 1..n = (1..(n - 1)) \cup {n}
  BY <1>1
<1>5. Elements(Rest) = {toRegister[i] : i \in 1..(n - 1)}
  BY <1>3 DEF Elements
<1>6. Elements(toRegister) = {toRegister[i] : i \in 1..(n - 1)} \cup {toRegister[n]}
  BY <1>1, <1>4 DEF Elements
<1> QED
  BY <1>2, <1>3, <1>5, <1>6 DEF Top

LEMMA InitWalkInv == WalkInit => WalkInv
<1> SUFFICES ASSUME WalkInit PROVE WalkInv
  OBVIOUS
<1>1. WalkTypeOK
  <2>0. ASSUME NEW n \in 0..MaxFields, NEW s \in [1..n -> Types] PROVE s \in Seq(Types)
    <3>1. n \in Nat
      OBVIOUS
    <3> QED
      BY <3>1, IsASeq
  <2>1. fields \in [Types -> Seq(Types)]
    <3>1. fields \in [Types -> UNION {[1..n -> Types] : n \in 0..MaxFields}]
      BY DEF WalkInit
    <3>2. ASSUME NEW t \in Types PROVE fields[t] \in Seq(Types)
      <4>1. PICK n \in 0..MaxFields : fields[t] \in [1..n -> Types]
        BY <3>1
      <4> QED
        BY <4>1, <2>0
    <3> QED
      BY <3>1, <3>2
  <2> QED
    BY <2>1 DEF WalkInit, WalkTypeOK
<1>2. Elements(toRegister) = {root}
  BY DEF WalkInit, Elements
<1> QED
  BY <1>1, <1>2 DEF WalkInit, WalkInv, Seen

LEMMA NextWalkInv == WalkInv /\ [WalkNext]_walk => WalkInv'
<1> SUFFICES ASSUME WalkInv, [WalkNext]_walk PROVE WalkInv'
  OBVIOUS
<1> USE DEF WalkInv
<1>1. CASE Skip
  <2>1. Elements(toRegister) = Elements(Rest) \cup {Top} /\ Rest \in Seq(Types)
    BY <1>1, StackFacts DEF Skip
  <2>2. UNCHANGED <<fields, root, visited, env>> /\ toRegister' = Rest /\ Top \in visited
    BY <1>1 DEF Skip, Known
  <2>3. Seen' = Seen
    BY <2>1, <2>2 DEF Seen
  <2>4. WalkTypeOK'
    BY <2>1, <2>2 DEF WalkTypeOK
  <2>5. \A S \in SUBSET Types : Closed(S)' => Closed(S)
    BY <2>2 DEF Closed
  <2> QED
    BY <2>2, <2>3, <2>4, <2>5
<1>2. CASE Visit
  <2>1. Elements(toRegister) = Elements(Rest) \cup {Top} /\ Rest \in Seq(Types) /\ Top \in Types
    BY <1>2, StackFacts DEF Visit
  <2>2. /\ UNCHANGED <<fields, root>> /\ visited' = visited \cup {Top}
        /\ toRegister' = Rest \o fields[Top]
        /\ env' = IF Top \in MapEntries THEN env ELSE env \cup {Top}
    BY <1>2 DEF Visit
  <2>3. fields[Top] \in Seq(Types)
    BY <2>1 DEF WalkTypeOK
  <2>4. toRegister' \in Seq(Types) /\ Elements(toRegister') = Elements(Rest) \cup Elements(fields[Top])
    BY <2>1, <2>2, <2>3, ElementsOfConcat
  <2>5. Seen' = Seen \cup Elements(fields[Top])
    BY <2>1, <2>2, <2>4 DEF Seen
  <2>6. WalkTypeOK'
    BY <2>1, <2>2, <2>4 DEF WalkTypeOK
  <2>7. env' = visited' \ MapEntries
    BY <2>2
  <2>8. \A t \in visited' : Elements(fields'[t]) \subseteq Seen'
    BY <2>2, <2>5
  <2>9. ASSUME NEW S \in SUBSET Types, root' \in S, Closed(S)' PROVE Seen' \subseteq S
    <3>1. Closed(S) /\ root \in S
      BY <2>2, <2>9 DEF Closed
    <3>2. Seen \subseteq S /\ Top \in S
      BY <3>1, <2>1 DEF Seen
    <3>3. Elements(fields[Top]) \subseteq S
      BY <3>1, <3>2 DEF Closed
    <3> QED
      BY <2>5, <3>2, <3>3
  <2> QED
    BY <2>2, <2>5, <2>6, <2>7, <2>8, <2>9
<1>3. CASE UNCHANGED walk
  BY <1>3 DEF walk, WalkTypeOK, Seen, Closed
<1> QED
  BY <1>1, <1>2, <1>3 DEF WalkNext

\* What is registered at the end is what can be reached, without map entries.
THEOREM RegistersAllTheorem == WalkSpec => []RegistersAll
<1>1. WalkInv => RegistersAll
  <2> SUFFICES ASSUME WalkInv, toRegister = <<>> PROVE env = Reachable \ MapEntries
    BY DEF RegistersAll, Done
  <2>1. Elements(toRegister) = {}
    BY DEF Elements
  <2>2. Seen = visited
    BY <2>1 DEF Seen
  <2>3. visited \subseteq Types /\ root \in visited /\ Closed(visited)
    BY <2>2 DEF WalkInv, WalkTypeOK, Closed
  <2>4. Reachable \subseteq visited
    BY <2>3 DEF Reachable
  <2>5. visited \subseteq Reachable
    BY <2>2, <2>3 DEF WalkInv, Reachable
  <2> QED
    BY <2>4, <2>5 DEF WalkInv
<1> QED
  BY <1>1, InitWalkInv, NextWalkInv, PTL DEF WalkSpec
=============================================================================
