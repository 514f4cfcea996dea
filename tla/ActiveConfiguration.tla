------------------------ MODULE ActiveConfiguration ------------------------
(***************************************************************************)
(* What the root context promises about its configuration: the host is     *)
(* told whether the one it offers is well formed, only such a one replaces *)
(* the one in force, what requests run and where descriptors come from at  *)
(* once, and a stream keeps the one that was in force when it began.  The  *)
(* span filter is no part of this: on_configure sets it before it finds    *)
(* out whether a configuration is well formed.                             *)
(***************************************************************************)
CONSTANTS Configurations, Streams, Unconfigured, NoAnswer,
          WellFormed(_), \* which configurations are put in force
          Promised(_),   \* what one that is put in force makes the filter do
          Descriptors(_) \* and where it makes the root context find descriptors

VARIABLES active, descriptors_from,
          streams,       \* what each stream runs, nothing before it begins
          answer         \* the configuration just offered and what was answered

vars == <<active, descriptors_from, streams, answer>>

Init ==
    /\ active = {}
    /\ descriptors_from = Unconfigured
    /\ streams = [s \in Streams |-> {}]
    /\ answer = NoAnswer

Offer(c) ==
    /\ answer' = [config |-> c, accepted |-> WellFormed(c)]
    /\ active' = IF WellFormed(c) THEN Promised(c) ELSE active
    /\ descriptors_from' = IF WellFormed(c) THEN Descriptors(c) ELSE descriptors_from
    /\ UNCHANGED streams

Begin(s) ==
    /\ streams[s] = {}
    /\ streams' = [streams EXCEPT ![s] = {active}]
    /\ answer' = NoAnswer
    /\ UNCHANGED <<active, descriptors_from>>

End(s) ==
    /\ streams[s] # {}
    /\ streams' = [streams EXCEPT ![s] = {}]
    /\ answer' = NoAnswer
    /\ UNCHANGED <<active, descriptors_from>>

Next ==
    \/ \E c \in Configurations : Offer(c)
    \/ \E s \in Streams : Begin(s) \/ End(s)

Spec == Init /\ [][Next]_vars
=============================================================================
