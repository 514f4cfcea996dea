------------------------------ MODULE Routing ------------------------------
(***************************************************************************)
(* How the pipeline factory finds the action set of a request (src/src/    *)
(* kuadrant/pipeline/factory.rs): an index of host names, written from the *)
(* top-level domain down, and the route predicates of the action sets.     *)
(*                                                                         *)
(* A host is the sequence of its labels from the top-level domain down;    *)
(* a pattern also says whether it starts with a wildcard.  The source      *)
(* takes any text for both: hosts that begin with '*', and patterns with a *)
(* '*' that is not a label of its own, are outside of the model.           *)
(***************************************************************************)
EXTENDS Naturals, SequencesExt

CONSTANTS
    Labels,        \* labels of domain names
    Hosts,         \* hosts of requests: sequences of labels
    Hostnames,     \* patterns of action sets: [labels, wildcard]
    ActionSets,    \* number of action sets in a configuration
    NoHost         \* request.host is absent, pending or cannot be read

ASSUME RoutingAssumption ==
    /\ "." \notin Labels /\ "$" \notin Labels
    /\ Hosts \subseteq Seq(Labels) /\ NoHost \notin Hosts
    /\ Hostnames \subseteq [labels : Seq(Labels), wildcard : BOOLEAN]
    /\ ActionSets \in Nat

VARIABLES
    hostnames,     \* the host names of each action set
    fallback,      \* is there a fallback blueprint (header identifier)?
    host,          \* of the request
    candidates,    \* action sets still to be tried
    verdicts,      \* [tried action sets -> what their predicates gave]
    result,        \* of build, "selecting" while it runs
    selected       \* the action set, if the result is "blueprint"

routing == <<hostnames, fallback, host, candidates, verdicts, result, selected>>

-----------------------------------------------------------------------------
(* The index.                                                              *)

\* The labels, each after a dot.
Dotted(labels) ==
    [i \in 1..(2 * Len(labels)) |-> IF i % 2 = 1 THEN "." ELSE labels[i \div 2]]

\* Mutant: without the end marks a wildcard stands for the bare domain too.
KeyUnmarked(labels, wildcard) == Dotted(labels)

\* reverse_subdomain: "$" ends an exact name and "." a wildcard.
ReverseSubdomain(labels, wildcard) == Append(Dotted(labels), IF wildcard THEN "." ELSE "$")

Key(p) == ReverseSubdomain(p.labels, p.wildcard)

\* Trie::get_ancestor_value: of the keys that are a prefix of key the longest.
Ancestors(keys, key) == {k \in keys : IsPrefix(k, key)}
GetAncestor(keys, key) ==
    {k \in Ancestors(keys, key) : \A l \in Ancestors(keys, key) : Len(l) <= Len(k)}

\* try_from appends an action set under the key of each of its host names, and
\* goes through the action sets in the order of the configuration.
Indexed(key) == {i \in 1..ActionSets : \E p \in hostnames[i] : Key(p) = key}

IndexKeys == UNION {{Key(p) : p \in hostnames[i]} : i \in 1..ActionSets}

-----------------------------------------------------------------------------
(* build, for one request after the other.                                 *)

RoutingInit ==
    /\ hostnames \in [1..ActionSets -> SUBSET Hostnames]
    /\ fallback \in BOOLEAN
    /\ host = NoHost /\ candidates = {} /\ verdicts = <<>>
    /\ result = "none" /\ selected = 0

SelectBlueprint(h) ==
    /\ result # "selecting"
    /\ host' = h
    /\ verdicts' = <<>> /\ selected' = 0
    /\ IF h = NoHost THEN result' = "error" /\ candidates' = {}
       ELSE LET found == GetAncestor(IndexKeys, ReverseSubdomain(h, FALSE))
            IN  IF found = {} THEN result' = "none" /\ candidates' = {}
                ELSE /\ result' = "selecting"
                     /\ candidates' = Indexed(CHOOSE k \in found : TRUE)
    /\ UNCHANGED <<hostnames, fallback>>

\* Mutant: the candidates are tried backwards.
NextCandidateLast == Max(candidates)

\* They are tried in the order in which they were appended.
NextCandidate == Min(candidates)

\* The predicates of a candidate hold, do not hold, or cannot be evaluated.
RoutePredicatesMatch(verdict) ==
    /\ result = "selecting" /\ candidates # {}
    /\ LET c == NextCandidate
       IN  /\ verdicts' = [i \in DOMAIN verdicts \cup {c} |->
                              IF i = c THEN verdict ELSE verdicts[i]]
           /\ candidates' = candidates \ {c}
           /\ result' = CASE verdict = "true"  -> "blueprint"
                          [] verdict = "error" -> "error"
                          [] OTHER             -> "selecting"
           /\ selected' = IF verdict = "true" THEN c ELSE 0
    /\ UNCHANGED <<hostnames, fallback, host>>

NoCandidateMatches ==
    /\ result = "selecting" /\ candidates = {}
    /\ result' = IF fallback THEN "fallback" ELSE "none"
    /\ UNCHANGED <<hostnames, fallback, host, candidates, verdicts, selected>>

RoutingNext ==
    \/ \E h \in Hosts \cup {NoHost} : SelectBlueprint(h)
    \/ \E verdict \in {"true", "false", "error"} : RoutePredicatesMatch(verdict)
    \/ NoCandidateMatches

RoutingSpec == RoutingInit /\ [][RoutingNext]_routing

-----------------------------------------------------------------------------
(* Which patterns are the most specific ones for a host, without the index. *)

Matches(p, h) ==
    IF p.wildcard THEN Len(p.labels) < Len(h) /\ IsPrefix(p.labels, h) ELSE p.labels = h

MoreSpecific(p, q) == (~p.wildcard /\ q.wildcard) \/ Len(p.labels) > Len(q.labels)

MatchingPatterns(h) == {p \in UNION {hostnames[i] : i \in 1..ActionSets} : Matches(p, h)}

MostSpecific(h) ==
    {p \in MatchingPatterns(h) : \A q \in MatchingPatterns(h) : ~MoreSpecific(q, p)}

Eligible(h) == {i \in 1..ActionSets : hostnames[i] \cap MostSpecific(h) # {}}

-----------------------------------------------------------------------------
(* Properties.                                                             *)

\* select_blueprint returns the first action set, in the order of the
\* configuration, among those with the most specific pattern for the host:
\* a prefix search of reversed names is a search by domain.
RouteIsMostSpecific ==
    result = "blueprint" =>
        /\ selected \in Eligible(host)
        /\ \A i \in Eligible(host) : i < selected => i \in DOMAIN verdicts /\ verdicts[i] = "false"

\* A request runs without its host's action sets only if it has none or the
\* predicates of all of them were tried and did not match; less specific
\* patterns are not tried, and a host that is not configured has no fallback.
UnroutedIsUnmatched ==
    result \in {"none", "fallback"} /\ host # NoHost =>
        /\ \A i \in Eligible(host) : i \in DOMAIN verdicts /\ verdicts[i] = "false"
        /\ DOMAIN verdicts \subseteq Eligible(host)
        /\ result = "fallback" => fallback /\ Eligible(host) # {}
=============================================================================
