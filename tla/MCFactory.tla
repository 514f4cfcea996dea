----------------------------- MODULE MCFactory -----------------------------
(***************************************************************************)
(* From configurations to the blueprint of a request: reconfiguration, the *)
(* translation of legacy actions and the index of host names.  The three   *)
(* abstract from each other's data and share no state, so a behaviour is   *)
(* one of either; the others stay in an initial state.                     *)
(***************************************************************************)
EXTENDS MCReconfiguration, Routing

VARIABLES
    part,
    kind, action, request_data, env, typed, reply, outcome

legacy == <<kind, action, request_data, env, typed, reply, outcome>>

\* Hosts of up to three labels and patterns at each level.
MCHosts == {<<"com">>, <<"com", "a">>, <<"com", "b">>, <<"com", "a", "b">>, <<"org", "a">>}

Pattern(labels, wildcard) == [labels |-> labels, wildcard |-> wildcard]
MCHostnames ==
    {Pattern(<<>>, TRUE), Pattern(<<"com">>, TRUE), Pattern(<<"com", "a">>, TRUE),
     Pattern(<<"com", "a">>, FALSE), Pattern(<<"com", "a", "b">>, FALSE)}

\* Up to two blocks of up to two predicates each; no request data, no replies.
Predicated == INSTANCE MCLegacyTranslation WITH
    Letters <- {"m"}, MetricsLabels <- <<"m">>, Kinds <- {"ratelimit"},
    Conditions <- {"p", "q", "r"},
    Predicates <- {<<>>, <<<<"p">>>>, <<<<"true">>>>, <<<<"p", "?", "q", ":", "r">>>>,
                   <<<<"q">>, <<"q", "||", "r">>>>},
    MaxBlocks <- 2, MaxName <- 0, Replied <- FALSE

\* All kinds of actions without blocks: up to two request data with all names, and
\* all replies with some.
Named == INSTANCE MCLegacyTranslation WITH
    Letters <- {"m"}, MetricsLabels <- <<"m">>, Kinds <- {"auth", "ratelimit", "report"},
    Conditions <- {"p"}, Predicates <- {<<>>, <<<<"p">>>>},
    MaxBlocks <- 0, MaxName <- 3, Replied <- FALSE
Replying == INSTANCE MCLegacyTranslation WITH
    Letters <- {"m"}, MetricsLabels <- <<"m">>, Kinds <- {"auth", "ratelimit", "report"},
    Conditions <- {"p"}, Predicates <- {<<>>, <<<<"p">>>>},
    MaxBlocks <- 0, MaxName <- 1, Replied <- TRUE

MCInit ==
    /\ part \in {"configurations", "routes", "predicates", "names", "replies"}
    /\ Init
    /\ IF part = "routes" THEN TRUE ELSE hostnames = <<{}, {}>> /\ fallback = FALSE
    /\ RoutingInit
    /\ IF part = "predicates" THEN Predicated!Init
       ELSE IF part = "names" THEN Named!Init
       ELSE /\ IF part = "replies" THEN TRUE
               ELSE /\ kind = "report" /\ request_data = <<>> /\ env = [c \in {"p"} |-> TRUE]
                    /\ action = [scope |-> "s", predicates |-> <<>>, conditional_data |-> <<>>]
            /\ Replying!Init

MCNext ==
    \/ part = "configurations" /\ Next /\ UNCHANGED <<part, routing, legacy>>
    \/ part = "routes" /\ RoutingNext /\ UNCHANGED <<part, vars, legacy>>
    \/ part = "predicates" /\ Predicated!Next /\ UNCHANGED <<part, vars, routing>>
    \/ part = "names" /\ Named!Next /\ UNCHANGED <<part, vars, routing>>
    \/ part = "replies" /\ Replying!Next /\ UNCHANGED <<part, vars, routing>>
    \/ part \in {"predicates", "names", "replies"} /\ typed # <<>> /\ UNCHANGED <<part, vars, routing, legacy>>

MCSpec == MCInit /\ [][MCNext]_<<part, vars, routing, legacy>>

-----------------------------------------------------------------------------
\* The properties of the legacy translation.

\* A translated action calls its service exactly when the legacy one should,
\* with the data of the blocks that hold and of no others, and with every
\* request datum; the names it has in an authorization call are all different,
\* and a rate limit call strips those of metrics labels (translate_action).
LegacyCallsKept ==
    /\ part = "predicates" => Predicated!CalledWhenMeant /\ Predicated!EntriesOfHoldingBlocks
    /\ part = "names" => Named!RequestDataKept /\ Named!FieldsAreNames

\* The onReply lists decide a reply as the protocols define it: a rate limit
\* reply by its code, a report never fails, and a refused authorization leaves
\* no trace (build_ratelimit_on_reply, build_auth_on_reply).
LegacyRepliesDecide ==
    part = "replies" => Replying!RateLimitDecides /\ Replying!AuthAllOrNothing
=============================================================================
