------------------------ MODULE MCLegacyTranslation ------------------------
(***************************************************************************)
(* A legacy action is translated, and the typed one is answered if its     *)
(* predicate holds.                                                        *)
(***************************************************************************)
EXTENDS LegacyTranslation

CONSTANTS
    Kinds,
    Conditions,
    Predicates,     \* lists of predicates of an action
    MaxBlocks,      \* conditional data blocks of an action
    MaxName,        \* characters of a request data name
    Replied         \* whether services reply

Conditional == <<"p", "?", "q", ":", "r">>
Texts == {<<"p">>, <<"q", "||", "r">>, Conditional}
Lists(S, n) == UNION {[1..k -> S] : k \in 0..n}

Item(key, value) == [key |-> key, value |-> value]
Data == {<<>>, <<Item("a", "x")>>,
         <<Item("ratelimit.domain", "d"), Item("a", "x"), Item("b", "y")>>}
Blocks == [predicates : Lists(Texts, 2), data : Data]

Actions ==
    [scope : {"s"},
     predicates : Predicates,
     conditional_data : Lists(Blocks, MaxBlocks)]

Names == Lists({"m", "1", "."}, MaxName) \ {<<>>}
RequestData == {[n \in N |-> [mentions_auth |-> b]] :
                   N \in {{}} \cup {{m, n} : m, n \in Names}, b \in BOOLEAN}

\* deny_valid: deny_with gives a DenyResponse; for rate limits it always does,
\* and it is only evaluated for a refusal.
AuthReplies ==
    {r \in [http_response : {"denied", "ok", "none"}, unsupported : BOOLEAN,
            dynamic_metadata : BOOLEAN, headers : BOOLEAN, deny_valid : BOOLEAN] :
        r.http_response = "denied" \/ r.deny_valid}
Replies(kind) ==
    IF kind = "auth" THEN AuthReplies
    ELSE [overall_code : 0..3, headers : BOOLEAN, deny_valid : {TRUE}]

VARIABLES kind, action, request_data, env, typed, reply, outcome

vars == <<kind, action, request_data, env, typed, reply, outcome>>

None == <<>>

Init ==
    /\ kind \in Kinds
    /\ action \in Actions
    /\ request_data \in RequestData
    /\ env \in [Conditions -> BOOLEAN]
    /\ typed = None /\ reply = None /\ outcome = None

Build ==
    /\ typed = None
    /\ typed' = <<Translate(kind, action, request_data, env)>>
    /\ UNCHANGED <<kind, action, request_data, env, reply, outcome>>

Answer ==
    /\ Replied /\ typed # None /\ reply = None
    /\ Eval(typed[1].predicate, env)
    /\ \E r \in Replies(kind) :
          /\ reply' = <<r>>
          /\ outcome' = <<process_dynamic_response(OnReply(kind, r), r)>>
    /\ UNCHANGED <<kind, action, request_data, env, typed>>

Next == Build \/ Answer

Spec == Init /\ [][Next]_vars

-----------------------------------------------------------------------------
(* Properties.                                                             *)

AllHold(predicates) == \A i \in DOMAIN predicates : Eval(predicates[i], env)
BlockHolds(i) == AllHold(action.conditional_data[i].predicates)

\* Blocks of one predicate are joined by || as they are, which changes the
\* meaning of a conditional when there is another block.
Reparsed ==
    /\ Len(action.conditional_data) > 1
    /\ \E i \in DOMAIN action.conditional_data : action.conditional_data[i].predicates = <<Conditional>>

\* The service is called exactly when all predicates of the action hold and,
\* for rate limits, those of some block, if it has blocks.
CalledWhenMeant ==
    typed # None /\ ~Reparsed =>
        (Eval(typed[1].predicate, env)
         = /\ AllHold(action.predicates)
           /\ kind # "auth" /\ action.conditional_data # <<>> =>
                 \E i \in DOMAIN action.conditional_data : BlockHolds(i))

\* The descriptor has the data of the blocks that hold, all of it and in
\* order, and nothing of the other blocks.
EntriesOfHoldingBlocks ==
    typed # None /\ kind # "auth" =>
        LET cds == action.conditional_data
            meant == FlattenSeq([i \in DOMAIN cds |->
                        IF BlockHolds(i) THEN Entries(cds[i]) ELSE <<>>])
        IN  FlattenSeq(typed[1].message.descriptors) = meant

\* A rate limit reply denies the request, lets it through or fails, by its
\* code alone, and a report that was answered never fails.
RateLimitDecides ==
    reply # None /\ kind # "auth" =>
        outcome[1].tag = CASE kind = "report" -> "done"
                           [] kind = "ratelimit" /\ reply[1].overall_code = 1 -> "done"
                           [] kind = "ratelimit" /\ reply[1].overall_code = 2 -> "deny"
                           [] OTHER -> "fail"

\* An authorization reply either lets the request through, with the metadata
\* stored before the headers are set, or leaves no trace: nothing is stored or
\* set for a reply that is refused or not understood, and the client is told of
\* a refusal as far as it can be put into a response.
AuthAllOrNothing ==
    reply # None /\ kind = "auth" =>
        LET r == reply[1]
            granted == r.http_response = "ok" /\ ~r.unsupported
        IN  /\ (outcome[1].tag = "done") = granted
            /\ (outcome[1].tag = "deny") = (r.http_response = "denied" /\ r.deny_valid)
            /\ ~granted => outcome[1].tasks = <<>>
            /\ granted => outcome[1].tasks = (IF r.dynamic_metadata THEN <<"store">> ELSE <<>>)
                                             \o (IF r.headers THEN <<"headers">> ELSE <<>>)

\* Every request datum reaches the authorization service in a field of its
\* own, under a name that can be told from all others; a rate limit entry has
\* the name itself as key, unless it is a metrics label.
RequestDataKept ==
    typed # None =>
        IF kind = "auth"
        THEN LET m == typed[1].message.metadata_context
             IN  {IF d = <<>> THEN f ELSE d \o <<".">> \o f : <<d, f>> \in
                    UNION {{<<d, f>> : f \in DOMAIN m[d]} : d \in DOMAIN m}} = DOMAIN request_data
        ELSE \A n \in DOMAIN request_data :
                typed[1].message.request[n] \in
                    {n} \cup {f \in Names : MetricsLabels \o <<".">> \o f = n}

\* Request data names are split before a field that is a name: where there is
\* a domain, the field has a letter before any dot (domain_and_field_name).
FieldsAreNames ==
    typed # None => \A n \in DOMAIN request_data :
        LET d == domain_and_field_name(n)
        IN  d[1] # <<>> => \E i \in DOMAIN d[2] : /\ d[2][i] \in Letters
                                                  /\ \A k \in 1..i : d[2][k] # "."
=============================================================================
