------------------------- MODULE LegacyTranslation -------------------------
(***************************************************************************)
(* Legacy actions rewritten as typed gRPC actions (src/src/configuration/  *)
(* legacy_translation.rs), with the split of request data names done by    *)
(* PipelineFactory::try_from.                                              *)
(*                                                                         *)
(* The rewriting pastes the predicates of the configuration into CEL       *)
(* source, so a predicate is a sequence of tokens: names of conditions,    *)
(* operators and parentheses.  Messages are modelled by the value their    *)
(* source evaluates to under env, the truth of each condition.             *)
(***************************************************************************)
EXTENDS Naturals, Sequences, SequencesExt, FiniteSetsExt

Paren(t) == <<"(">> \o t \o <<")">>
True == <<"true">>

-----------------------------------------------------------------------------
(* CEL: the operators outside parentheses, weakest first.                  *)

Depth(t, i) == Cardinality({k \in 1..i : t[k] = "("}) - Cardinality({k \in 1..i : t[k] = ")"})
Top(t, op) == {i \in 1..Len(t) : t[i] = op /\ Depth(t, i) = 0}
Before(t, i) == SubSeq(t, 1, i - 1)
After(t, i) == SubSeq(t, i + 1, Len(t))

RECURSIVE Eval(_, _)
Eval(t, env) ==
    CASE Top(t, "?") # {} ->
            LET i == Min(Top(t, "?"))
                j == Min(Top(t, ":"))
            IN  IF Eval(Before(t, i), env) THEN Eval(SubSeq(t, i + 1, j - 1), env)
                                           ELSE Eval(After(t, j), env)
      [] Top(t, "?") = {} /\ Top(t, "||") # {} ->
            LET i == Min(Top(t, "||")) IN Eval(Before(t, i), env) \/ Eval(After(t, i), env)
      [] Top(t, "?") = {} /\ Top(t, "||") = {} /\ Top(t, "&&") # {} ->
            LET i == Min(Top(t, "&&")) IN Eval(Before(t, i), env) /\ Eval(After(t, i), env)
      [] Len(t) = 1 -> IF t = True THEN TRUE ELSE env[t[1]]
      [] OTHER -> Eval(SubSeq(t, 2, Len(t) - 1), env)

-----------------------------------------------------------------------------
(* Predicates.                                                             *)

Joined(texts, op) ==
    FlattenSeq([i \in DOMAIN texts |-> IF i = 1 THEN texts[1] ELSE <<op>> \o texts[i]])

\* Mutant: the parts are not put in parentheses.
JoinBare(predicates, op) == IF predicates = <<>> THEN True ELSE Joined(predicates, op)

join_predicates(predicates, op) ==
    CASE Len(predicates) = 0 -> True
      [] Len(predicates) = 1 -> predicates[1]
      [] OTHER -> Joined([i \in DOMAIN predicates |-> Paren(predicates[i])], op)

build_action_predicate(predicates) == join_predicates(predicates, "&&")

BlockPredicate(cd) ==
    IF Len(cd.predicates) = 1 THEN cd.predicates[1]
    ELSE Paren(join_predicates(cd.predicates, "&&"))

build_descriptor_predicate(conditional_data) ==
    IF \/ conditional_data = <<>>
       \/ \E i \in DOMAIN conditional_data : conditional_data[i].predicates = <<>>
    THEN True
    ELSE Joined([i \in DOMAIN conditional_data |-> BlockPredicate(conditional_data[i])], "||")

build_ratelimit_predicate(predicates, conditional_data) ==
    LET action_pred == build_action_predicate(predicates)
        conditional_pred == build_descriptor_predicate(conditional_data)
    IN  CASE action_pred = True -> conditional_pred
          [] action_pred # True /\ conditional_pred = True -> action_pred
          [] OTHER -> Paren(action_pred) \o <<"&&">> \o Paren(conditional_pred)

-----------------------------------------------------------------------------
(* Request data.  A name is a sequence of characters; its domain and field *)
(* are cut at the last dot before the last letter.                         *)

CONSTANTS
    Letters,        \* the alphabetic characters of names
    MetricsLabels   \* the domain metrics.labels

\* Mutant: the first dot cuts.
CutAtFirst(name) ==
    LET dots == {i \in 1..Len(name) : name[i] = "."}
    IN  IF dots = {} \/ Min(dots) = 1 THEN <<<<>>, name>>
        ELSE <<Before(name, Min(dots)), After(name, Min(dots))>>

domain_and_field_name(name) ==
    LET letters == {i \in 1..Len(name) : name[i] \in Letters}
        dots == {i \in 1..Len(name) : name[i] = "." /\ \E k \in letters : i < k}
    IN  IF dots = {} \/ Max(dots) = 1 THEN <<<<>>, name>>
        ELSE <<Before(name, Max(dots)), After(name, Max(dots))>>

\* Mutant: the domain is dropped.
EntryKeyField(name) == domain_and_field_name(name)[2]

\* The key of a rate limit descriptor entry.
EntryKey(name) ==
    LET d == domain_and_field_name(name)
    IN  IF d[1] \in {<<>>, MetricsLabels} THEN d[2] ELSE d[1] \o <<".">> \o d[2]

\* build_metadata_context_cel: the names by domain; a value that mentions
\* "auth." is sent as an expression.
Metadata(request_data) ==
    LET domain(n) == domain_and_field_name(n)[1]
        domains == {domain(n) : n \in DOMAIN request_data}
        fields(d) == {n \in DOMAIN request_data : domain(n) = d}
        form(n) == IF request_data[n].mentions_auth THEN "cel_expr" ELSE "string"
    IN  [d \in domains |->
            [f \in {domain_and_field_name(n)[2] : n \in fields(d)} |->
                form(CHOOSE n \in fields(d) : domain_and_field_name(n)[2] = f)]]

-----------------------------------------------------------------------------
(* Messages.                                                               *)

KnownAttrs == {"ratelimit.domain", "ratelimit.hits_addend"}

\* find_ratelimit_known_attr_cel: the first block that has it, whether its
\* predicates hold or not.
FindKnown(conditional_data, key, default) ==
    LET items == FlattenSeq([i \in DOMAIN conditional_data |-> conditional_data[i].data])
        found == SelectSeq(items, LAMBDA item : item.key = key)
    IN  IF found = <<>> THEN default ELSE found[1].value

Entries(cd) == SelectSeq(cd.data, LAMBDA item : item.key \notin KnownAttrs)

\* Mutant: the condition of the block is dropped.
EntryListAlways(cd, env) == Entries(cd)

EntryList(cd, env) ==
    IF cd.predicates = <<>> \/ Eval(Paren(join_predicates(cd.predicates, "&&")), env)
    THEN Entries(cd) ELSE <<>>

\* build_ratelimit_descriptors_cel: Option<descriptor>, as a sequence.
Descriptors(conditional_data, env) ==
    LET parts == SelectSeq(conditional_data, LAMBDA cd : Entries(cd) # <<>>)
    IN  IF parts = <<>> THEN <<>>
        ELSE <<FlattenSeq([i \in DOMAIN parts |-> EntryList(parts[i], env)])>>

build_ratelimit_message(action, request_data, env) ==
    [domain      |-> FindKnown(action.conditional_data, "ratelimit.domain", action.scope),
     hits_addend |-> FindKnown(action.conditional_data, "ratelimit.hits_addend", "1u"),
     descriptors |-> Descriptors(action.conditional_data, env),
     request     |-> [n \in DOMAIN request_data |-> EntryKey(n)]]

build_auth_message(action, request_data) ==
    [host |-> action.scope, metadata_context |-> Metadata(request_data)]

-----------------------------------------------------------------------------
(* What a reply leads to.  A reply action's predicate is given by its      *)
(* value on the reply; has() of a field without presence is TRUE.          *)

ReplyAction(op, terminal, predicate) == [op |-> op, terminal |-> terminal, predicate |-> predicate]

\* Mutant: every code but 2 lets the request through.
RateLimitReplyLenient(r) ==
    <<ReplyAction("deny", TRUE, r.overall_code = 2),
      ReplyAction("headers", FALSE, r.overall_code # 2)>>

build_ratelimit_on_reply(r) ==
    <<ReplyAction("deny", TRUE, r.overall_code = 2),
      ReplyAction("headers", FALSE, r.overall_code = 1),
      ReplyAction("fail", TRUE, r.overall_code # 1 /\ r.overall_code # 2)>>

report_on_reply(r) == <<ReplyAction("fail", FALSE, ~("overall_code" \in DOMAIN r))>>

\* Mutant: fields that are not supported are not looked for.
AuthReplyLate(r) ==
    <<ReplyAction("deny", TRUE, r.http_response = "denied"),
      ReplyAction("store", FALSE, r.http_response = "ok" /\ r.dynamic_metadata),
      ReplyAction("headers", FALSE, r.http_response = "ok"),
      ReplyAction("fail", TRUE, r.http_response = "none")>>

build_auth_on_reply(r) ==
    <<ReplyAction("deny", TRUE, r.http_response = "denied"),
      ReplyAction("fail", TRUE, r.http_response = "ok" /\ r.unsupported),
      ReplyAction("store", FALSE, r.http_response = "ok" /\ r.dynamic_metadata),
      ReplyAction("headers", FALSE, r.http_response = "ok"),
      ReplyAction("fail", TRUE, r.http_response = "none")>>

\* process_dynamic_response on these lists: the first deny or fail whose
\* predicate holds ends it and drops the tasks made before; a deny whose
\* deny_with has no valid value, as for a denied_response without a status,
\* fails; a header action makes a task if there are headers.
process_dynamic_response(on_reply, r) ==
    LET fires == {i \in DOMAIN on_reply : on_reply[i].predicate}
        last == {i \in fires : on_reply[i].op \in {"deny", "fail"}}
        makes(a) == a.predicate /\ (a.op = "headers" => r.headers)
        made == SelectSeq(on_reply, makes)
        denies == on_reply[Min(last)].op = "deny" /\ r.deny_valid
    IN  IF last # {} THEN [tag |-> IF denies THEN "deny" ELSE "fail", tasks |-> <<>>]
        ELSE [tag |-> "done", tasks |-> [i \in DOMAIN made |-> made[i].op]]

\* The three translations.
Translate(kind, action, request_data, env) ==
    [guard     |-> kind # "report",
     predicate |-> IF kind = "auth" THEN build_action_predicate(action.predicates)
                   ELSE build_ratelimit_predicate(action.predicates, action.conditional_data),
     message   |-> IF kind = "auth" THEN build_auth_message(action, request_data)
                   ELSE build_ratelimit_message(action, request_data, env)]

OnReply(kind, r) ==
    CASE kind = "auth"      -> build_auth_on_reply(r)
      [] kind = "ratelimit" -> build_ratelimit_on_reply(r)
      [] kind = "report"    -> report_on_reply(r)
=============================================================================
