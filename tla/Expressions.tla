---------------------------- MODULE Expressions ----------------------------
(***************************************************************************)
(* CEL expressions and predicates over the data of a request               *)
(* (src/src/data/cel.rs): which attributes an expression reads is found    *)
(* from its syntax, and only those are fetched and bound before the cel    *)
(* crate evaluates it.                                                     *)
(*                                                                         *)
(* A path is a sequence of names.  A value is a leaf, a map from names to  *)
(* values or a list of values; a call yields the list of its arguments, so *)
(* that every value an expression reads shows in its result.               *)
(***************************************************************************)
EXTENDS Naturals, Sequences, SequencesExt, FiniteSetsExt, TLC

CONSTANTS
    Exprs,          \* lists of predicates; most have one member
    Host,           \* [paths -> what the host answers]
    Late,           \* the paths the host has no answer for before the response
    Grpc,           \* content-type and url_path of the request
    Reply,          \* the variables bound by the caller, a map
    Values,         \* [paths a store action may write -> the value]
    Pointers        \* the JSON pointers that the body has a value for

VARIABLES
    exprs,          \* the predicates under evaluation
    stored,         \* the paths stored so far
    responding,     \* the response has started
    body_read,      \* the body was read to its end
    result          \* of the last evaluation, None after a change

vars == <<exprs, stored, responding, body_read, result>>

Leaf(type, raw) == [v |-> "leaf", type |-> type, raw |-> raw]
Map(fields) == [v |-> "map", fields |-> fields]
List(items) == [v |-> "list", items |-> items]
Null == Leaf("null", "")

Ok(val) == [tag |-> "Available", val |-> val]
Pending == [tag |-> "Pending", val |-> Null]
Err == [tag |-> "Err", val |-> Null]
None == [tag |-> "None", val |-> Null]

HostPropertyRoots ==
    {"request", "response", "source", "destination", "connection", "ratelimit", "filter_state",
     "metadata"}

-----------------------------------------------------------------------------
(* Syntax.                                                                 *)

Lit(s) == [e |-> "lit", name |-> s, args |-> <<>>, target |-> <<>>]
Ident(n) == [e |-> "ident", name |-> n, args |-> <<>>, target |-> <<>>]
Select(x, f) == [e |-> "select", name |-> f, args |-> <<>>, target |-> <<x>>]
Call(f, args) == [e |-> "call", name |-> f, args |-> args, target |-> <<>>]
Method(x, f, args) == [e |-> "call", name |-> f, args |-> args, target |-> <<x>>]
Literal(args) == [e |-> "list", name |-> "", args |-> args, target |-> <<>>]

BodyFns == {"responseBodyJSON", "requestBodyJSON"}
IsBodyCall(x) ==
    x.e = "call" /\ x.name \in BodyFns /\ x.target = <<>> /\ Len(x.args) = 1 /\ x.args[1].e = "lit"

RECURSIVE Properties(_, _)

\* properties: st has the paths and pointers found, and the path collected
\* below the selections that are open.
EachOf(xs, st) == FoldLeft(LAMBDA acc, x : Properties(x, acc), st, xs)

Properties(x, st) ==
    CASE x.e = "call" ->
            LET seen == IF IsBodyCall(x)
                        THEN [st EXCEPT !.body = @ \cup {<<x.name, x.args[1].name>>}] ELSE st
                after == IF x.target # <<>> THEN Properties(x.target[1], seen)
                         ELSE [seen EXCEPT !.path = <<>>]
            IN  EachOf(x.args, after)
      [] x.e = "select" -> Properties(x.target[1], [st EXCEPT !.path = <<x.name>> \o @])
      [] x.e = "ident" ->
            IF st.path = <<>> THEN st
            ELSE [st EXCEPT !.all = @ \cup {<<x.name>> \o st.path}, !.path = <<>>]
      [] x.e = "list" -> EachOf(x.args, st)
      [] x.e = "lit" -> st

Found(x) == Properties(x, [all |-> {}, body |-> {}, path |-> <<>>])
IsGrpc(p) == Len(p) >= 2 /\ p[1] = "request" /\ p[2] = "grpc"
AttributesOf(x) == {p \in Found(x).all : ~IsGrpc(p)}

-----------------------------------------------------------------------------
(* The data map.                                                           *)

\* Mutant: of two paths the longer one stays.
LeavesLongest(paths) == {p \in paths : \A q \in paths : IsPrefix(p, q) => p = q}

\* AttributeMap::new: sorted by length, so a path that starts with another one
\* is dropped.
Leaves(paths) == {p \in paths : \A q \in paths : IsPrefix(q, p) => p = q}

\* new_well_known_attribute_map, of the paths in use: their types.
WellKnown ==
    <<"request", "path">> :> "string" @@ <<"request", "headers">> :> "map"
    @@ <<"source", "port">> :> "int" @@ <<"source", "address">> :> "string"
    @@ <<"connection", "id">> :> "uint"

\* json_to_cel: text that is JSON becomes what it denotes.
JsonToCel(raw) == IF raw = "7" THEN Leaf("uint", raw) ELSE Leaf("string", raw)

\* Attribute::get: what the context answers, by the type of the attribute.
Typed(path, answer) ==
    CASE path \notin DOMAIN WellKnown -> Ok(JsonToCel(answer.raw))
      [] path \in DOMAIN WellKnown /\ answer.v = "map" -> Ok(answer)
      [] OTHER -> IF answer.type = WellKnown[path] THEN Ok(answer) ELSE Err
Get(path) ==
    IF path \in Late /\ ~responding THEN Pending
    ELSE IF path \in DOMAIN Host THEN Typed(path, Host[path])
    ELSE Ok(Null)

RECURSIVE MapToValue(_, _)

\* map_to_value: the outcomes it may have.  Entries come in any order, and the
\* first that is pending or an error decides.
MapToValue(leaves, prefix) ==
    LET under == {p \in leaves : IsStrictPrefix(prefix, p)}
        at(key) == prefix \o <<key>>
        skipped(key) == /\ at(key) \notin stored
                        /\ prefix = <<>> /\ key \notin HostPropertyRoots
                        /\ ~\E p \in stored : IsStrictPrefix(at(key), p)
        keys == {key \in {p[Len(prefix) + 1] : p \in under} : ~skipped(key)}
        outcomes == [key \in keys |->
                        IF at(key) \in stored THEN {Ok(Values[at(key)])}
                        ELSE IF at(key) \in leaves THEN {Get(at(key))}
                        ELSE MapToValue(leaves, at(key))]
        bad == UNION {{o \in outcomes[key] : o.tag # "Available"} : key \in keys}
    IN  IF bad # {} THEN bad
        ELSE {Ok(Map([key \in keys |-> (CHOOSE o \in outcomes[key] : TRUE).val]))}

\* resolve_grpc: the call named by a path of exactly two segments.
ParseGrpcPath(segments) ==
    IF Len(segments) = 3 /\ segments[1] = "" /\ segments[2] # "" /\ segments[3] # ""
    THEN Map([service |-> Leaf("string", segments[2]), method |-> Leaf("string", segments[3])])
    ELSE Null
ResolveGrpc == IF Grpc.content_type THEN ParseGrpcPath(Grpc.url_path) ELSE Null

WithGrpc(x, fields) ==
    LET request == IF "request" \in DOMAIN fields /\ fields.request.v = "map"
                   THEN fields.request.fields ELSE <<>>
        grpc == IF ResolveGrpc = Null THEN <<>> ELSE "grpc" :> ResolveGrpc
    IN  IF \E p \in Found(x).all : IsGrpc(p) THEN "request" :> Map(grpc @@ request) @@ fields
        ELSE fields

\* The variables eval binds: five roots always, the other host roots never,
\* and values stored under a name of their own.
Bindings(fields) ==
    LET always == {"request", "metadata", "source", "destination", "auth"}
        mapped == {n \in DOMAIN fields : n \in always \/ n \notin HostPropertyRoots}
        roots == {p[1] : p \in {q \in stored : Len(q) = 1 /\ q[1] \notin DOMAIN fields}}
    IN  [n \in roots |-> Values[<<n>>]]
        @@ [n \in mapped |-> fields[n]]
        @@ [n \in always |-> Null]
        @@ Reply.fields

-----------------------------------------------------------------------------
(* Evaluation.  The cel crate resolves the expression in the bindings.     *)

RECURSIVE Resolve(_, _)
ResolveAll(xs, env) ==
    LET r == [i \in DOMAIN xs |-> Resolve(xs[i], env)]
    IN  IF \E i \in DOMAIN xs : r[i] = Err THEN Err
        ELSE Ok(List([i \in DOMAIN xs |-> r[i].val]))

\* a == b, or the list of the arguments.
Yield(x, r) ==
    IF x.name = "==" /\ r # Err
    THEN Ok(Leaf("bool", IF r.val.items[1] = r.val.items[2] THEN "true" ELSE "false")) ELSE r

Field(r, f) ==
    IF r.val.v = "map" /\ f \in DOMAIN r.val.fields THEN Ok(r.val.fields[f]) ELSE Err

Resolve(x, env) ==
    CASE x.e = "lit"    -> Ok(Leaf("string", x.name))
      [] x.e = "ident"  -> IF x.name \in DOMAIN env THEN Ok(env[x.name]) ELSE Err
      [] x.e = "select" -> Field(Resolve(x.target[1], env), x.name)
      [] x.e = "list"   -> ResolveAll(x.args, env)
      [] x.e = "call"   -> IF IsBodyCall(x) THEN Ok(Leaf("string", x.args[1].name))
                           ELSE Yield(x, ResolveAll(x.target \o x.args, env))

\* Mutant: the two bodies are mixed up.
HasBodyValueSwapped(b) == b[1] = "requestBodyJSON" /\ body_read /\ b[2] \in Pointers

\* get_response_body_value, get_request_body_value: nothing sets the latter.
HasBodyValue(b) == b[1] = "responseBodyJSON" /\ body_read /\ b[2] \in Pointers

\* Expression::eval: its possible results.
Eval(x) ==
    {IF m.tag # "Available" THEN m
     ELSE IF \E b \in Found(x).body : ~HasBodyValue(b) THEN Pending
     ELSE Resolve(x, Bindings(WithGrpc(x, m.val.fields))) :
        m \in MapToValue(Leaves(AttributesOf(x)), <<>>)}

\* Predicate::test.
Test(x) == {IF r.tag = "Available" /\ r.val.type # "bool" THEN Err ELSE r : r \in Eval(x)}
IsTrue(r) == r.tag = "Available" /\ r.val.raw = "true"

RECURSIVE ApplyAll(_)

\* Mutant: a predicate that is pending is passed over.
ApplyHasty(ps) ==
    IF ps = <<>> THEN {Ok(Leaf("bool", "true"))}
    ELSE UNION {IF IsTrue(r) \/ r = Pending THEN ApplyAll(Tail(ps)) ELSE {r} : r \in Test(Head(ps))}

\* PredicateVec::apply: the first that is not true decides.
ApplyAll(ps) ==
    IF ps = <<>> THEN {Ok(Leaf("bool", "true"))}
    ELSE UNION {IF IsTrue(r) THEN ApplyAll(Tail(ps)) ELSE {r} : r \in Test(Head(ps))}

-----------------------------------------------------------------------------
(* Evaluations between the steps of a stream.                              *)

Init ==
    /\ exprs \in Exprs
    /\ stored = {}
    /\ responding = FALSE /\ body_read = FALSE
    /\ result = None

Evaluate ==
    /\ Len(exprs) = 1
    /\ result' \in Eval(exprs[1])
    /\ UNCHANGED <<exprs, stored, responding, body_read>>

Apply ==
    /\ Len(exprs) > 1
    /\ result' \in ApplyAll(exprs)
    /\ UNCHANGED <<exprs, stored, responding, body_read>>

Store(p) ==
    /\ stored' = stored \cup {p}
    /\ result' = None
    /\ UNCHANGED <<exprs, responding, body_read>>

StartResponse ==
    /\ ~responding
    /\ responding' = TRUE
    /\ result' = None
    /\ UNCHANGED <<exprs, stored, body_read>>

\* TokenUsageTask at the end of the body keeps the values it found.
ReadBody ==
    /\ responding /\ ~body_read
    /\ body_read' = TRUE
    /\ result' = None
    /\ UNCHANGED <<exprs, stored, responding>>

Next ==
    \/ Evaluate
    \/ Apply
    \/ \E p \in DOMAIN Values : Store(p)
    \/ StartResponse
    \/ ReadBody

Spec == Init /\ [][Next]_vars

-----------------------------------------------------------------------------
(* What an expression means: its attributes are read one by one.           *)

RECURSIVE Chain(_)

\* The path of a selection that starts at a name, <<>> for other expressions.
Chain(x) ==
    CASE x.e = "ident"  -> <<x.name>>
      [] x.e = "select" -> IF Chain(x.target[1]) = <<>> THEN <<>> ELSE Append(Chain(x.target[1]), x.name)
      [] OTHER -> <<>>

RECURSIVE Chains(_)
Chains(x) == IF Chain(x) # <<>> THEN {Chain(x)}
             ELSE UNION {Chains((x.target \o x.args)[i]) : i \in DOMAIN (x.target \o x.args)}

RECURSIVE Dig(_, _)
Dig(r, path) == IF path = <<>> \/ r = Err THEN r ELSE Dig(Field(r, Head(path)), Tail(path))

\* What reading path p alone may yield: the value stored at it or above it,
\* the reply, or the host's answer, as text or as what the text denotes;
\* what nobody has is null or an error.
Reads(p) ==
    LET above == {n \in 1..Len(p) : SubSeq(p, 1, n) \in stored}
        tail(n) == SubSeq(p, n + 1, Len(p))
        hosts == {n \in 1..Len(p) : SubSeq(p, 1, n) \in DOMAIN Host}
    IN  CASE above # {} -> {Dig(Ok(Values[SubSeq(p, 1, Min(above))]), tail(Min(above)))}
          [] above = {} /\ IsGrpc(p) -> {Dig(Ok(ResolveGrpc), tail(2))}
          [] above = {} /\ ~IsGrpc(p) /\ p[1] \in DOMAIN Reply.fields -> {Dig(Ok(Reply), p)}
          [] above = {} /\ hosts # {} ->
                UNION {LET a == Host[SubSeq(p, 1, n)] IN
                       IF n = Len(p) THEN {Typed(p, a), Ok(a)}
                       ELSE {Dig(Ok(a), tail(n))} \cup (IF Len(p) \in hosts THEN {} ELSE {Ok(Null)}) :
                       n \in hosts}
          [] OTHER -> {Ok(Null), Err}

RECURSIVE Meaning(_)
Meaning(x) ==
    LET parts == x.target \o x.args
        values == {s \in [DOMAIN parts -> UNION {Meaning(parts[i]) : i \in DOMAIN parts}] :
                      \A i \in DOMAIN parts : s[i] \in Meaning(parts[i])}
        whole(s) == IF \E i \in DOMAIN s : s[i] = Err THEN Err
                    ELSE Ok(List([i \in DOMAIN s |-> s[i].val]))
    IN  CASE Chain(x) # <<>> -> Reads(Chain(x))
          [] x.e = "lit" -> {Ok(Leaf("string", x.name))}
          [] IsBodyCall(x) -> {Ok(Leaf("string", x.args[1].name))}
          [] Chain(x) = <<>> /\ ~IsBodyCall(x) /\ x.e = "list" -> {whole(s) : s \in values}
          [] OTHER -> {Yield(x, whole(s)) : s \in values}

\* A path of the expression ends above a stored value: it reads the host's
\* value, which hides the stored one from longer paths too.
Hidden(x) == \E p \in Chains(x), q \in stored :
                IsStrictPrefix(p, q) /\ \A r \in stored : ~IsPrefix(r, p)

-----------------------------------------------------------------------------
(* Properties.                                                             *)

\* Expression::eval gives what reading each attribute alone would give:
\* collecting paths, dropping the longer ones, the nested data map, stored
\* values and bindings do not change what an expression means, as long as no
\* path ends above a stored value.
EvalMeans ==
    Len(exprs) = 1 /\ result.tag \in {"Available", "Err"} /\ ~Hidden(exprs[1]) =>
        result \in Meaning(exprs[1])

\* The values of the body that the expression asks for are in the response body.
Answerable(x) == \A b \in Found(x).body : b[1] = "responseBodyJSON" /\ b[2] \in Pointers

\* An evaluation is pending only for data that is still to come: an attribute of
\* a later phase, or a value of a body that has not been read.
PendingForAReason ==
    result = Pending /\ (\A i \in DOMAIN exprs : Answerable(exprs[i])) =>
        \E i \in DOMAIN exprs :
            \/ ~responding /\ \E p \in Chains(exprs[i]) : \E q \in Late : IsPrefix(q, p)
            \/ ~body_read /\ Found(exprs[i]).body # {}

\* A list of predicates is true exactly when each of them is, whatever the
\* order in which attributes are fetched: one that is pending or fails is never
\* passed over, and none that holds spoils the others.
PredicatesConjoin ==
    Len(exprs) > 1 /\ result # None =>
        (IsTrue(result) = \A i \in DOMAIN exprs : \A r \in Test(exprs[i]) : IsTrue(r))

-----------------------------------------------------------------------------
(* What the repository says of expressions, where the code disagrees.      *)

\* README.md, requestBodyJSON and responseBodyJSON: the value that is found, or
\* an evaluation error if there is no such value.  Nothing of a stream is left
\* to wait for once the response body has been read.
BodyFunctionsReturn == body_read => result # Pending
=============================================================================
