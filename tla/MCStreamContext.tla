-------------------------- MODULE MCStreamContext --------------------------
(***************************************************************************)
(* What the context of a stream holds and what is read from it: header     *)
(* maps and attributes, spans, and the expressions over them with their       *)
(* functions.  Each abstracts from the data of the others, so they share   *)
(* no state and a behaviour is one of them, in which the others are idle.  *)
(***************************************************************************)
EXTENDS MCRequestContext, SpanBuffer

VARIABLES
    part,
    exprs, stored, responding, body_read, result,
    str, arg, num, char, out,
    query, second, rest, map

expression == <<exprs, stored, responding, body_read, result>>
strings == <<str, arg, num, char, out>>
queries == <<query, second, rest, map>>

\* An attribute the shim exports, and one it only reads back from the cache,
\* under a changing host; the address of a client, IPv4 or IPv6, that the host
\* may have; header maps that are shadowed by what is exported to their paths.
Exported == INSTANCE RequestContext WITH
    Names <- {Rid}, Vals <- {v}, RequestIdName <- Rid, Attributes <- {"auth"}, AuthPaths <- {"auth"},
    Exports <- {"auth"}, Addresses <- {}, Operations <- {}, MaxHeaders <- 1, MaxIds <- 1
Plain == INSTANCE RequestContext WITH
    Names <- {Rid}, Vals <- {v}, RequestIdName <- Rid, Attributes <- {"request.path"}, AuthPaths <- {},
    Exports <- {"request.path"}, Addresses <- {}, Operations <- {}, MaxHeaders <- 1, MaxIds <- 1
Address == INSTANCE RequestContext WITH
    Names <- {Rid}, Vals <- {v}, RequestIdName <- Rid, Attributes <- {RemoteAddress}, AuthPaths <- {},
    Exports <- {RemoteAddress}, Addresses <- Clients, Operations <- {}, MaxHeaders <- 1, MaxIds <- 1
Shadowed == INSTANCE RequestContext WITH
    Names <- {Rid}, Vals <- {v}, RequestIdName <- Rid, Attributes <- {}, AuthPaths <- {},
    Exports <- Maps, Addresses <- {}, Operations <- {o \in Ops : o.op = "remove"},
    MaxHeaders <- 1, MaxIds <- 1

\* Expressions of up to two attributes, with values stored in between.
Data == INSTANCE MCExpressions WITH
    Names <- {"path", "headers", "header", "missing", "late", "grpc", "port", "auth", "identity",
              "user", "quota", "reply", "text", "body", "absent", "request_body"},
    Predicates <- {"path", "late", "user", "body", "port"},
    Exprs <- {}, Host <- <<>>, Late <- {}, Grpc <- <<>>, Reply <- <<>>, Values <- <<>>, Pointers <- {}
Expression == INSTANCE Expressions WITH
    Exprs <- Data!Compound, Host <- Data!HostValues, Late <- Data!LatePaths,
    Grpc <- Data!GrpcRequest, Reply <- Data!ReplyVars, Values <- Data!Stores, Pointers <- {"/p"}

\* Strings of up to three characters, of which u takes two bytes, and indices
\* that wrap at both ends.
String == INSTANCE MCStringFunctions WITH
    s <- str, n <- num, k <- char, Size <- [a |-> 1, b |-> 1, u |-> 2],
    UsizeBits <- 3, MaxLen <- 3, MaxArg <- 2, MaxInt <- 9

\* An empty text, one that is spelt in two ways, and a second '='.
Texts == {"", "a", "%61"}
Query == INSTANCE QueryMap WITH
    Parts <- {<<t>> : t \in Texts} \cup (Texts \X Texts) \cup {<<"a", "%61", "a">>},
    Empty <- "", Decoded <- [t \in Texts |-> IF t = "%61" THEN "a" ELSE t], MaxParts <- 3

MCInit ==
    /\ part \in {"headers", "exported", "plain", "address", "shadowed", "spans", "expressions", "strings", "queries"}
    /\ CASE part = "exported" -> Exported!Init
         [] part = "plain" -> Plain!Init
         [] part = "address" -> Address!Init
         [] part = "shadowed" -> Shadowed!Init
         [] OTHER ->
            /\ IF part = "headers" THEN TRUE
               ELSE hostMap = [m \in Maps |-> IF m = "request.headers" THEN <<<<Rid, v>>>> ELSE <<>>]
            /\ Init
    /\ SpanInit
    /\ IF part = "expressions" THEN Expression!Init
       ELSE /\ exprs = <<>> /\ stored = {} /\ result = Expression!None
            /\ responding = FALSE /\ body_read = FALSE
    /\ IF part = "strings" THEN String!Init
       ELSE str = <<>> /\ arg = <<>> /\ num = 0 /\ char = 0 /\ out = String!Nothing
    /\ IF part = "queries" THEN Query!Init
       ELSE query = <<>> /\ second = "none" /\ rest = <<>> /\ map = <<>>

MCNext ==
    \/ /\ \/ part = "headers" /\ Next
          \/ part = "exported" /\ Exported!Next
          \/ part = "plain" /\ Plain!Next
          \/ part = "address" /\ Address!Next
          \/ part = "shadowed" /\ Shadowed!Next
       /\ UNCHANGED <<part, spanVars, expression, strings, queries>>
    \/ part = "spans" /\ SpanNext /\ UNCHANGED <<part, vars, expression, strings, queries>>
    \/ part = "expressions" /\ Expression!Next /\ UNCHANGED <<part, vars, spanVars, strings, queries>>
    \/ part = "strings" /\ String!Next /\ UNCHANGED <<part, vars, spanVars, expression, queries>>
    \/ part = "queries" /\ Query!Next /\ UNCHANGED <<part, vars, spanVars, expression, strings>>

MCSpec == MCInit /\ [][MCNext]_<<part, vars, spanVars, expression, strings, queries>>

-----------------------------------------------------------------------------
\* The properties of the other modules.

\* An evaluation ends as reading the attributes one by one would, as long as no
\* path ends above a stored value; it is pending only for data that is still
\* to come, if the body has what it asks for; and a list of predicates is true exactly when each of them is, in
\* whatever order attributes are fetched (Expression::eval, PredicateVec).
ExpressionsMean ==
    Expression!EvalMeans /\ Expression!PendingForAReason /\ Expression!PredicatesConjoin

\* The functions of expressions agree with their definitions by whole strings:
\* searches and their panics, split and join, substrings, negative indices and
\* those that wrap, and the entries of queryMap.
FunctionsAgree ==
    /\ String!IndexOfFindsFirst /\ String!PanicsInsideCharacter /\ String!SplitJoins
    /\ String!SubstringsMakeString /\ String!NegativeIsBeyond
    /\ Query!MapOfQuery
=============================================================================
