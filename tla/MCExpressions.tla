--------------------------- MODULE MCExpressions ---------------------------
(***************************************************************************)
(* Expressions of one or two attributes, and lists of two predicates.      *)
(***************************************************************************)
EXTENDS Expressions

CONSTANTS Names, Predicates

Request == Ident("request")
Auth == Ident("auth")
Identity == Select(Auth, "identity")

Atoms ==
    [path |-> Select(Request, "path"),
     headers |-> Select(Request, "headers"),
     header |-> Select(Select(Request, "headers"), "x"),
     missing |-> Select(Select(Request, "headers"), "y"),
     late |-> Select(Request, "duration"),
     grpc |-> Select(Select(Request, "grpc"), "service"),
     port |-> Select(Ident("source"), "port"),
     auth |-> Auth,
     identity |-> Identity,
     user |-> Select(Identity, "user"),
     quota |-> Select(Ident("quota"), "left"),
     reply |-> Select(Ident("reply"), "code"),
     text |-> Lit("u"),
     body |-> Call("responseBodyJSON", <<Lit("/p")>>),
     absent |-> Call("responseBodyJSON", <<Lit("/q")>>),
     request_body |-> Call("requestBodyJSON", <<Lit("/p")>>)]

Chosen == {Atoms[n] : n \in Names}

Single == {<<x>> : x \in Chosen}
Compound ==
    Single \cup {<<Call("==", <<x, y>>)>> : x, y \in Chosen}
           \cup {<<Method(x, "f", <<y>>)>> : x, y \in Chosen}
           \cup {<<Literal(<<x, y>>)>> : x, y \in Chosen}
           \cup {<<Call("==", <<Atoms[p], Lit("u")>>), Call("==", <<Atoms[q], Lit("u")>>)>> :
                    p, q \in Predicates}

HostValues ==
    <<"request", "path">> :> Leaf("string", "u")
    @@ <<"request", "headers">> :> Map([x |-> Leaf("string", "7")])
    @@ <<"request", "headers", "x">> :> Leaf("string", "7")
    @@ <<"request", "duration">> :> Leaf("string", "u")
    @@ <<"source", "port">> :> Leaf("string", "u")
LatePaths == {<<"request", "duration">>}
GrpcRequest == [content_type |-> TRUE, url_path |-> <<"", "s", "m">>]
ReplyVars == Map([reply |-> Map([code |-> Leaf("uint", "7")])])
Stores ==
    <<"auth">> :> Map([identity |-> Map([user |-> Leaf("string", "u")])])
    @@ <<"auth", "identity">> :> Map([user |-> Leaf("string", "w")])
    @@ <<"auth", "identity", "user">> :> Leaf("string", "u")
    @@ <<"quota", "left">> :> Leaf("string", "u")
=============================================================================
