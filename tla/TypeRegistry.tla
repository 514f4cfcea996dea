--------------------------- MODULE TypeRegistry ---------------------------
(***************************************************************************)
(* How the message types a gRPC method uses become known to CEL            *)
(* (register_message_types in src/src/services/dynamic/converters.rs): a   *)
(* walk over the types that fields refer to, which may refer back.         *)
(***************************************************************************)
EXTENDS Naturals, Sequences

CONSTANTS
    Types,       \* message types of the descriptor pool
    MapEntries,  \* the synthetic ones, of map fields
    MaxFields    \* bound: message fields of a type

VARIABLES
    fields,      \* [Types -> types of the message fields, in order]
    root,        \* the type to register
    toRegister,  \* stack of types to look at
    visited,
    env          \* the types CEL knows

walk == <<fields, root, toRegister, visited, env>>

Elements(s) == {s[i] : i \in DOMAIN s}

WalkInit ==
    /\ fields \in [Types -> UNION {[1..n -> Types] : n \in 0..MaxFields}]
    /\ root \in Types \ MapEntries
    /\ toRegister = <<root>>
    /\ visited = {}
    /\ env = {}

\* The type taken from the stack, and the stack below it.
Top == toRegister[Len(toRegister)]
Rest == SubSeq(toRegister, 1, Len(toRegister) - 1)

Known(t) == t \in visited

\* Mutant: the type stays on the stack.
SkipPeeks ==
    /\ toRegister # <<>>
    /\ Known(Top)
    /\ UNCHANGED walk

\* A type that was visited already is dropped.
Skip ==
    /\ toRegister # <<>>
    /\ Known(Top)
    /\ toRegister' = Rest
    /\ UNCHANGED <<fields, root, visited, env>>

\* Mutant: the types of a map's values are not followed.
VisitNoEntries ==
    /\ toRegister # <<>>
    /\ ~Known(Top)
    /\ visited' = visited \cup {Top}
    /\ toRegister' = IF Top \in MapEntries THEN Rest ELSE Rest \o fields[Top]
    /\ env' = IF Top \in MapEntries THEN env ELSE env \cup {Top}
    /\ UNCHANGED <<fields, root>>

\* A new type: what its fields refer to is put on the stack, and the type is
\* registered unless it is a map entry.
Visit ==
    /\ toRegister # <<>>
    /\ ~Known(Top)
    /\ visited' = visited \cup {Top}
    /\ toRegister' = Rest \o fields[Top]
    /\ env' = IF Top \in MapEntries THEN env ELSE env \cup {Top}
    /\ UNCHANGED <<fields, root>>

Done == toRegister = <<>>

WalkNext == Skip \/ Visit

\* The loop is run by one thread without waiting for anything.
WalkSpec == WalkInit /\ [][WalkNext]_walk /\ WF_walk(WalkNext)

-----------------------------------------------------------------------------
\* The types that can occur in a message of type root: the least set with root
\* in which the fields of a member refer to members.
Closed(S) == \A t \in S : Elements(fields[t]) \subseteq S
Reachable == {t \in Types : \A S \in SUBSET Types : root \in S /\ Closed(S) => t \in S}

\* Every variable holds a value of its type.
WalkTypeOK ==
    /\ fields \in [Types -> Seq(Types)]
    /\ root \in Types
    /\ toRegister \in Seq(Types)
    /\ visited \subseteq Types
    /\ env \subseteq Types

\* When the walk ends, CEL knows exactly the types that a message can hold,
\* through maps too and whatever cycles they form, and no map entry.
RegistersAll == Done => env = Reachable \ MapEntries
=============================================================================
