--------------------------- MODULE MCDescriptors ---------------------------
(***************************************************************************)
(* Descriptors and what is made of them: the descriptor cache, the walk    *)
(* that makes their message types known to CEL, and the conversions of     *)
(* messages.  The cache sees descriptors as whole files, so the three      *)
(* share no state and a behaviour is one of either; the others stay in an  *)
(* initial state.                                                          *)
(***************************************************************************)
EXTENDS MCDescriptorManager, TypeRegistry

VARIABLES
    part,
    mode, field, input, first, second

conversion == <<mode, field, input, first, second>>
allVars == <<part, vars, walk, conversion>>

Messages == INSTANCE MessageSchema

\* Three and two bits in place of 64 and 32.
Conversion == INSTANCE MCConverters WITH
    Narrow <- 2, Wide <- 3, MaxFloat <- 3, Exact <- 4, Second <- 1, MaxSeconds <- 2,
    EnumValues <- {0, 1}, Schema <- Messages!SmallSchema,
    MapEntries <- Messages!SmallEntries

MCInit ==
    /\ part \in {"cache", "walk", "conversion"}
    /\ Init
    /\ IF part = "walk" THEN TRUE ELSE fields = [t \in Types |-> <<>>] /\ root = "A"
    /\ WalkInit
    /\ IF part = "conversion" THEN TRUE
       ELSE mode = "export" /\ field = Messages!M("f", "Value") /\ input = Conversion!Cel("null", 0)
    /\ Conversion!Init

WalkOn == part = "walk" /\ WalkNext /\ UNCHANGED <<part, vars, conversion>>

MCNext ==
    \/ part = "cache" /\ Next /\ UNCHANGED <<part, walk, conversion>>
    \/ WalkOn
    \/ part = "conversion" /\ Conversion!Next /\ UNCHANGED <<part, vars, walk>>
    \/ part # "cache" /\ UNCHANGED allVars

MCSpec == MCInit /\ [][MCNext]_allVars /\ WF_allVars(WalkOn)

-----------------------------------------------------------------------------
\* The walk of register_message_types ends, whatever cycles the types form.
WalkEnds == part = "walk" => <>Done

\* The conversions keep what they convert: a message that is decoded and
\* encoded again is unchanged and has the declared type in between, a CEL value
\* of the declared type and range is sent as it is, an exported value reads back
\* as the same JSON, and the headers of a reply arrive complete and in order.
ConversionsKeepData ==
    /\ Conversion!RoundTrip /\ Conversion!DecodedAsDeclared /\ Conversion!EncodesFaithfully
    /\ Conversion!ExportsJson /\ Conversion!HeadersArrive

\* set_field panics only on map keys that cel_map_key_to_proto lets through.
PanicsOnlyOnKeys == Conversion!PanicsOnlyOnKeys
=============================================================================
