--------------------------- MODULE MCConverters ---------------------------
(***************************************************************************)
(* The converters on every value of a small schema.  A behaviour takes a   *)
(* field and a value for it and converts the value there and back: from a  *)
(* reply to CEL ("decode"), from CEL to a request ("encode"), or from CEL  *)
(* to what the host is given ("export").                                   *)
(***************************************************************************)
EXTENDS Converters, MessageSchema

VARIABLES mode, field, input, first, second

vars == <<mode, field, input, first, second>>

-----------------------------------------------------------------------------
(* The fields.                                                             *)

ScalarKinds == {"bool", "int32", "int64", "uint32", "uint64", "float", "double", "string", "bytes", "enum"}
Fields ==
    {F("f", k) : k \in ScalarKinds} \cup {Repeated(F("f", k)) : k \in {"int32", "float", "enum"}}
    \cup {M("f", t) : t \in {"Inner", "Timestamp", "Struct", "Value", "ListValue"}}
    \cup {MapOf("f", t) : t \in SmallEntries \ {"StructEntry"}} \cup {Repeated(M("f", "HeaderOption"))}

-----------------------------------------------------------------------------
(* Values.                                                                 *)

Num(n) == [num |-> n]
Sym(s) == [sym |-> s]
Seqs(S) == {<<>>} \cup {<<x>> : x \in S} \cup {<<x, y>> : x, y \in S}
Maps(K, V) == UNION {[D -> V] : D \in {D \in SUBSET K : D # {} /\ \E a, b \in D : D = {a, b}}}

ScalarInputs(k) ==
    CASE k = "bool"   -> {Proto("Bool", b) : b \in BOOLEAN}
      [] k = "int32"  -> {Proto("I32", i) : i \in Signed(Narrow)}
      [] k = "int64"  -> {Proto("I64", i) : i \in Signed(Wide)}
      [] k = "uint32" -> {Proto("U32", i) : i \in Unsigned(Narrow)}
      [] k = "uint64" -> {Proto("U64", i) : i \in Unsigned(Wide)}
      [] k = "float"  -> {Proto("F32", d) : d \in {Num(1), Num(MaxFloat), Sym("third32"), Sym("inf"), Sym("nan")}}
      [] k = "double" -> {Proto("F64", d) : d \in {Num(1), Num(MaxFloat + 1), Sym("third"), Sym("inf")}}
      [] k = "string" -> {Proto("String", t) : t \in {"", "a"}}
      [] k = "bytes"  -> {Proto("Bytes", t) : t \in {"", "a"}}
      [] k = "enum"   -> {Proto("Enum", i) : i \in Signed(Narrow)}

InnerInputs ==
    {Message("Inner", [n |-> i, tags |-> Proto("List", ts)]) :
        i \in ScalarInputs("int32"), ts \in Seqs({Proto("String", "a")})}
    \cup {Message("Inner", [n |-> i, o |-> j, tags |-> Proto("List", <<>>)]) :
            i \in ScalarInputs("int32"), j \in ScalarInputs("int64")}
HeaderInputs ==
    {Message("HeaderOption", [header |-> Message("Header", [key |-> Proto("String", k), value |-> Proto("String", v)])]) :
        k \in {"k", "l"}, v \in {"a"}} \cup {Message("HeaderOption", <<>>)}
Leaves == {OneOf("null_value", Proto("Enum", 0)), OneOf("string_value", Proto("String", "a")),
           OneOf("number_value", Proto("F64", Num(1))), Message("Value", <<>>)}
Structs == {Message("Struct", [fields |-> Proto("Map", m)]) : m \in Maps({Proto("String", "a"), Proto("String", "b")}, Leaves)}
Lists == {Message("ListValue", [values |-> Proto("List", l)]) : l \in Seqs(Leaves)}

MessageInputs(t) ==
    CASE t = "Inner" -> InnerInputs
      [] t = "HeaderOption" -> HeaderInputs
      [] t = "Timestamp" -> {Message("Timestamp", [seconds |-> s, nanos |-> n]) :
                                s \in ScalarInputs("int64"), n \in ScalarInputs("int32")}
      [] t = "Struct" -> Structs
      [] t = "ListValue" -> Lists
      [] t = "Value" -> Leaves \cup {OneOf("struct_value", s) : s \in Structs} \cup {OneOf("list_value", l) : l \in Lists}

ElementInputs(f) == IF f.kind = "message" THEN MessageInputs(f.of) ELSE ScalarInputs(f.kind)
Few(f) == IF f.kind = "message" THEN {CHOOSE m \in MessageInputs(f.of) : TRUE} ELSE ScalarInputs(f.kind)
ProtoInputs(f) ==
    CASE IsMapField(f) -> {Proto("Map", m) : m \in Maps(ScalarInputs(FieldOf(f.of, "key").kind), Few(FieldOf(f.of, "value")))}
      [] f.repeated /\ ~IsMapField(f) -> {Proto("List", l) : l \in Seqs(ElementInputs(f))}
      [] OTHER -> ElementInputs(f)

CelScalars ==
    {Cel("bool", b) : b \in BOOLEAN} \cup {Cel("int", i) : i \in Signed(Wide)}
    \cup {Cel("uint", i) : i \in Unsigned(Wide)} \cup {Cel("string", "a"), Cel("bytes", "a"), Cel("null", 0)}
    \cup {Cel("double", d) : d \in {Num(1), Num(MaxFloat + 1), Sym("third"), Sym("inf")}}
    \cup {Cel("timestamp", <<1, Second>>)}
CelStructs ==
    {[cel |-> "struct", type |-> "Inner", fields |-> [n |-> x]] : x \in CelScalars}
    \cup {[cel |-> "struct", type |-> "Inner", fields |-> [o |-> x, tags |-> Cel("list", <<Cel("string", "a")>>)]] :
            x \in CelScalars}
    \cup {[cel |-> "struct", type |-> "Timestamp", fields |-> [seconds |-> Cel("int", 1), nanos |-> Cel("int", -1)]]}
CelKeys == {Cel("bool", TRUE), Cel("string", "a"), Cel("int", 1), Cel("int", 3), Cel("uint", 1), Cel("uint", 5)}
CelInputs ==
    CelScalars \cup CelStructs
    \cup {Cel("list", l) : l \in Seqs(CelScalars)}
    \cup {Cel("map", m) : m \in UNION {[{k} -> CelScalars \cup CelStructs] : k \in CelKeys}}

-----------------------------------------------------------------------------
Waiting == [res |-> "waiting"]

Init ==
    /\ first = Waiting
    /\ second = Waiting
    /\ \/ mode = "decode" /\ field \in Fields /\ input \in ProtoInputs(field)
       \/ mode = "encode" /\ field \in Fields /\ input \in CelInputs
       \/ mode = "export" /\ field = M("f", "Value") /\ input \in CelInputs

There ==
    /\ first = Waiting
    /\ first' = CASE mode = "decode" -> ToCel(input)
                  [] mode = "encode" -> SetField(ToProto(input, field), field)
                  [] mode = "export" -> Exported(input)
    /\ UNCHANGED <<mode, field, input, second>>

Back ==
    /\ first.res = "ok" /\ second = Waiting
    /\ second' = IF mode = "decode" THEN SetField(ToProto(first.val, field), field) ELSE ToCel(first.val)
    /\ UNCHANGED <<mode, field, input, first>>

Next == There \/ Back

Spec == Init /\ [][Next]_vars

-----------------------------------------------------------------------------
(* Properties.                                                             *)

\* Types that CEL sees as plain values, and that cannot be written back.
Dynamic == {"Struct", "Value", "ListValue"}

RECURSIVE Plain(_)

\* A message value that CEL can hold: no dynamic value, no float that is not
\* finite, no enum number or timestamp that is not valid.
Plain(p) ==
    CASE p.proto = "Message" -> p.type \notin Dynamic /\ (p.type = "Timestamp" => ToCel(p).res = "ok")
                                /\ \A n \in DOMAIN p.fields : Plain(p.fields[n])
      [] p.proto \in {"List", "Map"} -> \A i \in DOMAIN p.val : Plain(p.val[i])
      [] p.proto = "F32" -> Finite(p.val)
      [] p.proto = "Enum" -> p.val \in EnumValues
      [] OTHER -> TRUE

RECURSIVE Fits(_, _)

\* A CEL value of the type declared for a field, in the range of its kind.
FitsOne(c, f) ==
    /\ TypeOf(c) = CelType([f EXCEPT !.repeated = FALSE])
    /\ f.kind = "int32"  => c.val \in Signed(Narrow)
    /\ f.kind = "uint32" => c.val \in Unsigned(Narrow)
    /\ f.kind = "float"  => Finite(c.val) /\ InF32(c.val) /\ AsF32(c.val) = c.val
    /\ f.kind = "enum"   => c.val \in EnumValues
    /\ c.cel = "struct" => \A n \in DOMAIN c.fields : n \in FieldNames(f.of) /\ Fits(c.fields[n], FieldOf(f.of, n))
Fits(c, f) ==
    CASE IsMapField(f) -> c.cel = "map" /\ \A k \in DOMAIN c.val : /\ FitsOne(k, FieldOf(f.of, "key"))
                                                                   /\ FitsOne(c.val[k], FieldOf(f.of, "value"))
      [] f.repeated /\ ~IsMapField(f) -> c.cel = "list" /\ \A i \in DOMAIN c.val : FitsOne(c.val[i], f)
      [] OTHER -> FitsOne(c, f)

RECURSIVE Agrees(_, _)

\* a is c, where the fields c leaves out may have their default.
Agrees(a, c) ==
    CASE c.cel = "struct" -> a.type = c.type /\ \A n \in DOMAIN c.fields : Agrees(a.fields[n], c.fields[n])
      [] c.cel \in {"list", "map"} -> DOMAIN a.val = DOMAIN c.val /\ \A i \in DOMAIN c.val : Agrees(a.val[i], c.val[i])
      [] OTHER -> a = c

\* A part of a reply that goes through CEL into another message arrives as it
\* was: nothing is ever altered on the way, and what CEL can hold arrives.
RoundTrip ==
    mode = "decode" =>
        /\ second.res = "ok" => second.val = input
        /\ Plain(input) => first.res \in {"ok", "waiting"} /\ second.res \in {"ok", "waiting"}

\* Values decoded from a reply are of the type to_struct_def declares to CEL.
DecodedAsDeclared == mode = "decode" /\ Plain(input) /\ first.res = "ok" => Fits(first.val, field)

\* A CEL value of the declared type and range is sent as it is.
EncodesFaithfully ==
    mode = "encode" /\ Fits(input, field) =>
        /\ first.res \in {"ok", "waiting"}
        /\ second # Waiting => second.res = "ok" /\ Agrees(second.val, input)

\* Building a message fails with an error; it panics in set_field only for the
\* map keys that cel_map_key_to_proto lets through unchecked.
PanicsOnlyOnKeys ==
    mode = "encode" /\ first = Panic =>
        IsMapField(field) /\ \E k \in DOMAIN input.val : /\ k.cel \in {"bool", "string"}
                                                        /\ k.cel # FieldOf(field.of, "key").kind

RECURSIVE Json(_)

\* A CEL value as JSON has it: numbers are doubles, bytes are text.
Json(c) ==
    CASE c.cel \in {"int", "uint"} -> Cel("double", Num(c.val))
      [] c.cel = "bytes" -> Cel("string", c.val)
      [] c.cel \in {"list", "map"} -> [c EXCEPT !.val = [i \in DOMAIN c.val |-> Json(c.val[i])]]
      [] OTHER -> c

RECURSIVE IsExact(_)
IsExact(c) == CASE c.cel \in {"int", "uint"} -> c.val \in -Exact..Exact
                [] c.cel \in {"list", "map"} -> \A i \in DOMAIN c.val : IsExact(c.val[i])
                [] OTHER -> TRUE

\* What is exported to the host reads back as the same JSON value, but for
\* integers that no double is exact for.
ExportsJson == mode = "export" /\ second # Waiting /\ IsExact(input) => second = Ok(Json(input))

\* The headers of an authorization reply reach the header task complete and in
\* order: HeaderOption messages decoded to CEL and read as pairs.
Told(m) == "header" \in DOMAIN m.fields
PairOf(m) == LET h == m.fields["header"].fields IN <<h["key"].val, h["value"].val>>
HeadersArrive ==
    mode = "decode" /\ field = Repeated(M("f", "HeaderOption")) /\ first.res = "ok" =>
        LET told == SelectSeq(input.val, Told)
        IN  HeaderPairs(first.val) = [i \in DOMAIN told |-> PairOf(told[i])]
=============================================================================
