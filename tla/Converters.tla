---------------------------- MODULE Converters ----------------------------
(***************************************************************************)
(* The conversions between CEL values and protobuf messages                *)
(* (src/src/services/dynamic/converters.rs).  A value is a record tagged   *)
(* with its variant; a message holds its fields that are set, and those    *)
(* without presence always.  Integers have two small widths in place of 32 *)
(* and 64 bits; doubles are integers or symbols.                           *)
(***************************************************************************)
EXTENDS Integers, Sequences, SequencesExt

CONSTANTS
    Narrow, Wide,   \* the widths of i32 and i64
    MaxFloat,       \* the largest f32, as an integer
    Exact,          \* integers up to here are exact as f64
    Second,         \* nanoseconds in a second
    MaxSeconds,     \* the last second chrono represents
    EnumValues,     \* the numbers of the enum type
    Schema,         \* [message type -> sequence of fields]
    MapEntries      \* the types of map entries, with fields key and value

FieldNames(t) == {Schema[t][i].name : i \in DOMAIN Schema[t]}
FieldOf(t, n) == LET i == CHOOSE i \in DOMAIN Schema[t] : Schema[t][i].name = n IN Schema[t][i]
IsMapField(f) == f.repeated /\ f.kind = "message" /\ f.of \in MapEntries

Signed(w) == -(2^(w - 1)) .. (2^(w - 1) - 1)
Unsigned(w) == 0 .. (2^w - 1)

\* Mutant: the largest value turns negative.
WrapEarly(v, w) == LET m == v % 2^w IN IF m >= 2^(w - 1) - 1 THEN m - 2^w ELSE m

\* v as iw
Wrap(v, w) == LET m == v % 2^w IN IF m >= 2^(w - 1) THEN m - 2^w ELSE m

Cel(t, v) == [cel |-> t, val |-> v]
Proto(t, v) == [proto |-> t, val |-> v]
Message(t, fs) == [proto |-> "Message", type |-> t, fields |-> fs]

Ok(v) == [res |-> "ok", val |-> v]
Err == [res |-> "err"]
Panic == [res |-> "panic"]

\* The results of the members of a function as one: all values, or a failure;
\* of a sequence, the first failure.
All(rs) ==
    LET bad == {i \in DOMAIN rs : rs[i].res # "ok"}
    IN  IF bad = {} THEN Ok([i \in DOMAIN rs |-> rs[i].val]) ELSE rs[CHOOSE i \in bad : TRUE]
InOrder(rs) ==
    LET bad == {i \in DOMAIN rs : rs[i].res # "ok"}
    IN  IF bad = {} THEN All(rs) ELSE rs[CHOOSE i \in bad : \A j \in bad : i <= j]

-----------------------------------------------------------------------------
(* What CEL is told of a field: to_struct_def.                             *)

CelType(f) ==
    CASE IsMapField(f) -> "map"
      [] f.repeated /\ ~IsMapField(f) -> "list"
      [] OTHER ->
           CASE f.kind \in {"int32", "int64", "enum"} -> "int"
             [] f.kind \in {"uint32", "uint64"} -> "uint"
             [] f.kind \in {"float", "double"} -> "double"
             [] f.kind \in {"bool", "string", "bytes"} -> f.kind
             [] f.kind = "message" -> IF f.of = "Timestamp" THEN "timestamp" ELSE f.of

TypeOf(c) == IF c.cel = "struct" THEN c.type ELSE c.cel

-----------------------------------------------------------------------------
(* From protobuf to CEL.                                                   *)

\* Mutant: only the seconds are kept.
ToSeconds(s, n) == Ok(Cel("int", s))

\* DateTime::from_timestamp, which takes a leap second at the end of a minute
\* (here, of every second second); the nanoseconds come as u32.
ToTimestamp(s, n) ==
    IF s \in -MaxSeconds..MaxSeconds /\ (n \in 0..(Second - 1) \/ (n \in Second..(2 * Second - 1) /\ s % 2 = 1))
    THEN Ok([cel |-> "timestamp", val |-> <<s, n>>]) ELSE Err

MapKeyToCel(k) ==
    Cel(CASE k.proto = "Bool" -> "bool"
          [] k.proto \in {"I32", "I64"} -> "int"
          [] k.proto \in {"U32", "U64"} -> "uint"
          [] k.proto = "String" -> "string", k.val)

RECURSIVE ToCel(_)

StructToCel(m) ==
    LET r == All([n \in DOMAIN m.fields |-> ToCel(m.fields[n])])
    IN  IF r.res = "ok" THEN Ok([cel |-> "struct", type |-> m.type, fields |-> r.val]) ELSE r

ListToCel(items) ==
    LET r == InOrder([i \in DOMAIN items |-> ToCel(items[i])])
    IN  IF r.res = "ok" THEN Ok(Cel("list", r.val)) ELSE r

MapToCel(entries) ==
    LET r == All([k \in DOMAIN entries |-> ToCel(entries[k])])
    IN  IF r.res = "ok"
        THEN Ok(Cel("map", [c \in {MapKeyToCel(k) : k \in DOMAIN entries} |->
                               r.val[CHOOSE k \in DOMAIN entries : MapKeyToCel(k) = c]]))
        ELSE r

\* unwrap_proto_value: whichever alternative is set.
UnwrapValue(m) ==
    CASE DOMAIN m.fields = {} -> Ok(Cel("null", 0))
      [] "null_value" \in DOMAIN m.fields -> Ok(Cel("null", 0))
      [] OTHER -> ToCel(m.fields[CHOOSE n \in DOMAIN m.fields : TRUE])

\* proto_value_to_cel_val
ToCel(p) ==
    CASE p.proto = "Bool" -> Ok(Cel("bool", p.val))
      [] p.proto \in {"I32", "I64", "Enum"} -> Ok(Cel("int", p.val))
      [] p.proto \in {"U32", "U64"} -> Ok(Cel("uint", p.val))
      [] p.proto \in {"F32", "F64"} -> Ok(Cel("double", p.val))
      [] p.proto = "String" -> Ok(Cel("string", p.val))
      [] p.proto = "Bytes" -> Ok(Cel("bytes", p.val))
      [] p.proto = "List" -> ListToCel(p.val)
      [] p.proto = "Map" -> MapToCel(p.val)
      [] p.proto = "Message" ->
           CASE p.type = "Timestamp" -> ToTimestamp(p.fields["seconds"].val, p.fields["nanos"].val)
             [] p.type = "Struct" -> MapToCel(p.fields["fields"].val)
             [] p.type = "Value" -> UnwrapValue(p)
             [] p.type = "ListValue" -> ListToCel(p.fields["values"].val)
             [] OTHER -> StructToCel(p)

-----------------------------------------------------------------------------
(* From CEL to protobuf.                                                   *)

\* f as f32: a third is rounded, and is not a third again as f64.
AsF32(d) == IF d = [sym |-> "third"] THEN [sym |-> "third32"] ELSE d
InF32(d) == "num" \in DOMAIN d => d.num \in -MaxFloat..MaxFloat
Finite(d) == d \notin {[sym |-> "inf"], [sym |-> "nan"]}

\* Mutant: integer keys are taken as they come.
KeyAsIs(k, f) ==
    Ok(Proto([bool |-> "Bool", string |-> "String", int |-> "I64", uint |-> "U64"][k.cel], k.val))

\* cel_map_key_to_proto: the kind is looked at for integers only.
KeyToProto(k, f) ==
    CASE k.cel = "bool" -> Ok(Proto("Bool", k.val))
      [] k.cel = "string" -> Ok(Proto("String", k.val))
      [] k.cel = "int" -> CASE f.kind = "int32" -> Ok(Proto("I32", Wrap(k.val, Narrow)))
                            [] f.kind = "int64" -> Ok(Proto("I64", k.val))
                            [] OTHER -> Err
      [] k.cel = "uint" -> CASE f.kind = "uint32" -> Ok(Proto("U32", k.val % 2^Narrow))
                             [] f.kind = "uint64" -> Ok(Proto("U64", k.val))
                             [] OTHER -> Err

\* cel_val_to_single_proto_value, of a kind that is not a message.
Scalar(c, f) ==
    IF CelType([f EXCEPT !.repeated = FALSE]) # c.cel THEN Err
    ELSE CASE f.kind = "bool"   -> Ok(Proto("Bool", c.val))
           [] f.kind = "int32"  -> Ok(Proto("I32", Wrap(c.val, Narrow)))
           [] f.kind = "int64"  -> Ok(Proto("I64", c.val))
           [] f.kind = "uint32" -> Ok(Proto("U32", c.val % 2^Narrow))
           [] f.kind = "uint64" -> Ok(Proto("U64", c.val))
           [] f.kind = "float"  -> IF Finite(c.val) /\ InF32(c.val) THEN Ok(Proto("F32", AsF32(c.val))) ELSE Err
           [] f.kind = "double" -> Ok(Proto("F64", c.val))
           [] f.kind = "string" -> Ok(Proto("String", c.val))
           [] f.kind = "bytes"  -> Ok(Proto("Bytes", c.val))
           [] f.kind = "enum"   -> IF c.val \in Signed(Narrow) /\ c.val \in EnumValues
                                   THEN Ok(Proto("Enum", c.val)) ELSE Err

\* The variant of a value of each kind, and the value of a field never set.
Variant == [bool |-> "Bool", int32 |-> "I32", int64 |-> "I64", uint32 |-> "U32", uint64 |-> "U64",
            float |-> "F32", double |-> "F64", string |-> "String", bytes |-> "Bytes", enum |-> "Enum"]
Zero(k) == CASE k = "bool" -> FALSE
             [] k \in {"string", "bytes"} -> ""
             [] k \in {"float", "double"} -> [num |-> 0]
             [] OTHER -> 0
Default(f) == CASE IsMapField(f) -> Proto("Map", <<>>)
                [] f.repeated /\ ~IsMapField(f) -> Proto("List", <<>>)
                [] OTHER -> Proto(Variant[f.kind], Zero(f.kind))

\* Whether prost-reflect takes p as an element of field f, or as its value.
Element(p, f) == IF f.kind = "message" THEN p.proto = "Message" /\ p.type = f.of ELSE p.proto = Variant[f.kind]
Compatible(p, f) ==
    CASE IsMapField(f) -> /\ p.proto = "Map"
                          /\ \A k \in DOMAIN p.val : /\ Element(k, FieldOf(f.of, "key"))
                                                   /\ Element(p.val[k], FieldOf(f.of, "value"))
      [] f.repeated /\ ~IsMapField(f) -> p.proto = "List" /\ \A i \in DOMAIN p.val : Element(p.val[i], f)
      [] OTHER -> Element(p, f)

\* DynamicMessage::set_field
SetField(r, f) == IF r.res = "ok" /\ ~Compatible(r.val, f) THEN Panic ELSE r

RECURSIVE ToProto(_, _)

\* struct_to_dynamic_message: the fields of the descriptor that the struct has.
StructToProto(c, t) ==
    LET given == SelectSeq(Schema[t], LAMBDA f : f.name \in DOMAIN c.fields)
        r == InOrder([i \in DOMAIN given |-> SetField(ToProto(c.fields[given[i].name], given[i]), given[i])])
        names == {n \in FieldNames(t) : n \in DOMAIN c.fields \/ ~FieldOf(t, n).presence}
    IN  IF r.res # "ok" THEN r
        ELSE Ok(Message(t, [n \in names |->
                   IF n \in DOMAIN c.fields THEN r.val[CHOOSE i \in DOMAIN given : given[i].name = n]
                   ELSE Default(FieldOf(t, n))]))

Single(c, f) ==
    CASE f.kind # "message" -> Scalar(c, f)
      [] f.kind = "message" /\ f.of = "Timestamp" /\ c.cel = "timestamp" ->
           Ok(Message("Timestamp", [seconds |-> Proto("I64", c.val[1]), nanos |-> Proto("I32", c.val[2])]))
      [] OTHER -> IF c.cel = "struct" THEN StructToProto(c, f.of) ELSE Err

ListToProto(c, f) ==
    IF c.cel # "list" THEN Err
    ELSE LET r == InOrder([i \in DOMAIN c.val |-> Single(c.val[i], f)])
         IN  IF r.res = "ok" THEN Ok(Proto("List", r.val)) ELSE r

MapToProto(c, f) ==
    IF c.cel # "map" THEN Err
    ELSE LET ks == [k \in DOMAIN c.val |-> KeyToProto(k, FieldOf(f.of, "key"))]
             vs == [k \in DOMAIN c.val |-> Single(c.val[k], FieldOf(f.of, "value"))]
         IN  IF All(ks).res # "ok" THEN All(ks)
             ELSE IF All(vs).res # "ok" THEN All(vs)
             ELSE Ok(Proto("Map", [p \in {ks[k].val : k \in DOMAIN ks} |->
                              vs[CHOOSE k \in DOMAIN ks : ks[k].val = p].val]))

\* cel_val_to_proto_value
ToProto(c, f) ==
    CASE IsMapField(f) -> MapToProto(c, f)
      [] f.repeated /\ ~IsMapField(f) -> ListToProto(c, f)
      [] OTHER -> Single(c, f)

-----------------------------------------------------------------------------
(* Values given to the host: cel_value_to_bytes.                           *)

\* Mutant: the number goes through f32.
ViaF32(i) == IF i > MaxFloat THEN MaxFloat ELSE i

\* i as f64: rounded to even beyond the integers that are exact.
AsF64(i) == IF i \in -Exact..Exact \/ i % 2 = 0 THEN i ELSE 4 * ((i + 2) \div 4)

RECURSIVE ToProstValue(_)

ToProstStruct(c) ==
    LET r == All([k \in DOMAIN c.val |-> ToProstValue(c.val[k])])
    IN  IF (\E k \in DOMAIN c.val : k.cel # "string") THEN Err
        ELSE IF r.res # "ok" THEN r
        ELSE Ok(Message("Struct", [fields |-> Proto("Map",
                   [p \in {Proto("String", k.val) : k \in DOMAIN c.val} |-> r.val[Cel("string", p.val)]])]))

ToProstList(c) ==
    LET r == InOrder([i \in DOMAIN c.val |-> ToProstValue(c.val[i])])
    IN  IF r.res = "ok" THEN Ok(Message("ListValue", [values |-> Proto("List", r.val)])) ELSE r

OneOf(n, p) == Message("Value", [x \in {n} |-> p])
WithKind(n, r) == IF r.res = "ok" THEN Ok(OneOf(n, r.val)) ELSE r

\* cel_to_prost_value; bytes are read as text.
ToProstValue(c) ==
    CASE c.cel = "null" -> Ok(OneOf("null_value", Proto("Enum", 0)))
      [] c.cel = "double" -> Ok(OneOf("number_value", Proto("F64", c.val)))
      [] c.cel \in {"int", "uint"} -> Ok(OneOf("number_value", Proto("F64", [num |-> AsF64(c.val)])))
      [] c.cel \in {"string", "bytes"} -> Ok(OneOf("string_value", Proto("String", c.val)))
      [] c.cel = "bool" -> Ok(OneOf("bool_value", Proto("Bool", c.val)))
      [] c.cel = "map" -> WithKind("struct_value", ToProstStruct(c))
      [] c.cel = "list" -> WithKind("list_value", ToProstList(c))
      [] OTHER -> Err

\* The message that cel_value_to_bytes encodes: a map is a Struct by itself.
Exported(c) == IF c.cel = "map" THEN ToProstStruct(c) ELSE ToProstValue(c)

-----------------------------------------------------------------------------
(* Headers in a reply: cel_value_to_header_pairs.                          *)

IsText(c, n) == n \in DOMAIN c.fields /\ c.fields[n].cel = "string"
IsPair(c) == c.cel = "struct" /\ IsText(c, "key") /\ IsText(c, "value")

\* Mutant: only pairs at the top are looked for.
HeaderPairFlat(c) == IF IsPair(c) THEN <<<<c.fields["key"].val, c.fields["value"].val>>>> ELSE <<>>

\* The pair of one item, if it has one.
HeaderPair(c) ==
    CASE c.cel = "list" -> IF Len(c.val) = 2 /\ c.val[1].cel = "string" /\ c.val[2].cel = "string"
                           THEN <<<<c.val[1].val, c.val[2].val>>>> ELSE <<>>
      [] IsPair(c) -> <<<<c.fields["key"].val, c.fields["value"].val>>>>
      [] c.cel = "struct" /\ ~IsPair(c) /\ "header" \in DOMAIN c.fields ->
           LET h == c.fields["header"]
           IN  IF IsPair(h) THEN <<<<h.fields["key"].val, h.fields["value"].val>>>> ELSE <<>>
      [] OTHER -> <<>>

HeaderPairs(c) == IF c.cel = "list" THEN FlattenSeq([i \in DOMAIN c.val |-> HeaderPair(c.val[i])]) ELSE <<>>
=============================================================================
