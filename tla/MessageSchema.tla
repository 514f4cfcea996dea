--------------------------- MODULE MessageSchema ---------------------------
(***************************************************************************)
(* Message types with every kind of field the conversions tell apart, and  *)
(* the well-known types they treat specially.                              *)
(***************************************************************************)
F(n, k) == [name |-> n, kind |-> k, of |-> "", repeated |-> FALSE, presence |-> FALSE]
Optional(f) == [f EXCEPT !.presence = TRUE]
Repeated(f) == [f EXCEPT !.repeated = TRUE, !.presence = FALSE]
M(n, t) == [name |-> n, kind |-> "message", of |-> t, repeated |-> FALSE, presence |-> TRUE]
MapOf(n, t) == [M(n, t) EXCEPT !.repeated = TRUE, !.presence = FALSE]

SmallSchema ==
    [Inner |-> <<F("n", "int32"), Optional(F("o", "int64")), Repeated(F("tags", "string"))>>,
     IntEntry |-> <<F("key", "int32"), F("value", "enum")>>,
     StrEntry |-> <<F("key", "string"), M("value", "Inner")>>,
     BoolEntry |-> <<F("key", "bool"), F("value", "double")>>,
     UIntEntry |-> <<F("key", "uint32"), F("value", "uint64")>>,
     Header |-> <<F("key", "string"), F("value", "string")>>,
     HeaderOption |-> <<M("header", "Header")>>,
     Timestamp |-> <<F("seconds", "int64"), F("nanos", "int32")>>,
     StructEntry |-> <<F("key", "string"), M("value", "Value")>>,
     Struct |-> <<MapOf("fields", "StructEntry")>>,
     Value |-> <<Optional(F("null_value", "enum")), Optional(F("number_value", "double")),
                 Optional(F("string_value", "string")), Optional(F("bool_value", "bool")),
                 M("struct_value", "Struct"), M("list_value", "ListValue")>>,
     ListValue |-> <<Repeated(M("values", "Value"))>>]
SmallEntries == {"IntEntry", "StrEntry", "BoolEntry", "UIntEntry", "StructEntry"}
=============================================================================
