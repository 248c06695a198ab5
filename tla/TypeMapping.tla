---------------------------- MODULE TypeMapping ----------------------------
(***************************************************************************)
(* Column types, the categories both adapters map them to, the types a     *)
(* category is rendered as, and the values the row decoders make.  A type  *)
(* has a name, an argument (length, digits of a second, or scale) and may  *)
(* be an array.                                                            *)
(***************************************************************************)
EXTENDS Integers, CopyFormat

CONSTANTS
    ReadAs,     \* by <<variant, symbol>>: what a row decoder reads instead of it
    HighBytes   \* the bytes that are in no UTF-8 text

\* Instead of a symbol: the decoder fails, or reads NULL.
Refused == "(refused)"
Nothing == "(NULL)"

\* The variants whose Rust type does not hold all that their columns do:
\* Decimal has 28 digits, chrono no infinity, no zero month and no 24 hours, a
\* JSON number is an i64, a u64 or an f64.
Narrow == {"Decimal", "Date", "Time", "Timestamp", "TimestampNaive", "Json"}

ASSUME DecoderAssumption == \A p \in DOMAIN ReadAs : p[1] \in Narrow

NoArg == -1

\* The categories that keep the argument.
Sized == {"Decimal", "Char", "VarChar", "Binary", "VarBinary", "Time", "TimeTz",
          "Timestamp", "TimestampTz", "Bit"}

\* Categories by type name; a type that is not in the list is Unsupported.  A
\* name stands for its synonyms (mediumint for int, mediumtext for longtext,
\* polygon for point), and one with a u in front is unsigned.
PgCategories ==
    [bool |-> "Boolean", int2 |-> "SmallInt", int4 |-> "Integer",
     int8 |-> "BigInt", numeric |-> "Decimal", float4 |-> "Real",
     float8 |-> "Double", bpchar |-> "Char", varchar |-> "VarChar",
     text |-> "Text", bytea |-> "Blob", date |-> "Date", time |-> "Time",
     timetz |-> "TimeTz", timestamp |-> "Timestamp",
     timestamptz |-> "TimestampTz", interval |-> "Interval",
     uuid |-> "Uuid", json |-> "Json", jsonb |-> "JsonB", xml |-> "Xml",
     bit |-> "Bit", varbit |-> "Bit", enum |-> "Enum"]

MyCategories ==
    [tinyint1 |-> "Boolean", tinyint |-> "SmallInt",
     utinyint |-> "SmallInt", smallint |-> "SmallInt",
     usmallint |-> "SmallInt", int |-> "Integer", uint |-> "Integer",
     bigint |-> "BigInt", ubigint |-> "BigInt", decimal |-> "Decimal",
     float |-> "Real", double |-> "Double", char |-> "Char",
     varchar |-> "VarChar", text |-> "Text", longtext |-> "Text",
     binary |-> "Binary", varbinary |-> "VarBinary", blob |-> "Blob",
     longblob |-> "Blob", date |-> "Date", time |-> "Time",
     datetime |-> "Timestamp", timestamp |-> "Timestamp", year |-> "Integer",
     json |-> "JsonB", bit |-> "Bit", enum |-> "Enum", geometry |-> "Geometry",
     point |-> "Geometry"]

\* A geometry keeps the name of its type as its subtype.
CategoryIn(names, t) ==
    LET known == t.name \in DOMAIN names IN
    [name    |-> IF known THEN names[t.name] ELSE "Unsupported",
     arg     |-> IF known /\ names[t.name] \in Sized THEN t.arg ELSE NoArg,
     subtype |-> IF known /\ names[t.name] = "Geometry" THEN t.name ELSE "",
     array   |-> t.array,
     native  |-> t]

map_pg_type(t) == CategoryIn(PgCategories, t)
map_mysql_type(t) == CategoryIn(MyCategories, t)

-----------------------------------------------------------------------------
(* Types by category.                                                      *)

PgNames ==
    [Boolean |-> "bool", SmallInt |-> "int2", Integer |-> "int4",
     BigInt |-> "int8", Decimal |-> "numeric", Real |-> "float4",
     Double |-> "float8", Char |-> "bpchar", VarChar |-> "varchar",
     Text |-> "text", Binary |-> "bytea", VarBinary |-> "bytea",
     Blob |-> "bytea", Date |-> "date", Time |-> "time", TimeTz |-> "timetz",
     Timestamp |-> "timestamp", TimestampTz |-> "timestamptz",
     Interval |-> "interval", Uuid |-> "uuid", Json |-> "json",
     JsonB |-> "jsonb", Xml |-> "xml", Bit |-> "bit", Enum |-> "text",
     Geometry |-> "text"]

MyNames ==
    [Boolean |-> "tinyint1", SmallInt |-> "smallint", Integer |-> "int",
     BigInt |-> "bigint", Decimal |-> "decimal", Real |-> "float",
     Double |-> "double", Char |-> "char", VarChar |-> "varchar",
     Text |-> "text", Binary |-> "binary", VarBinary |-> "varbinary",
     Blob |-> "blob", Date |-> "date", Time |-> "time", TimeTz |-> "time",
     Timestamp |-> "datetime", TimestampTz |-> "datetime",
     Interval |-> "varchar", Uuid |-> "char", Json |-> "json",
     JsonB |-> "json", Xml |-> "text", Bit |-> "bit", Enum |-> "enum",
     Geometry |-> "geometry"]

\* Mutant: lengths are kept, digits are not.
PgLength(c) == IF c.name \in {"Char", "VarChar", "Bit"} THEN c.arg ELSE NoArg

PgArg(c) ==
    CASE c.name \in {"Char", "Bit"} /\ c.arg = NoArg -> 1
      [] c.name \in {"Binary", "VarBinary"} -> NoArg
      [] OTHER -> c.arg

category_to_pg_type(c) ==
    IF c.name = "Unsupported" THEN c.native
    ELSE [name |-> PgNames[c.name], arg |-> PgArg(c), array |-> c.array]

MyArg(c) ==
    CASE c.name = "Interval" -> 255
      [] c.name = "Uuid" -> 36
      [] c.name \in {"Char", "Binary", "Bit"} /\ c.arg = NoArg -> 1
      [] c.name \in {"VarChar", "VarBinary"} /\ c.arg = NoArg -> 255
      [] c.name \in {"Time", "TimeTz", "Timestamp", "TimestampTz"} /\ c.arg = 0 -> NoArg
      [] OTHER -> c.arg

category_to_mysql_type(c) ==
    CASE c.name = "Unsupported" -> c.native
      [] c.name # "Unsupported" /\ c.array -> [name |-> "json", arg |-> NoArg, array |-> FALSE]
      [] OTHER -> [name |-> MyNames[c.name], arg |-> MyArg(c), array |-> FALSE]

-----------------------------------------------------------------------------
(* Values.                                                                 *)

\* Parsed and written again, a JSON document has no spaces of its own.
Normalised(text) == SelectSeq(text, LAMBDA c : c # " ")

Reads(variant, c, what) ==
    <<variant, c>> \in DOMAIN ReadAs /\ ReadAs[<<variant, c>>] = what

\* The text of the Rust value: JSON is parsed, and what the type has no exact
\* value for is read as another one.
Held(variant, text) ==
    LET parsed == IF variant = "Json" THEN Normalised(text) ELSE text IN
    [i \in DOMAIN parsed |->
        IF <<variant, parsed[i]>> \in DOMAIN ReadAs THEN ReadAs[<<variant, parsed[i]>>]
        ELSE parsed[i]]

HeldItem(variant, d) ==
    IF d.kind = "null" \/ (\E c \in ToSet(d.text) : Reads(variant, c, Nothing))
    THEN Null ELSE Scalar(Held(variant, d.text))

\* The datum a variant holds of one that fits it.
HeldDatum(variant, d) ==
    IF d.kind = "array"
    THEN ArrayOf([i \in DOMAIN d.items |-> HeldItem(variant, d.items[i])])
    ELSE HeldItem(variant, d)

\* No part of the datum, nor of an element of it, fails to decode.
FitsItem(variant, d) == \A c \in ToSet(d.text) : ~Reads(variant, c, Refused)

\* Vec<Option<T>> has one dimension.
Fits(variant, d) ==
    /\ d.kind # "matrix"
    /\ FitsItem(variant, d)
    /\ \A i \in DOMAIN d.items : FitsItem(variant, d.items[i])

Undecodable == [variant |-> "Error", datum |-> Null]
NullValue == [variant |-> "Null", datum |-> Null]

\* row.try_get: an error, NULL, or the value, which is an Array of such.
Decoded(variant, d) ==
    LET held == HeldDatum(variant, d) IN
    CASE ~Fits(variant, d) -> Undecodable
      [] Fits(variant, d) /\ held.kind = "null" -> NullValue
      [] OTHER -> [variant |-> IF d.kind = "array" THEN "Array" ELSE variant, datum |-> held]

\* The other categories are cast to text by the server.
decodes_natively(c) ==
    c.name \notin {"TimeTz", "Interval", "Xml", "Bit", "Enum", "Geometry", "Unsupported"}

\* The variant per wire type.
PgVariants ==
    [bool |-> "Boolean", int2 |-> "SmallInt", int4 |-> "Integer",
     int8 |-> "BigInt", numeric |-> "Decimal", float4 |-> "Real",
     float8 |-> "Double", bpchar |-> "Text", varchar |-> "Text",
     text |-> "Text", bytea |-> "Binary", date |-> "Date", time |-> "Time",
     timestamp |-> "TimestampNaive", timestamptz |-> "Timestamp",
     uuid |-> "Uuid", json |-> "Json", jsonb |-> "Json"]

\* The variant of a column or of its elements.
PgVariant(t) ==
    IF decodes_natively(map_pg_type(t)) THEN PgVariants[t.name] ELSE "Text"

\* The server's text of an array of plain words.
ArrayText(datum) ==
    IF datum.kind = "matrix" THEN Scalar(datum.text)
    ELSE IF datum.kind # "array" THEN datum
    ELSE Scalar(<<"{">> \o FlattenSeq([i \in DOMAIN datum.items |->
            (IF i > 1 THEN <<",">> ELSE <<>>)
            \o (IF datum.items[i] = Null THEN NullWord ELSE datum.items[i].text)]) \o <<"}">>)

\* A column that is cast is a text; arrays of bytea have no decoder.
PgDecode(t, datum) ==
    CASE ~decodes_natively(map_pg_type(t)) -> Decoded("Text", ArrayText(datum))
      [] decodes_natively(map_pg_type(t)) /\ t.array /\ t.name = "bytea" -> Undecodable
      [] OTHER -> Decoded(PgVariant(t), datum)

\* SET and the spatial types have no decoder of their own; SET is always text.
MyVariants ==
    [tinyint1 |-> "SmallInt", tinyint |-> "SmallInt",
     utinyint |-> "SmallInt", smallint |-> "SmallInt",
     usmallint |-> "Integer", int |-> "Integer", uint |-> "BigInt",
     bigint |-> "BigInt", ubigint |-> "Decimal", decimal |-> "Decimal",
     float |-> "Real", double |-> "Double", char |-> "Text",
     varchar |-> "Text", text |-> "Text", longtext |-> "Text",
     binary |-> "Binary", varbinary |-> "Binary", blob |-> "Binary",
     longblob |-> "Binary", date |-> "Date", time |-> "Time",
     datetime |-> "TimestampNaive", timestamp |-> "TimestampNaive",
     year |-> "Integer", json |-> "Json", bit |-> "Text", enum |-> "Text",
     set |-> "Text", geometry |-> "Fallback", point |-> "Fallback"]

\* Bits come in whole bytes.
BitText(text) ==
    [i \in 1..(8 * ((Len(text) + 7) \div 8) - Len(text)) |-> "0"] \o text

\* The bytes of a text, as characters and back: only the byte 0 needs another
\* symbol, for Postgres has it in bytea and not in text.
Nul == "\\0"
AsText(bytes) == [i \in DOMAIN bytes |-> IF bytes[i] = "00" THEN Nul ELSE bytes[i]]
AsBytes(text) == [i \in DOMAIN text |-> IF text[i] = Nul THEN "00" ELSE text[i]]

\* Text if the bytes are UTF-8, else the bytes.
Fallback(bytes) ==
    IF ToSet(bytes) \cap HighBytes = {}
    THEN [variant |-> "Text", datum |-> Scalar(AsText(bytes))]
    ELSE [variant |-> "Binary", datum |-> Scalar(bytes)]

MyDecode(t, datum) ==
    CASE datum.kind = "null" -> NullValue
      [] datum.kind # "null" /\ t.name = "bit" ->
            [variant |-> "Text", datum |-> Scalar(BitText(datum.text))]
      [] datum.kind # "null" /\ MyVariants[t.name] = "Fallback" -> Fallback(datum.text)
      [] OTHER -> Decoded(MyVariants[t.name], datum)
=============================================================================
