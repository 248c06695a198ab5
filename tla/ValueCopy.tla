----------------------------- MODULE ValueCopy -----------------------------
(***************************************************************************)
(* A row on its way from a table to a copy of it: the column types are     *)
(* reflected and rendered for the target, the row is decoded, written, and *)
(* stored by the target's server.                                          *)
(***************************************************************************)
EXTENDS TypeMapping

CONSTANTS
    Cells,      \* per route <<from, to>>: the cells, [type, datum], a row is made of
    MaxCells,   \* bound on the cells of a row
    Documents,  \* the texts that are JSON documents
    Wide,       \* the numbers only an unsigned type holds
    Large       \* texts and bytes of more than 64 KB

ASSUME CopyAssumption ==
    /\ MaxCells \in Nat
    /\ DOMAIN Cells \subseteq {"pg", "mysql"} \X {"pg", "mysql"}

VARIABLES
    route,    \* the engines
    row,      \* the cells in the source table
    pc,       \* "create", "decode", "write", "send", "stored" or "failed"
    types,    \* the column types of the target table
    values,   \* the decoded row
    written,  \* cells of the row in the buffer
    buffer,   \* the data of the COPY
    stored    \* the rows of the target table

vars == <<route, row, pc, types, values, written, buffer, stored>>

From == route[1]
To == route[2]

Init ==
    /\ route \in DOMAIN Cells
    /\ row \in UNION {[1..n -> Cells[route]] : n \in 1..MaxCells}
    /\ pc = "create" /\ types = <<>> /\ values = <<>>
    /\ written = 0 /\ buffer = <<>> /\ stored = <<>>

CategoryOf(engine, t) == IF engine = "pg" THEN map_pg_type(t) ELSE map_mysql_type(t)

Rendered(engine, c) ==
    IF engine = "pg" THEN category_to_pg_type(c) ELSE category_to_mysql_type(c)

-----------------------------------------------------------------------------
(* What the servers make of a text.                                        *)

\* The text with so many digits after the point.
Rounded(text, digits) ==
    LET point == CHOOSE i \in DOMAIN text : text[i] = "." IN
    IF "." \notin ToSet(text) THEN text
    ELSE SubSeq(text, 1, IF digits = 0 THEN point - 1 ELSE point + digits)

\* A text type has no character 0.
PgAccepts(t, text) == Nul \notin ToSet(text) /\
    CASE t.name \in {"varchar", "bpchar", "varbit"} -> t.arg = NoArg \/ Len(text) <= t.arg
      [] t.name = "bit" -> Len(text) = t.arg
      [] t.name = "bool" -> text \in {<<"t">>, <<"f">>, <<"1">>, <<"0">>}
      [] t.name \in {"int2", "int4", "int8"} -> ToSet(text) \cap Wide = {}
      [] t.name \in {"json", "jsonb"} -> text \in Documents
      [] t.name = "bytea" -> Len(text) >= 2 /\ SubSeq(text, 1, 2) = <<"\\", "x">>
      [] OTHER -> TRUE

PgKeeps(t, text) ==
    CASE t.name \in {"numeric", "time", "timestamp", "timestamptz"} /\ t.arg # NoArg ->
            Rounded(text, t.arg)
      [] t.name = "bool" -> IF text \in {<<"t">>, <<"1">>} THEN <<"t">> ELSE <<"f">>
      [] t.name = "bytea" -> SubSeq(text, 3, Len(text))
      [] t.name = "jsonb" -> Normalised(text)
      [] OTHER -> text

\* The datum a field of the data is for a column: an array literal is taken
\* apart first, unless it has several dimensions.
FieldDatum(t, field) ==
    CASE t.array /\ field.kind = "scalar" /\ IsMatrixLiteral(field.text) -> Matrix(field.text)
      [] t.array /\ field.kind = "scalar" /\ IsArrayLiteral(field.text)
                 /\ ~IsMatrixLiteral(field.text) -> ArrayOf(Elements(field.text))
      [] OTHER -> field

PgStorable(t, d) ==
    CASE d.kind = "null" -> TRUE
      [] d.kind = "array" -> \A i \in DOMAIN d.items :
                                d.items[i] = Null \/ PgAccepts(t, d.items[i].text)
      [] d.kind = "matrix" -> t.array
      [] OTHER -> ~t.array /\ PgAccepts(t, d.text)

PgStored(t, d) ==
    CASE d.kind = "null" -> Null
      [] d.kind = "array" ->
            ArrayOf([i \in DOMAIN d.items |->
                IF d.items[i] = Null THEN Null ELSE Scalar(PgKeeps(t, d.items[i].text))])
      [] d.kind = "matrix" -> d
      [] OTHER -> Scalar(PgKeeps(t, d.text))

\* In strict mode, the server's default, which sqlx leaves on.
MyAccepts(t, text) ==
    CASE t.name \in {"char", "varchar", "binary", "varbinary"} -> Len(text) <= t.arg
      [] t.name = "bit" -> 8 * Len(text) <= t.arg
      [] t.name \in {"smallint", "int", "bigint"} -> ToSet(text) \cap Wide = {}
      [] t.name = "time" -> "+" \notin ToSet(text)
      [] t.name = "json" -> text \in Documents
      [] t.name \in {"text", "blob"} -> ToSet(text) \cap Large = {}
      [] OTHER -> TRUE

Spatial == {"geometry", "point"}

MyKeeps(t, text) ==
    CASE t.name \in {"decimal", "time", "datetime", "timestamp"} ->
            Rounded(text, IF t.arg = NoArg THEN 0 ELSE t.arg)
      [] t.name = "tinyint1" -> IF text = <<"t">> THEN <<"1">> ELSE IF text = <<"f">> THEN <<"0">> ELSE text
      [] t.name = "json" -> Normalised(text)
      [] t.name \in Spatial -> AsBytes(text)
      [] OTHER -> text

MyStorable(t, d) == d.kind = "null" \/ MyAccepts(t, d.text)
MyStored(t, d) == IF d.kind = "null" THEN Null ELSE Scalar(MyKeeps(t, d.text))

\* The server takes the datum and stores it as it is.
MyStays(t, d) == MyStorable(t, d) /\ MyStored(t, d) = d

\* What the decoder of its column makes of a datum it can decode.
HeldOf(engine, t, d) ==
    HeldDatum(IF engine = "pg" THEN PgVariant(t) ELSE MyVariants[t.name], d)

\* What a MySQL table holds: no arrays, a length where the server shows one, no
\* digits as no argument, and values the server would store as they are, also
\* as the decoder rounds them.
MyHolds(t, d) ==
    /\ t.array = FALSE /\ t.name \in DOMAIN MyVariants
    /\ t.name \in {"char", "varchar", "binary", "varbinary"} => t.arg \in Nat
    /\ t.name = "bit" => t.arg \in 1..64
    /\ t.name \in {"time", "datetime", "timestamp"} => t.arg # 0
    /\ \/ d = Null
       \/ /\ d = Scalar(d.text) /\ d.text \in Seq(STRING)
          /\ IF t.name = "bit" THEN Len(d.text) = t.arg
             ELSE /\ MyStays(t, d)
                  /\ Fits(MyVariants[t.name], d) => MyStays(t, HeldOf("mysql", t, d))

ASSUME CellAssumption ==
    \A r \in DOMAIN Cells : r[1] = "mysql" =>
        \A c \in Cells[r] : MyHolds(c.type, c.datum)

-----------------------------------------------------------------------------
(* The copy.                                                               *)

Fail == pc' = "failed" /\ UNCHANGED <<route, row, types, values, written, buffer, stored>>

\* A type without a category is passed on by its name.
Creatable == From = To \/ \A i \in DOMAIN row : CategoryOf(From, row[i].type).name # "Unsupported"

CreateTarget ==
    /\ pc = "create" /\ Creatable
    /\ types' = [i \in DOMAIN row |-> Rendered(To, CategoryOf(From, row[i].type))]
    /\ pc' = "decode"
    /\ UNCHANGED <<route, row, values, written, buffer, stored>>

CreateRefused == pc = "create" /\ ~Creatable /\ Fail

DecodedRow ==
    [i \in DOMAIN row |-> IF From = "pg" THEN PgDecode(row[i].type, row[i].datum)
                                         ELSE MyDecode(row[i].type, row[i].datum)]

Decode ==
    /\ pc = "decode" /\ Undecodable \notin ToSet(DecodedRow)
    /\ values' = DecodedRow
    /\ pc' = "write"
    /\ UNCHANGED <<route, row, types, written, buffer, stored>>

\* Mutant: a cell that cannot be decoded is left out.
SkipCell ==
    /\ pc = "decode" /\ Undecodable \in ToSet(DecodedRow)
    /\ values' = SelectSeq(DecodedRow, LAMBDA v : v # Undecodable)
    /\ pc' = "write"
    /\ UNCHANGED <<route, row, types, written, buffer, stored>>

\* The first cell that cannot be decoded is the row's error.
DecodeError == pc = "decode" /\ Undecodable \in ToSet(DecodedRow) /\ Fail

\* write_copy_line, cell by cell.
WriteCell ==
    /\ pc = "write" /\ To = "pg" /\ written < Len(values)
    /\ buffer' = buffer \o (IF written > 0 THEN <<"\t">> ELSE <<>>)
                        \o write_copy_value(values[written + 1])
    /\ written' = written + 1
    /\ UNCHANGED <<route, row, pc, types, values, stored>>

EndLine ==
    /\ pc = "write" /\ To = "pg" /\ written = Len(values)
    /\ buffer' = Append(buffer, "\n")
    /\ pc' = "send"
    /\ UNCHANGED <<route, row, types, values, written, stored>>

\* The server takes the data if every line has a field for every column.
Datums == [l \in DOMAIN Lines(buffer) |->
              [i \in DOMAIN Lines(buffer)[l] |->
                  IF i \in DOMAIN types THEN FieldDatum(types[i], Lines(buffer)[l][i]) ELSE Null]]

Loadable ==
    /\ Datums # <<>>
    /\ \A l \in DOMAIN Datums :
          /\ Len(Datums[l]) = Len(types)
          /\ \A i \in DOMAIN types : PgStorable(types[i], Datums[l][i])

Load ==
    /\ pc = "send" /\ Loadable
    /\ stored' = [l \in DOMAIN Datums |-> [i \in DOMAIN types |-> PgStored(types[i], Datums[l][i])]]
    /\ pc' = "stored"
    /\ UNCHANGED <<route, row, types, values, written, buffer>>

LoadRefused == pc = "send" /\ ~Loadable /\ Fail

\* An array has no place in a MySQL row; everything else is bound as it is.
Bindable ==
    \A i \in DOMAIN values :
        values[i].variant # "Array" /\ MyStorable(types[i], values[i].datum)

Insert ==
    /\ pc = "write" /\ To = "mysql" /\ Bindable
    /\ stored' = <<[i \in DOMAIN values |-> MyStored(types[i], values[i].datum)]>>
    /\ pc' = "stored"
    /\ UNCHANGED <<route, row, types, values, written, buffer>>

InsertRefused == pc = "write" /\ To = "mysql" /\ ~Bindable /\ Fail

Next ==
    \/ CreateTarget \/ CreateRefused \/ Decode \/ DecodeError
    \/ WriteCell \/ EndLine \/ Load \/ LoadRefused \/ Insert \/ InsertRefused

Spec == Init /\ [][Next]_vars

-----------------------------------------------------------------------------

TypeOK ==
    /\ pc \in {"create", "decode", "write", "send", "stored", "failed"}
    /\ written \in 0..Len(row)
    /\ pc \in {"write", "send", "stored"} => Len(types) = Len(row) /\ Len(values) = Len(row)
    /\ pc = "stored" => stored # <<>>

\* What a text says in a column of this type: JSON says itself, character by
\* character, and a spatial value its bytes.
Meaning(t, text) ==
    CASE t.name = "bool" -> IF text = <<"t">> THEN <<"1">> ELSE <<"0">>
      [] t.name \in Spatial -> <<"\\", "x">> \o text
      [] OTHER -> text

Same(t, d, u, e) ==
    /\ d.kind = e.kind
    /\ d.kind \in {"scalar", "matrix"} => Meaning(t, d.text) = Meaning(u, e.text)
    /\ d.kind = "array" =>
          /\ DOMAIN d.items = DOMAIN e.items
          /\ \A i \in DOMAIN d.items :
                /\ d.items[i].kind = e.items[i].kind
                /\ Meaning(t, d.items[i].text) = Meaning(u, e.items[i].text)

\* The same, or what the decoder has made of it.
Copied(t, d, u, e) ==
    LET held == HeldOf(From, t, d) IN
    Same(t, d, u, e) \/ (held # d /\ Same(t, held, u, e))

\* A copy that succeeds is one row with the meaning of the source's, cell by
\* cell, whatever separators, quotes, backslashes and NULLs the cells hold
\* (Postgres bulk.rs 56-205, query.rs 101-276; testkit lib.rs 171-173).  Where
\* the decoder itself changes a value without an error, which is excepted here,
\* the copy has exactly what was decoded: Postgres json is rewritten without
\* its spaces (query.rs 234, though ddbcore types.rs 36-40 has json as verbatim
\* text), JSON numbers are rounded to an f64, numerics to 28 digits, 24:00 is
\* 00:00, and a date of zeros is NULL.
NothingLostSilently ==
    pc = "stored" =>
        /\ Len(stored) = 1
        /\ \A i \in DOMAIN row : Copied(row[i].type, row[i].datum, types[i], stored[1][i])

\* The columns whose rows cannot be copied: the decoder has no arrays of bytea
\* (query.rs 191-209), and MySQL takes the text a BIT is decoded to for its
\* bytes (MySQL query.rs 204-216).
Uncopyable(t) == (t.name = "bytea" /\ t.array) \/ (From = "mysql" /\ t.name = "bit")

\* The values that cannot be copied: a symbol or an element the Rust type has
\* no value for, and arrays of several dimensions (query.rs 211-276, MySQL
\* query.rs 189-222).
Unreadable(t, d) ==
    LET variant == IF From = "pg" THEN PgVariant(t) ELSE MyVariants[t.name] IN
    \/ d.kind = "matrix" /\ decodes_natively(map_pg_type(t))
    \/ \E item \in {d} \cup ToSet(d.items) : \E c \in ToSet(item.text) : Reads(variant, c, Refused)

\* Between servers of one engine a row is copied, if its columns are rendered
\* as what they are (ddl.rs 12-68, MySQL ddl.rs 13-69) and its values have a
\* Rust value: nothing else fails.
SameEngineCopies ==
    pc = "failed" =>
        \/ From # To
        \/ \E i \in DOMAIN row : \/ Uncopyable(row[i].type)
                                 \/ Unreadable(row[i].type, row[i].datum)
                                 \/ types[i] # row[i].type

\* The rendered type is reflected as the category it was rendered for, its
\* length and its subtype included, but for enums on Postgres, types without
\* the length they need, and the spatial types of MySQL, which are all rendered
\* as geometry (MySQL ddl.rs 66) though testkit lib.rs 232-236 wants "same
\* canonical types".
CategoryKept ==
    \A i \in DOMAIN types :
        LET c == CategoryOf(From, row[i].type)  r == CategoryOf(To, types[i]) IN
        \/ From # To
        \/ c.name = "Enum" /\ To = "pg"
        \/ c.name \in {"Char", "Bit"} /\ c.arg = NoArg
        \/ /\ c.name = r.name /\ c.arg = r.arg /\ c.array = r.array
           /\ c.subtype = r.subtype \/ (c.name = "Geometry" /\ r.subtype = "geometry")
=============================================================================
