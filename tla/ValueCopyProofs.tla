-------------------------- MODULE ValueCopyProofs --------------------------
(***************************************************************************)
(* What ValueCopy keeps for all cells, documents and numbers: the types,   *)
(* the categories, and between MySQL servers the values.                   *)
(***************************************************************************)
EXTENDS ValueCopy, TLAPS

TypesOf == [i \in DOMAIN row |-> Rendered(To, CategoryOf(From, row[i].type))]

\* What is known of a copy at each of its steps.
CopyInv ==
    /\ route \in DOMAIN Cells
    /\ \E n \in 1..MaxCells : row \in [1..n -> Cells[route]]
    /\ pc \in {"create", "decode", "write", "send", "stored", "failed"}
    /\ types = (IF types = <<>> THEN <<>> ELSE TypesOf)
    /\ pc \in {"decode", "write", "send", "stored"} => types = TypesOf
    /\ pc \in {"write", "send", "stored"} =>
          values = DecodedRow /\ Undecodable \notin ToSet(DecodedRow)
    /\ written \in 0..Len(row)
    /\ pc \in {"create", "decode"} => written = 0
    /\ pc = "send" => To = "pg"
    /\ pc = "stored" => stored # <<>>
    /\ pc = "stored" /\ To = "mysql" =>
          /\ Bindable
          /\ stored = <<[i \in DOMAIN values |-> MyStored(types[i], values[i].datum)]>>

LEMMA RowIs ==
    ASSUME NEW n \in 1..MaxCells, row \in [1..n -> Cells[route]]
    PROVE  /\ DOMAIN row = 1..n /\ Len(row) = n
           /\ Len(TypesOf) = n /\ DOMAIN TypesOf = 1..n
           /\ Len(DecodedRow) = n /\ DOMAIN DecodedRow = 1..n
<1>1. n \in Nat /\ MaxCells \in Nat
  BY CopyAssumption
<1>2. DOMAIN row = 1..n
  OBVIOUS
<1>3. Len(row) = n
  BY <1>1, <1>2
<1>4. DOMAIN TypesOf = 1..n /\ DOMAIN DecodedRow = 1..n
  BY <1>2 DEF TypesOf, DecodedRow
<1> QED
  BY <1>1, <1>2, <1>3, <1>4

LEMMA CopyInit == Init => CopyInv
<1> SUFFICES ASSUME Init PROVE CopyInv
  OBVIOUS
<1>1. PICK n \in 1..MaxCells : row \in [1..n -> Cells[route]]
  BY DEF Init
<1>2. Len(row) \in Nat
  BY <1>1, RowIs, CopyAssumption
<1> QED
  BY <1>1, <1>2 DEF Init, CopyInv

LEMMA CopyStep == CopyInv /\ [Next]_vars => CopyInv'
<1> SUFFICES ASSUME CopyInv, [Next]_vars PROVE CopyInv'
  OBVIOUS
<1>1. PICK n \in 1..MaxCells : row \in [1..n -> Cells[route]]
  BY DEF CopyInv
<1>2. n \in Nat /\ Len(row) = n
  BY <1>1, RowIs, CopyAssumption
<1>3. CASE CreateTarget
  <2>1. types' = TypesOf /\ TypesOf' = TypesOf
    BY <1>3 DEF CreateTarget, TypesOf, From, To
  <2> QED
    BY <1>3, <2>1 DEF CreateTarget, CopyInv
<1>4. CASE Fail
  <2>1. TypesOf' = TypesOf
    BY <1>4 DEF Fail, TypesOf, From, To
  <2> QED
    BY <1>4, <2>1 DEF Fail, CopyInv
<1>5. CASE Decode
  <2>1. TypesOf' = TypesOf /\ DecodedRow' = DecodedRow
    BY <1>5 DEF Decode, TypesOf, DecodedRow, From, To
  <2> QED
    BY <1>5, <2>1 DEF Decode, CopyInv
<1>6. CASE WriteCell
  <2>1. TypesOf' = TypesOf /\ DecodedRow' = DecodedRow
    BY <1>6 DEF WriteCell, TypesOf, DecodedRow, From, To
  <2>2. values = DecodedRow /\ Len(values) = n
    BY <1>6, <1>1, RowIs DEF WriteCell, CopyInv
  <2>3. written' \in 0..Len(row')
    BY <1>6, <1>2, <2>2 DEF WriteCell, CopyInv
  <2> QED
    BY <1>6, <2>1, <2>3 DEF WriteCell, CopyInv
<1>7. CASE EndLine
  <2>1. TypesOf' = TypesOf /\ DecodedRow' = DecodedRow /\ To' = To
    BY <1>7 DEF EndLine, TypesOf, DecodedRow, From, To
  <2> QED
    BY <1>7, <2>1 DEF EndLine, CopyInv
<1>8. CASE Load
  <2>1. TypesOf' = TypesOf /\ DecodedRow' = DecodedRow /\ To' = To
    BY <1>8 DEF Load, TypesOf, DecodedRow, From, To
  <2>2. To = "pg"
    BY <1>8 DEF Load, CopyInv
  <2>3. DOMAIN Datums # {}
    <3>1. SUFFICES ASSUME DOMAIN Datums = {} PROVE Datums = <<>>
      BY <1>8 DEF Load, Loadable
    <3> QED
      BY <3>1 DEF Datums
  <2>4. stored' # <<>>
    <3>1. DOMAIN stored' = DOMAIN Datums
      BY <1>8 DEF Load
    <3> QED
      BY <2>3, <3>1
  <2> QED
    BY <1>8, <2>1, <2>2, <2>4 DEF Load, CopyInv
<1>9. CASE Insert
  <2>1. TypesOf' = TypesOf /\ DecodedRow' = DecodedRow /\ To' = To
    BY <1>9 DEF Insert, TypesOf, DecodedRow, From, To
  <2>2. Bindable'
    BY <1>9 DEF Insert, Bindable
  <2>3. stored' = <<[i \in DOMAIN values' |-> MyStored(types'[i], values'[i].datum)]>>
    BY <1>9 DEF Insert
  <2>4. stored' # <<>>
    BY <2>3
  <2> QED
    BY <1>9, <2>1, <2>2, <2>3, <2>4 DEF Insert, CopyInv
<1>10. CASE UNCHANGED vars
  <2>1. TypesOf' = TypesOf /\ DecodedRow' = DecodedRow /\ To' = To /\ Bindable' = Bindable
    BY <1>10 DEF vars, TypesOf, DecodedRow, From, To, Bindable
  <2> QED
    BY <1>10, <2>1 DEF vars, CopyInv
<1> QED
  BY <1>3, <1>4, <1>5, <1>6, <1>7, <1>8, <1>9, <1>10
  DEF Next, CreateRefused, DecodeError, LoadRefused, InsertRefused

LEMMA CopyInvariant == Spec => []CopyInv
  BY CopyInit, CopyStep, PTL DEF Spec

\* A copy has a type for every column, a value for every cell and no more
\* cells in the data than in the row (bulk.rs 56-64), for all cells.
THEOREM TypeCorrectness == Spec => []TypeOK
<1>1. CopyInv => TypeOK
  <2> SUFFICES ASSUME CopyInv PROVE TypeOK
    OBVIOUS
  <2>1. PICK n \in 1..MaxCells : row \in [1..n -> Cells[route]]
    BY DEF CopyInv
  <2> QED
    BY <2>1, RowIs DEF CopyInv, TypeOK
<1> QED
  BY <1>1, CopyInvariant, PTL

-----------------------------------------------------------------------------
(* The categories.                                                         *)

LEMMA PgReflected ==
    ASSUME NEW t, t.name \in DOMAIN PgCategories, NEW c, c = map_pg_type(t)
    PROVE  LET r == map_pg_type(category_to_pg_type(c)) IN
           \/ c.name = "Enum"
           \/ c.name \in {"Char", "Bit"} /\ c.arg = NoArg
           \/ c.name = r.name /\ c.arg = r.arg /\ c.array = r.array /\ c.subtype = r.subtype
<1> DEFINE u == category_to_pg_type(c)
           r == map_pg_type(u)
<1>1. /\ c.name = PgCategories[t.name] /\ c.array = t.array
      /\ c.arg = IF c.name \in Sized THEN t.arg ELSE NoArg
      /\ c.subtype = IF c.name = "Geometry" THEN t.name ELSE ""
  BY DEF map_pg_type, CategoryIn
<1>2. /\ c.name \in DOMAIN PgNames
      /\ c.name \notin {"Unsupported", "Binary", "VarBinary", "Geometry"}
      /\ c.name # "Enum" => /\ PgNames[c.name] \in DOMAIN PgCategories
                            /\ PgCategories[PgNames[c.name]] = c.name
  <2>1. c.name = PgCategories[t.name]
    BY <1>1
  <2> HIDE DEF u, r
  <2> QED
    BY <2>1 DEF PgCategories, PgNames
<1>3. u = [name |-> PgNames[c.name], arg |-> PgArg(c), array |-> c.array]
  BY <1>2 DEF category_to_pg_type
<1>4. SUFFICES ASSUME c.name # "Enum", ~(c.name \in {"Char", "Bit"} /\ c.arg = NoArg)
               PROVE  c.name = r.name /\ c.arg = r.arg /\ c.array = r.array /\ c.subtype = r.subtype
  OBVIOUS
<1>5. u.name = PgNames[c.name] /\ u.arg = c.arg /\ u.array = c.array
  BY <1>2, <1>3, <1>4 DEF PgArg
<1>6. /\ r.name = c.name /\ r.array = c.array /\ r.subtype = ""
      /\ r.arg = IF c.name \in Sized THEN c.arg ELSE NoArg
  <2> HIDE DEF u
  <2> QED
    BY <1>2, <1>4, <1>5 DEF map_pg_type, CategoryIn
<1> QED
  BY <1>1, <1>2, <1>6

\* The names MySQL types are rendered with.
LEMMA MyRenderedName ==
    ASSUME NEW name \in DOMAIN MyCategories
    PROVE  LET k == MyCategories[name]  shown == MyNames[k] IN
           /\ k \in DOMAIN MyNames
           /\ k \notin {"Unsupported", "Interval", "Uuid", "TimeTz", "TimestampTz"}
           /\ shown \in DOMAIN MyCategories /\ MyCategories[shown] = k
           /\ k \in Sized =>
                 \/ name = shown
                 \/ name = "timestamp" /\ shown = "datetime"
           /\ \/ name = shown
              \/ name = "timestamp" /\ shown = "datetime"
              \/ /\ shown \in {"smallint", "int", "bigint"}
                 /\ name \in {"tinyint", "utinyint", "usmallint", "uint", "ubigint", "year"}
              \/ shown = "text" /\ name = "longtext"
              \/ shown = "blob" /\ name = "longblob"
              \/ shown = "geometry" /\ name = "point"
           /\ k = "Bit" => name = "bit"
           /\ k = "Char" => name = "char"
           /\ k = "VarChar" => name = "varchar"
           /\ k = "Binary" => name = "binary"
           /\ k = "VarBinary" => name = "varbinary"
           /\ k = "Time" => name = "time"
           /\ k = "Timestamp" => name \in {"datetime", "timestamp"}
  BY DEF MyCategories, MyNames, Sized

LEMMA MyReflected ==
    ASSUME NEW t, NEW d, MyHolds(t, d), t.name \in DOMAIN MyCategories,
           NEW c, c = map_mysql_type(t), NEW u, u = category_to_mysql_type(c)
    PROVE  /\ c.name = MyCategories[t.name] /\ u.name = MyNames[c.name]
           /\ u.arg = IF c.name \in Sized THEN t.arg ELSE NoArg
           /\ LET r == map_mysql_type(u) IN
              /\ c.name = r.name /\ c.arg = r.arg /\ c.array = r.array
              /\ c.subtype = r.subtype \/ (c.name = "Geometry" /\ r.subtype = "geometry")
<1> DEFINE r == map_mysql_type(u)
<1>1. /\ c.name = MyCategories[t.name] /\ c.array = FALSE
      /\ c.arg = IF c.name \in Sized THEN t.arg ELSE NoArg
      /\ c.subtype = IF c.name = "Geometry" THEN t.name ELSE ""
  BY DEF map_mysql_type, CategoryIn, MyHolds
<1>2. /\ c.name \in DOMAIN MyNames
      /\ c.name \notin {"Unsupported", "Interval", "Uuid", "TimeTz", "TimestampTz"}
      /\ MyNames[c.name] \in DOMAIN MyCategories /\ MyCategories[MyNames[c.name]] = c.name
  <2>1. c.name = MyCategories[t.name]
    BY <1>1
  <2> QED
    BY <2>1, MyRenderedName
<1>3. u = [name |-> MyNames[c.name], arg |-> MyArg(c), array |-> FALSE]
  BY <1>1, <1>2 DEF category_to_mysql_type
<1>4. MyArg(c) = c.arg
  <2>1. c.name \in {"Char", "Binary", "VarChar", "VarBinary", "Bit"} => c.arg # NoArg
    <3>1. t.name \in {"char", "varchar", "binary", "varbinary", "bit"} => t.arg \in Nat
      <4>1. t.name = "bit" => t.arg \in 1..64
        BY DEF MyHolds
      <4>2. t.name \in {"char", "varchar", "binary", "varbinary"} => t.arg \in Nat
        BY DEF MyHolds
      <4> QED
        BY <4>1, <4>2
    <3>2. c.name \in {"Char", "Binary", "VarChar", "VarBinary", "Bit"} =>
             t.name \in {"char", "varchar", "binary", "varbinary", "bit"}
      <4> DEFINE k == MyCategories[t.name]
      <4>1. c.name = k
        BY <1>1
      <4>2. /\ k = "Bit" => t.name = "bit"
            /\ k = "Char" => t.name = "char"
            /\ k = "VarChar" => t.name = "varchar"
            /\ k = "Binary" => t.name = "binary"
            /\ k = "VarBinary" => t.name = "varbinary"
        BY MyRenderedName
      <4> HIDE DEF k
      <4> SUFFICES ASSUME c.name \in {"Char", "Binary", "VarChar", "VarBinary", "Bit"}
                   PROVE  t.name \in {"char", "varchar", "binary", "varbinary", "bit"}
        OBVIOUS
      <4>3. k \in {"Char", "Binary", "VarChar", "VarBinary", "Bit"}
        BY <4>1
      <4> QED
        BY <4>2, <4>3
    <3>3. c.name \in {"Char", "Binary", "VarChar", "VarBinary", "Bit"} => c.arg = t.arg
      BY <1>1 DEF Sized
    <3>4. t.arg \in Nat => t.arg # NoArg
      BY DEF NoArg
    <3> QED
      BY <3>1, <3>2, <3>3, <3>4
  <2>2. c.name \in {"Time", "Timestamp"} => c.arg # 0
    <3>1. c.name \in {"Time", "Timestamp"} => t.arg # 0
      <4>1. c.name = MyCategories[t.name]
        BY <1>1
      <4>2. c.name \in {"Time", "Timestamp"} => t.name \in {"time", "datetime", "timestamp"}
        BY <4>1, MyRenderedName
      <4>3. t.name \in {"time", "datetime", "timestamp"} => t.arg # 0
        BY DEF MyHolds
      <4> QED
        BY <4>2, <4>3
    <3> QED
      BY <1>1, <3>1 DEF Sized
  <2> QED
    BY <1>2, <2>1, <2>2 DEF MyArg
<1>5. u.name = MyNames[c.name] /\ u.arg = c.arg /\ u.array = FALSE
  BY <1>3, <1>4
<1>6. /\ r.name = c.name /\ r.array = FALSE
      /\ r.arg = IF c.name \in Sized THEN c.arg ELSE NoArg
      /\ r.subtype = IF c.name = "Geometry" THEN u.name ELSE ""
  <2> QED
    BY <1>2, <1>5 DEF map_mysql_type, CategoryIn
<1>7. c.subtype = r.subtype \/ (c.name = "Geometry" /\ r.subtype = "geometry")
  <2>1. MyNames["Geometry"] = "geometry"
    BY DEF MyNames
  <2> QED
    BY <1>1, <1>5, <1>6, <2>1
<1> QED
  BY <1>1, <1>5, <1>6, <1>7

\* A column of the target is reflected as the category it was rendered for, its
\* subtype included, for all cells, but for the exceptions CategoryKept names:
\* enums on Postgres, char and bit without a length, and the spatial types of
\* MySQL (types.rs, ddl.rs 12-68 and MySQL types.rs, ddl.rs 13-69).
THEOREM CategoriesAreKept == Spec => []CategoryKept
<1>1. CopyInv => CategoryKept
  <2> SUFFICES ASSUME CopyInv, From = To, NEW i \in DOMAIN types
               PROVE  LET c == CategoryOf(From, row[i].type)
                          r == CategoryOf(To, types[i])
                      IN  \/ c.name = "Enum" /\ To = "pg"
                          \/ c.name \in {"Char", "Bit"} /\ c.arg = NoArg
                          \/ /\ c.name = r.name /\ c.arg = r.arg /\ c.array = r.array
                             /\ c.subtype = r.subtype \/ (c.name = "Geometry" /\ r.subtype = "geometry")
    BY DEF CategoryKept
  <2> DEFINE t == row[i].type
             c == CategoryOf(From, t)
             u == Rendered(To, c)
             r == CategoryOf(To, u)
  <2>1. PICK n \in 1..MaxCells : row \in [1..n -> Cells[route]]
    BY DEF CopyInv
  <2>2. types = TypesOf /\ i \in DOMAIN row
    BY <2>1, RowIs DEF CopyInv
  <2>3. types[i] = u
    BY <2>2 DEF TypesOf
  <2>4. row[i] \in Cells[route] /\ route \in DOMAIN Cells
    BY <2>1, <2>2 DEF CopyInv
  <2>5. To \in {"pg", "mysql"}
    BY <2>4, CopyAssumption DEF To
  <2> SUFFICES \/ c.name = "Enum" /\ To = "pg"
               \/ c.name \in {"Char", "Bit"} /\ c.arg = NoArg
               \/ /\ c.name = r.name /\ c.arg = r.arg /\ c.array = r.array
                  /\ c.subtype = r.subtype \/ (c.name = "Geometry" /\ r.subtype = "geometry")
    BY <2>3
  <2>6. CASE To = "pg"
    <3>1. c = map_pg_type(t) /\ u = category_to_pg_type(c) /\ r = map_pg_type(u)
      BY <2>6 DEF CategoryOf, Rendered
    <3>2. CASE t.name \in DOMAIN PgCategories
      <4> HIDE DEF t, c, u, r
      <4> QED
        BY <2>6, <3>1, <3>2, PgReflected
    <3>3. CASE t.name \notin DOMAIN PgCategories
      <4> HIDE DEF t, c, u, r
      <4>1. c.name = "Unsupported" /\ c.native = t
        BY <3>1, <3>3 DEF map_pg_type, CategoryIn
      <4>2. u = t
        BY <3>1, <4>1 DEF category_to_pg_type
      <4> QED
        BY <3>1, <4>2
    <3> QED
      BY <3>2, <3>3
  <2>7. CASE To = "mysql"
    <3>1. c = map_mysql_type(t) /\ u = category_to_mysql_type(c) /\ r = map_mysql_type(u)
      BY <2>7 DEF CategoryOf, Rendered
    <3>2. MyHolds(t, row[i].datum)
      BY <2>4, <2>7, CellAssumption DEF From
    <3>3. CASE t.name \in DOMAIN MyCategories
      <4> HIDE DEF t, c, u, r
      <4> QED
        BY <3>1, <3>2, <3>3, MyReflected
    <3>4. CASE t.name \notin DOMAIN MyCategories
      <4> HIDE DEF t, c, u, r
      <4>1. c.name = "Unsupported" /\ c.native = t
        BY <3>1, <3>4 DEF map_mysql_type, CategoryIn
      <4>2. u = t
        BY <3>1, <4>1 DEF category_to_mysql_type
      <4> QED
        BY <3>1, <4>2
    <3> QED
      BY <3>3, <3>4
  <2> QED
    BY <2>5, <2>6, <2>7
<1> QED
  BY <1>1, CopyInvariant, PTL

-----------------------------------------------------------------------------
(* From one MySQL server to another.                                       *)

\* What MySQL makes of a text is the same in the column a column is rendered as.
LEMMA MyKept ==
    ASSUME NEW t, NEW d, MyHolds(t, d), NEW u,
           u = category_to_mysql_type(map_mysql_type(t)), NEW text
    PROVE  MyKeeps(u, text) = MyKeeps(t, text) /\ Meaning(u, text) = Meaning(t, text)
<1>1. CASE t.name \notin DOMAIN MyCategories
  <2>1. map_mysql_type(t).name = "Unsupported" /\ map_mysql_type(t).native = t
    BY <1>1 DEF map_mysql_type, CategoryIn
  <2>2. u = t
    BY <2>1 DEF category_to_mysql_type
  <2> QED
    BY <2>2
<1>2. CASE t.name \in DOMAIN MyCategories
  <2> DEFINE k == MyCategories[t.name]
  <2>1. u.name = MyNames[k] /\ u.arg = IF k \in Sized THEN t.arg ELSE NoArg
    BY <1>2, MyReflected
  <2>2. /\ \/ t.name = u.name
           \/ t.name = "timestamp" /\ u.name = "datetime"
           \/ /\ u.name \in {"smallint", "int", "bigint"}
              /\ t.name \in {"tinyint", "utinyint", "usmallint", "uint", "ubigint", "year"}
           \/ u.name = "text" /\ t.name = "longtext"
           \/ u.name = "blob" /\ t.name = "longblob"
           \/ u.name = "geometry" /\ t.name = "point"
    BY <1>2, <2>1, MyRenderedName
  <2>3. t.name \in {"decimal", "time", "datetime", "timestamp"} => k \in Sized
    BY DEF MyCategories, Sized
  <2> HIDE DEF k
  <2>4. MyKeeps(u, text) = MyKeeps(t, text)
    BY <2>1, <2>2, <2>3 DEF MyKeeps, Spatial
  <2>5. Meaning(u, text) = Meaning(t, text)
    BY <2>2 DEF Meaning, Spatial
  <2> QED
    BY <2>4, <2>5
<1> QED
  BY <1>1, <1>2

\* The decoder makes no array of a cell; it fails where a symbol has no value,
\* and makes bits their text, spatial values their bytes or the text they are,
\* and of everything else what its Rust type holds of it.
LEMMA MyDecodes ==
    ASSUME NEW t, NEW d, MyHolds(t, d), NEW v, v = MyDecode(t, d)
    PROVE  /\ v.variant # "Array"
           /\ d = Null => v # Undecodable /\ v.datum = Null
           /\ d # Null /\ t.name = "bit" => v # Undecodable /\ v.datum = Scalar(BitText(d.text))
           /\ d # Null /\ t.name \in Spatial =>
                 v # Undecodable /\ v.datum \in {d, Scalar(AsText(d.text))}
           /\ d # Null /\ t.name # "bit" /\ t.name \notin Spatial =>
                 IF Fits(MyVariants[t.name], d)
                 THEN v # Undecodable /\ v.datum = HeldOf("mysql", t, d)
                 ELSE v = Undecodable
<1> DEFINE w == MyVariants[t.name]
<1>1. /\ w \notin {"Error", "Array"}
      /\ w = "Fallback" <=> t.name \in Spatial
      /\ t.name = "bit" => t.name \notin Spatial
  BY DEF MyHolds, MyVariants, Spatial
<1>2. CASE d = Null
  <2>1. v = NullValue
    BY <1>2 DEF MyDecode, Null
  <2> QED
    BY <1>2, <2>1 DEF NullValue, Undecodable
<1>3. CASE d # Null
  <2>1. d = Scalar(d.text) /\ d.kind = "scalar"
    <3>1. d = Scalar(d.text)
      BY <1>3 DEF MyHolds
    <3>2. Scalar(d.text).kind = "scalar"
      BY DEF Scalar
    <3> QED
      BY <3>1, <3>2
  <2>2. CASE t.name = "bit"
    <3>1. v = [variant |-> "Text", datum |-> Scalar(BitText(d.text))]
      <4> HIDE DEF w
      <4>1. d.kind # "null" /\ t.name = "bit"
        BY <2>1, <2>2
      <4>2. w # "Fallback"
        BY <1>1, <2>2
      <4> QED
        BY <4>1, <4>2 DEF MyDecode, w
    <3> QED
      BY <1>1, <1>3, <2>2, <3>1 DEF Undecodable
  <2>3. CASE t.name \in Spatial
    <3>1. v = Fallback(d.text)
      BY <1>1, <2>1, <2>3 DEF MyDecode
    <3> QED
      BY <1>1, <1>3, <2>1, <2>3, <3>1 DEF Fallback, Undecodable
  <2>4. CASE t.name # "bit" /\ t.name \notin Spatial
    <3>1. v = Decoded(w, d)
      BY <1>1, <2>1, <2>4 DEF MyDecode
    <3>2. HeldOf("mysql", t, d) = HeldDatum(w, d) /\ HeldDatum(w, d) = HeldItem(w, d)
      BY <2>1 DEF HeldOf, HeldDatum
    <3> HIDE DEF w
    <3>3. CASE ~Fits(w, d)
      <4>1. v = Undecodable
        BY <3>1, <3>3 DEF Decoded
      <4> QED
        BY <1>3, <2>4, <3>3, <4>1 DEF Undecodable, w
    <3>4. CASE Fits(w, d) /\ HeldDatum(w, d).kind = "null"
      <4>1. v = NullValue
        BY <3>1, <3>4 DEF Decoded
      <4>2. HeldDatum(w, d) = Null
        BY <3>2, <3>4 DEF HeldItem, Scalar
      <4> QED
        BY <1>3, <2>4, <3>2, <3>4, <4>1, <4>2 DEF NullValue, Undecodable, w
    <3>5. CASE Fits(w, d) /\ HeldDatum(w, d).kind # "null"
      <4>1. v = [variant |-> w, datum |-> HeldDatum(w, d)]
        BY <2>1, <3>1, <3>5 DEF Decoded
      <4> QED
        BY <1>1, <1>3, <2>4, <3>2, <3>5, <4>1 DEF Undecodable, w
    <3> QED
      BY <3>3, <3>4, <3>5
  <2> QED
    BY <2>2, <2>3, <2>4
<1> QED
  BY <1>2, <1>3

\* The bytes of a stored spatial value are what they were before they were
\* taken for a text.
LEMMA SpatialBytes ==
    ASSUME NEW t, NEW d, MyHolds(t, d), d # Null, t.name \in Spatial
    PROVE  AsBytes(AsText(d.text)) = d.text /\ AsBytes(d.text) = d.text
<1>1. d = Scalar(d.text) /\ d.text \in Seq(STRING) /\ MyStored(t, d) = d
  BY DEF MyHolds, MyStays, Spatial
<1>2. MyStored(t, d) = Scalar(AsBytes(d.text))
  BY <1>1 DEF MyStored, MyKeeps, Scalar, Spatial
<1>3. AsBytes(d.text) = d.text
  <2>1. Scalar(AsBytes(d.text)).text = Scalar(d.text).text
    BY <1>1, <1>2
  <2> QED
    BY <2>1 DEF Scalar
<1>4. \A i \in DOMAIN d.text : d.text[i] # Nul
  <2> SUFFICES ASSUME NEW i \in DOMAIN d.text, d.text[i] = Nul PROVE FALSE
    OBVIOUS
  <2>1. AsBytes(d.text)[i] = "00"
    BY DEF AsBytes
  <2> QED
    BY <1>3, <2>1 DEF Nul
<1>5. DOMAIN AsText(d.text) = DOMAIN d.text
  BY DEF AsText
<1>6. \A i \in DOMAIN d.text : AsBytes(AsText(d.text))[i] = d.text[i]
  BY <1>4, <1>5 DEF AsBytes, AsText
<1>7. AsBytes(AsText(d.text)) = [i \in DOMAIN d.text |-> AsBytes(AsText(d.text))[i]]
  BY <1>5 DEF AsBytes
<1>8. d.text = [i \in DOMAIN d.text |-> d.text[i]]
  BY <1>1
<1> QED
  BY <1>3, <1>6, <1>7, <1>8

\* The text of a BIT is too long for the bytes of the column.
LEMMA BitsAreRefused ==
    ASSUME NEW t, NEW d, MyHolds(t, d), t.name = "bit", d # Null,
           NEW u, u = category_to_mysql_type(map_mysql_type(t))
    PROVE  ~MyStorable(u, Scalar(BitText(d.text)))
<1>1. d.text \in Seq(STRING) /\ Len(d.text) = t.arg /\ t.arg \in 1..64
  BY DEF MyHolds
<1>2. u.name = "bit" /\ u.arg = t.arg
  <2>1. t.name \in DOMAIN MyCategories /\ MyCategories["bit"] = "Bit" /\ MyNames["Bit"] = "bit"
        /\ "Bit" \in Sized
    BY DEF MyCategories, MyNames, Sized
  <2> QED
    BY <2>1, MyReflected
<1>3. Len(BitText(d.text)) >= Len(d.text) /\ Len(BitText(d.text)) \in Nat
  <2> DEFINE m == 8 * ((Len(d.text) + 7) \div 8) - Len(d.text)
             zeros == [i \in 1..m |-> "0"]
  <2>1. m \in Nat
    BY <1>1
  <2> HIDE DEF m
  <2>2. zeros \in Seq(STRING \cup {"0"}) /\ Len(zeros) = m
    <3>1. zeros \in [1..m -> STRING \cup {"0"}] /\ DOMAIN zeros = 1..m
      OBVIOUS
    <3> HIDE DEF zeros
    <3>2. zeros \in Seq(STRING \cup {"0"})
      BY <2>1, <3>1
    <3> QED
      BY <2>1, <3>1, <3>2
  <2> HIDE DEF zeros
  <2>3. BitText(d.text) = zeros \o d.text
    BY DEF BitText, zeros, m
  <2>4. d.text \in Seq(STRING \cup {"0"})
    BY <1>1
  <2>5. Len(BitText(d.text)) = m + Len(d.text)
    BY <2>2, <2>3, <2>4
  <2> QED
    BY <1>1, <2>1, <2>5
<1>4. MyStorable(u, Scalar(BitText(d.text))) => 8 * Len(BitText(d.text)) <= u.arg
  BY <1>2 DEF MyStorable, MyAccepts, Scalar
<1>5. ~(8 * Len(BitText(d.text)) <= u.arg)
  <2> DEFINE l == Len(BitText(d.text))
  <2>1. l \in Nat /\ l >= t.arg /\ u.arg = t.arg /\ t.arg \in 1..64
    BY <1>1, <1>2, <1>3
  <2> HIDE DEF l
  <2>2. ~(8 * l <= u.arg)
    BY <2>1
  <2> QED
    BY <2>2 DEF l
<1> QED
  BY <1>4, <1>5

BetweenMySql == From = "mysql" /\ To = "mysql"

\* A copy between MySQL servers fails only where a value has no Rust value or
\* no place.
FailedInv ==
    BetweenMySql /\ pc = "failed" =>
        /\ types = TypesOf
        /\ Undecodable \in ToSet(DecodedRow) \/ (values = DecodedRow /\ ~Bindable)

\* A cell of a row that is copied between MySQL servers.
LEMMA MyCell ==
    ASSUME CopyInv, BetweenMySql, NEW i \in DOMAIN row
    PROVE  LET t == row[i].type IN
           /\ MyHolds(t, row[i].datum)
           /\ TypesOf[i] = category_to_mysql_type(map_mysql_type(t))
           /\ DecodedRow[i] = MyDecode(t, row[i].datum)
<1>1. row[i] \in Cells[route] /\ route \in DOMAIN Cells
  BY DEF CopyInv
<1>2. MyHolds(row[i].type, row[i].datum)
  BY <1>1, CellAssumption DEF BetweenMySql, From
<1> QED
  BY <1>2 DEF BetweenMySql, TypesOf, DecodedRow, CategoryOf, Rendered

LEMMA FailedInvariant == Spec => []FailedInv
<1>1. Init => FailedInv
  BY DEF Init, FailedInv
<1>2. CopyInv /\ FailedInv /\ [Next]_vars => FailedInv'
  <2> SUFFICES ASSUME CopyInv, FailedInv, [Next]_vars, BetweenMySql', pc' = "failed"
               PROVE  /\ (types = TypesOf)'
                      /\ (Undecodable \in ToSet(DecodedRow) \/ (values = DecodedRow /\ ~Bindable))'
    BY DEF FailedInv
  <2>1. UNCHANGED <<route, row>>
    BY DEF Next, vars, CreateTarget, CreateRefused, Decode, DecodeError, WriteCell, EndLine,
           Load, LoadRefused, Insert, InsertRefused, Fail
  <2>2. BetweenMySql /\ TypesOf' = TypesOf /\ DecodedRow' = DecodedRow
    BY <2>1 DEF BetweenMySql, From, To, TypesOf, DecodedRow
  <2>3. CASE InsertRefused
    BY <2>2, <2>3 DEF InsertRefused, Fail, CopyInv, Bindable
  <2>4. CASE UNCHANGED vars
    BY <2>2, <2>4 DEF vars, FailedInv, Bindable
  <2>5. ~CreateRefused /\ ~LoadRefused
    BY <2>2 DEF CreateRefused, Creatable, LoadRefused, BetweenMySql, CopyInv
  <2>6. CASE DecodeError
    BY <2>2, <2>6 DEF DecodeError, Fail, CopyInv
  <2>7. ~CreateTarget /\ ~Decode /\ ~WriteCell /\ ~EndLine /\ ~Load /\ ~Insert
    BY DEF CreateTarget, Decode, WriteCell, EndLine, Load, Insert
  <2> QED
    BY <2>3, <2>4, <2>5, <2>6, <2>7 DEF Next
<1> QED
  BY <1>1, <1>2, CopyInvariant, PTL DEF Spec

\* A copy between MySQL servers that succeeds has in every cell the meaning of
\* its source, or of what the decoder has read of it where that is another value
\* (MySQL query.rs 189-230, bulk.rs 88-131): DDL, binding and storing change
\* nothing, for all documents and texts, whatever the decoder cannot hold, and
\* rows of any length.
THEOREM MySqlLosesNothing == Spec => [](BetweenMySql => NothingLostSilently)
<1>1. CopyInv => (BetweenMySql => NothingLostSilently)
  <2> SUFFICES ASSUME CopyInv, BetweenMySql, pc = "stored"
               PROVE  /\ Len(stored) = 1
                      /\ \A i \in DOMAIN row :
                            Copied(row[i].type, row[i].datum, types[i], stored[1][i])
    BY DEF NothingLostSilently
  <2>1. /\ types = TypesOf /\ values = DecodedRow /\ Bindable
        /\ stored = <<[i \in DOMAIN values |-> MyStored(types[i], values[i].datum)]>>
    BY DEF CopyInv, BetweenMySql
  <2>2. DOMAIN values = DOMAIN row
    BY <2>1 DEF DecodedRow
  <2>3. ASSUME NEW i \in DOMAIN row
        PROVE  Copied(row[i].type, row[i].datum, types[i], stored[1][i])
    <3> DEFINE t == row[i].type
               d == row[i].datum
               u == types[i]
               v == values[i]
               e == stored[1][i]
    <3>1. /\ MyHolds(t, d) /\ v = MyDecode(t, d)
          /\ u = category_to_mysql_type(map_mysql_type(t))
      BY <2>1, MyCell
    <3>2. e = MyStored(u, v.datum) /\ MyStorable(u, v.datum)
      BY <2>1, <2>2 DEF Bindable
    <3>6. v # Undecodable
      BY <2>1, <2>2 DEF CopyInv, ToSet
    <3> HIDE DEF t, d, u, v, e
    <3>3. CASE d = Null
      <4>1. e = Null
        BY <3>1, <3>2, <3>3, MyDecodes DEF MyStored, Null
      <4> QED
        BY <3>3, <4>1 DEF Copied, Same, Null, t, d, u, v, e
    <3>4. CASE d # Null /\ t.name \in Spatial
      <4>1. d.kind = "scalar" /\ d = Scalar(d.text)
        BY <3>1, <3>4 DEF MyHolds, Scalar
      <4>2. MyKeeps(t, d.text) = d.text /\ MyKeeps(t, AsText(d.text)) = d.text
        BY <3>1, <3>4, SpatialBytes DEF MyKeeps, Spatial
      <4>3. v.datum = Scalar(v.datum.text) /\ v.datum.text \in {d.text, AsText(d.text)}
        <5>1. v.datum = d \/ v.datum = Scalar(AsText(d.text))
          BY <3>1, <3>4, MyDecodes
        <5>2. Scalar(AsText(d.text)).text = AsText(d.text)
          BY DEF Scalar
        <5> QED
          BY <4>1, <5>1, <5>2
      <4>4. e = Scalar(MyKeeps(u, v.datum.text))
        <5>1. v.datum.kind = "scalar"
          BY <4>3 DEF Scalar
        <5> QED
          BY <3>2, <5>1 DEF MyStored
      <4>5. e = d
        BY <3>1, <4>1, <4>2, <4>3, <4>4, MyKept
      <4>6. Meaning(u, d.text) = Meaning(t, d.text)
        BY <3>1, MyKept
      <4>7. Same(t, d, u, e)
        BY <4>1, <4>5, <4>6 DEF Same
      <4> QED
        BY <4>7 DEF Copied, t, d, u, v, e
    <3>5. CASE d # Null /\ t.name \notin Spatial
      <4> DEFINE held == HeldOf("mysql", t, d)
      <4>1. t.name # "bit"
        BY <3>1, <3>2, <3>5, MyDecodes, BitsAreRefused
      <4>2. Fits(MyVariants[t.name], d) /\ v.datum = held
        BY <2>1, <3>1, <3>5, <3>6, <4>1, MyDecodes
      <4>3. MyStored(t, held) = held
        BY <3>1, <3>5, <4>1, <4>2 DEF MyHolds, MyStays
      <4>4. d.kind = "scalar"
        BY <3>1, <3>5 DEF MyHolds, Scalar
      <4>5. held.kind \in {"null", "scalar"}
        BY <4>4 DEF HeldOf, HeldDatum, HeldItem, Null, Scalar
      <4> HIDE DEF held
      <4>6. MyStored(u, held) = MyStored(t, held)
        BY <3>1, MyKept DEF MyStored
      <4>7. e = held
        BY <3>2, <4>2, <4>3, <4>6
      <4>8. Meaning(u, held.text) = Meaning(t, held.text)
        BY <3>1, MyKept
      <4>9. Same(t, held, u, e)
        BY <4>5, <4>7, <4>8 DEF Same
      <4>10. Same(t, d, u, e) \/ (held # d /\ Same(t, held, u, e))
        BY <4>9
      <4>11. From = "mysql"
        BY DEF BetweenMySql
      <4>12. Copied(t, d, u, e)
        BY <4>10, <4>11 DEF Copied, held
      <4> QED
        BY <4>12 DEF t, d, u, v, e
    <3> QED
      BY <3>3, <3>4, <3>5
  <2> QED
    BY <2>1, <2>3
<1> QED
  BY <1>1, CopyInvariant, PTL

\* Between MySQL servers a row is copied, unless a column of it is rendered as
\* another type or is a BIT, or a value has no Rust value (MySQL query.rs
\* 189-230, ddl.rs 13-69), whichever values those are.
THEOREM MySqlCopiesItsOwn == Spec => [](BetweenMySql => SameEngineCopies)
<1>1. CopyInv /\ FailedInv => (BetweenMySql => SameEngineCopies)
  <2> SUFFICES ASSUME CopyInv, FailedInv, BetweenMySql, pc = "failed"
               PROVE  \E i \in DOMAIN row : \/ Uncopyable(row[i].type)
                                            \/ Unreadable(row[i].type, row[i].datum)
                                            \/ types[i] # row[i].type
    BY DEF SameEngineCopies
  <2>1. types = TypesOf /\ DOMAIN DecodedRow = DOMAIN row
    BY DEF FailedInv, DecodedRow
  <2>2. ASSUME NEW i \in DOMAIN row, DecodedRow[i] = Undecodable
        PROVE  Unreadable(row[i].type, row[i].datum)
    <3> DEFINE t == row[i].type
               d == row[i].datum
    <3>1. MyHolds(t, d) /\ MyDecode(t, d) = Undecodable
      BY <2>2, MyCell
    <3> HIDE DEF t, d
    <3>2. d # Null /\ ~Fits(MyVariants[t.name], d)
      BY <3>1, MyDecodes
    <3>3. d.kind = "scalar" /\ d.items = <<>>
      BY <3>1, <3>2 DEF MyHolds, Scalar
    <3>4. ~FitsItem(MyVariants[t.name], d)
      BY <3>2, <3>3 DEF Fits
    <3>5. \E c \in ToSet(d.text) : Reads(MyVariants[t.name], c, Refused)
      BY <3>4 DEF FitsItem
    <3>6. From = "mysql"
      BY DEF BetweenMySql
    <3>7. Unreadable(t, d)
      BY <3>5, <3>6 DEF Unreadable
    <3> QED
      BY <3>7 DEF t, d
  <2>3. CASE Undecodable \in ToSet(DecodedRow)
    <3>1. PICK i \in DOMAIN row : DecodedRow[i] = Undecodable
      BY <2>1, <2>3 DEF ToSet
    <3> QED
      BY <2>2, <3>1
  <2>4. CASE Undecodable \notin ToSet(DecodedRow)
    <3>1. values = DecodedRow /\ ~Bindable
      BY <2>4 DEF FailedInv
    <3>2. PICK i \in DOMAIN row :
              ~(values[i].variant # "Array" /\ MyStorable(types[i], values[i].datum))
      BY <2>1, <3>1 DEF Bindable
    <3> DEFINE t == row[i].type
               d == row[i].datum
               v == values[i]
    <3>3. MyHolds(t, d) /\ v = MyDecode(t, d)
      BY <3>1, MyCell
    <3>4. v # Undecodable
      BY <2>1, <2>4, <3>1 DEF ToSet
    <3>5. ASSUME t.name # "bit", types[i] = t PROVE FALSE
      <4>1. ~(v.variant # "Array" /\ MyStorable(t, v.datum))
        BY <3>2, <3>5
      <4> HIDE DEF t, d, v
      <4>2. ~MyStorable(t, v.datum)
        BY <3>3, <4>1, MyDecodes
      <4>3. CASE d = Null
        BY <3>3, <4>2, <4>3, MyDecodes DEF MyStorable, Null
      <4>4. CASE d # Null /\ t.name \in Spatial
        BY <4>2, <4>4 DEF MyStorable, MyAccepts, Spatial
      <4>5. CASE d # Null /\ t.name \notin Spatial
        <5>1. Fits(MyVariants[t.name], d) /\ v.datum = HeldOf("mysql", t, d)
          BY <3>3, <3>4, <3>5, <4>5, MyDecodes
        <5> QED
          BY <3>3, <3>5, <4>2, <4>5, <5>1 DEF MyHolds, MyStays
      <4> QED
        BY <4>3, <4>4, <4>5
    <3> QED
      BY <3>5 DEF Uncopyable, BetweenMySql
  <2> QED
    BY <2>3, <2>4
<1> QED
  BY <1>1, CopyInvariant, FailedInvariant, PTL
=============================================================================
