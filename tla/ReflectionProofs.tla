-------------------------- MODULE ReflectionProofs --------------------------
(***************************************************************************)
(* Lemmas about what the reflection of both engines has in common, for     *)
(* every schema and every number of statements of others.                  *)
(***************************************************************************)
EXTENDS Reflection, FiniteSetTheorems, TLAPS

-----------------------------------------------------------------------------
(* Sequences.                                                              *)

\* SetToSeq lists a finite set, every element once.
LEMMA Listing ==
    ASSUME NEW S, IsFiniteSet(S)
    PROVE  /\ SetToSeq(S) \in Seq(S)
           /\ IsInjective(SetToSeq(S))
           /\ Range(SetToSeq(S)) = S
           /\ SetToSeq(S) = <<>> <=> S = {}
  <1>1. Cardinality(S) \in Nat /\ ExistsBijection(1..Cardinality(S), S)
    BY FS_CardinalityType
  <1>2. PICK g \in [1..Cardinality(S) -> S] : IsInjective(g)
    BY <1>1 DEF ExistsBijection, Bijection, Injection, IsInjective
  <1> DEFINE f == SetToSeq(S)
  <1>3. f \in [1..Cardinality(S) -> S] /\ IsInjective(f)
    BY <1>2 DEF SetToSeq
  <1> HIDE DEF f
  <1>4. f \in Injection(1..Cardinality(S), S)
    BY <1>3 DEF Injection
  <1>5. f \in Surjection(1..Cardinality(S), S)
    <2>1. IsFiniteSet(1..Cardinality(S)) /\ Cardinality(1..Cardinality(S)) = Cardinality(S)
      BY <1>1, FS_Interval
    <2>2. QED
      BY <2>1, <1>4, FS_Injection
  <1>6. Range(f) = S
    BY <1>3, <1>5 DEF Surjection, Range
  <1>7. f \in Seq(S)
    BY <1>1, <1>3
  <1>8. f = <<>> <=> S = {}
    BY <1>6, <1>7 DEF Range
  <1>9. QED
    BY <1>3, <1>6, <1>7, <1>8 DEF f

\* The rest of a sequence has its elements but for the first, which is not among
\* them when no element comes twice.
LEMMA RestOf ==
    ASSUME NEW S, NEW s \in Seq(S), s # <<>>
    PROVE  /\ Head(s) \in Range(s) /\ Head(s) \in S /\ Head(s) = s[1]
           /\ Tail(s) \in Seq(S)
           /\ Range(s) = {Head(s)} \cup Range(Tail(s))
           /\ IsInjective(s) => IsInjective(Tail(s)) /\ Head(s) \notin Range(Tail(s))
  <1>1. /\ Head(s) = s[1] /\ Tail(s) \in Seq(S) /\ Len(Tail(s)) = Len(s) - 1
        /\ DOMAIN s = 1..Len(s) /\ DOMAIN Tail(s) = 1..(Len(s) - 1)
        /\ \A i \in 1..(Len(s) - 1) : Tail(s)[i] = s[i + 1]
        /\ Len(s) \in Nat \ {0} /\ s[1] \in S
    OBVIOUS
  <1>2. \A i \in 2..Len(s) : i - 1 \in 1..(Len(s) - 1) /\ Tail(s)[i - 1] = s[i]
    BY <1>1
  <1>3. Range(s) = {Head(s)} \cup Range(Tail(s))
    <2>1. \A i \in 1..Len(s) : i = 1 \/ i \in 2..Len(s)
      BY <1>1
    <2>2. \A i \in 1..(Len(s) - 1) : i + 1 \in 1..Len(s) /\ 1 \in 1..Len(s)
      BY <1>1
    <2>3. ASSUME NEW i \in 1..Len(s) PROVE s[i] \in {Head(s)} \cup Range(Tail(s))
      <3>1. CASE i = 1
        BY <1>1, <3>1
      <3>2. CASE i \in 2..Len(s)
        BY <1>1, <1>2, <3>2 DEF Range
      <3>3. QED
        BY <2>1, <3>1, <3>2
    <2>4. {Head(s)} \cup Range(Tail(s)) \subseteq Range(s)
      BY <1>1, <2>2 DEF Range
    <2>5. QED
      BY <1>1, <2>3, <2>4 DEF Range
  <1>4. ASSUME IsInjective(s)
        PROVE  IsInjective(Tail(s)) /\ Head(s) \notin Range(Tail(s))
    <2>1. \A i, j \in 1..Len(s) : s[i] = s[j] => i = j
      BY <1>1, <1>4 DEF IsInjective
    <2>2. \A i \in 1..(Len(s) - 1) : i + 1 \in 1..Len(s) /\ i + 1 # 1 /\ 1 \in 1..Len(s)
      BY <1>1
    <2>3. \A i, j \in 1..(Len(s) - 1) : Tail(s)[i] = Tail(s)[j] => i = j
      BY <1>1, <2>1, <2>2
    <2>4. \A i \in 1..(Len(s) - 1) : Tail(s)[i] # Head(s)
      BY <1>1, <2>1, <2>2
    <2>5. QED
      BY <1>1, <2>3, <2>4 DEF IsInjective, Range
  <1>5. QED
    BY <1>1, <1>3, <1>4 DEF Range

-----------------------------------------------------------------------------
(* The catalog.                                                            *)

\* The elements of d are those of t and others that definitions of t have.
Extends(t, d) ==
    \A field \in {"uniques", "indexes", "fks"} :
        d[field] \subseteq Seen(t)[field] \cup Defined(t, field)

Keeps(t, d) == IsDefinition(d) /\ Extends(t, d)

\* The invariant of the catalog.
CatalogInv ==
    /\ CatalogTypeOK
    /\ catalog = [t \in Tables |-> catalog[t]]
    /\ \A t \in Tables : oid[t] <= ddls
    /\ \A t \in Present : IsDefinition(catalog[t])

\* A statement of others leaves alone what it is not about, and says so.
Untouched ==
    /\ touched \subseteq touched'
    /\ \A t \in Tables \ touched' : catalog'[t] = catalog[t] /\ oid'[t] = oid[t]
    /\ \A k \in Kinds : others'[k] \ touched' = others[k] \ touched'

\* A statement gives tables no element but those of their definitions.
Adds == \A t \in Tables : catalog'[t] # Gone => Extends(t, catalog'[t])

\* A table nobody changed has one of its definitions,
DefinedInv == \A t \in Tables \ touched : catalog[t] \in Definitions[t]

\* and keeps it.
LEMMA DefinedStays == ASSUME DefinedInv, Untouched PROVE DefinedInv'
  BY DEF DefinedInv, Untouched

\* The fields of a definition.
LEMMA FieldsAre ==
    Fields = {"columns", "pk", "uniques", "indexes", "fks", "checks", "exclusions",
              "triggers", "comment"}
  BY DEF Fields, Blank

\* A table without anything in it.
LEMMA BlankIs ==
    /\ Blank = [field \in Fields |-> Blank[field]]
    /\ \A field \in Fields \ {"columns"} : Blank[field] = {}
    /\ DOMAIN Blank.columns = {}
  BY FieldsAre DEF Blank

\* It is a definition.
LEMMA BlankIsDefinition == IsDefinition(Blank)
  <1>1. \A field \in Fields \ {"columns"} : Blank[field] = {}
    BY FieldsAre DEF Blank
  <1>2. IsFiniteSet({})
    BY FS_EmptySet
  <1>3. QED
    BY <1>1, <1>2, FieldsAre DEF IsDefinition, ColumnNames, Blank

\* A table that is not there has no definition.
LEMMA GoneIsNone == ASSUME NEW d, IsDefinition(d) PROVE d # Gone
  <1>1. DOMAIN d = Fields
    BY DEF IsDefinition
  <1>2. DOMAIN Gone # Fields
    BY CatalogAssumption
  <1>3. QED
    BY <1>1, <1>2

\* A definition with other columns is one.
LEMMA ChangedColumns ==
    ASSUME NEW d, IsDefinition(d), NEW columns, columns = [c \in DOMAIN columns |-> columns[c]]
    PROVE  IsDefinition([d EXCEPT !.columns = columns])
  BY FieldsAre DEF IsDefinition, ColumnNames

\* A definition with other elements in one field.
LEMMA ChangedField ==
    ASSUME NEW d, IsDefinition(d), NEW field \in Fields \ {"columns"},
           NEW S, IsFiniteSet(S),
           field \in {"uniques", "checks", "exclusions"} => S \subseteq Constraints,
           field = "indexes" => S \subseteq Indexes,
           field = "fks" => S \subseteq ForeignKeys,
           field = "uniques" => \A i, j \in S \cup d.indexes : i.name = j.name => i = j,
           field = "indexes" => \A i, j \in S \cup d.uniques : i.name = j.name => i = j
    PROVE  IsDefinition([d EXCEPT ![field] = S])
  <1> DEFINE e == [d EXCEPT ![field] = S]
  <1>1. d = [x \in Fields |-> d[x]]
    BY DEF IsDefinition
  <1>2. e = [x \in Fields |-> IF x = field THEN S ELSE d[x]]
    BY <1>1
  <1> HIDE DEF e
  <1>3. \A x \in Fields : e[x] = IF x = field THEN S ELSE d[x]
    BY <1>2
  <1>4. e = [x \in Fields |-> e[x]]
    BY <1>2
  <1>5. e.columns = [c \in ColumnNames(e) |-> e.columns[c]]
    BY <1>3, FieldsAre DEF IsDefinition, ColumnNames
  <1>6. \A x \in Fields \ {"columns"} : IsFiniteSet(e[x])
    BY <1>3 DEF IsDefinition
  <1>7. e.uniques \cup e.checks \cup e.exclusions \subseteq Constraints
    BY <1>3, FieldsAre DEF IsDefinition
  <1>8. e.indexes \subseteq Indexes /\ e.fks \subseteq ForeignKeys
    BY <1>3, FieldsAre DEF IsDefinition
  <1>9. \A i, j \in e.uniques \cup e.indexes : i.name = j.name => i = j
    BY <1>3, FieldsAre DEF IsDefinition
  <1>10. QED
    BY <1>4, <1>5, <1>6, <1>7, <1>8, <1>9 DEF IsDefinition, e

\* A statement that defines one table keeps the invariant.
LEMMA DefineStays ==
    ASSUME CatalogInv, NEW t \in Tables, NEW d, d = Gone \/ IsDefinition(d), Define(t, d),
           UNCHANGED oid \/ oid' = [oid EXCEPT ![t] = @ + 1]
    PROVE  CatalogInv' /\ Untouched
  <1>1. CatalogTypeOK'
    <2>1. WellFormed(catalog)'
      BY DEF Define
    <2>2. oid' \in [Tables -> 0..MaxDdl]
      BY CatalogAssumption DEF CatalogInv, CatalogTypeOK, Define
    <2>3. touched' \subseteq Tables \cup ObjectNames /\ ddls' \in 0..MaxDdl
      BY CatalogAssumption DEF CatalogInv, CatalogTypeOK, Define
    <2>4. QED
      BY <2>1, <2>2, <2>3 DEF CatalogInv, CatalogTypeOK, Define
  <1>2. catalog' = [u \in Tables |-> catalog'[u]]
    BY DEF CatalogInv, Define
  <1>3. \A u \in Tables : oid'[u] <= ddls'
    BY CatalogAssumption DEF CatalogInv, CatalogTypeOK, Define
  <1>4. \A u \in Tables : catalog'[u] = IF u = t THEN d ELSE catalog[u]
    BY DEF CatalogInv, Define
  <1>5. ASSUME NEW u \in Tables, catalog'[u] # Gone
        PROVE  IsDefinition(catalog'[u])
    BY <1>4, <1>5 DEF CatalogInv, Present
  <1>6. CatalogInv'
    BY <1>1, <1>2, <1>3, <1>5 DEF CatalogInv, Present, IsDefinition, ColumnNames
  <1>7. Untouched
    BY <1>4 DEF Untouched, CatalogInv, CatalogTypeOK, Define
  <1>8. QED
    BY <1>6, <1>7

LEMMA DefineKeeps ==
    ASSUME CatalogInv, NEW t \in Tables, NEW d, d = Gone \/ Keeps(t, d), Define(t, d),
           UNCHANGED oid \/ oid' = [oid EXCEPT ![t] = @ + 1]
    PROVE  CatalogInv' /\ Untouched /\ Adds
  <1>1. \A u \in Tables : catalog'[u] = IF u = t THEN d ELSE catalog[u]
    BY DEF CatalogInv, Define
  <1>2. ASSUME NEW u \in Tables, catalog'[u] # Gone
        PROVE  Extends(u, catalog'[u])
    BY <1>1, <1>2 DEF Keeps, Extends, Seen
  <1>3. QED
    BY <1>2, DefineStays DEF Adds, Keeps

\* The definitions a table may be given.
LEMMA DefinitionsKeep ==
    ASSUME NEW t \in Tables, NEW d \in Definitions[t] \ {Gone}
    PROVE  /\ Keeps(t, d)
           /\ \A field \in Fields : d[field] \subseteq Defined(t, field)
  BY CatalogAssumption, FieldsAre DEF Keeps, Extends, Defined

\* An element that a definition has and the table has not is one of its kind.
LEMMA MissingAre ==
    ASSUME NEW t \in Tables, NEW field \in Fields, NEW e \in Missing(t, field)
    PROVE  /\ e \in Defined(t, field) /\ e \notin catalog[t][field]
           /\ field \in {"uniques", "checks"} => e \in Constraints
           /\ field = "indexes" => e \in Indexes
           /\ field = "fks" => e \in ForeignKeys
  <1>1. PICK d \in Definitions[t] \ {Gone} : e \in d[field]
    BY DEF Missing, Defined
  <1>2. IsDefinition(d)
    BY CatalogAssumption
  <1>3. QED
    BY <1>1, <1>2 DEF Missing, IsDefinition

\* A table with one element more.
LEMMA WithKeeps ==
    ASSUME CatalogInv, NEW t \in Present, NEW field \in {"uniques", "checks", "fks", "indexes"},
           NEW e \in Missing(t, field),
           field \in {"uniques", "indexes"} => e.name \notin UsedNames(catalog[t])
    PROVE  Keeps(t, With(t, field, e))
  <1> DEFINE d == catalog[t]  S == d[field] \cup {e}
  <1>1. t \in Tables /\ IsDefinition(d) /\ Seen(t) = d
    BY DEF CatalogInv, Present, Seen
  <1>2. field \in Fields \ {"columns"} /\ IsFiniteSet(S)
    BY <1>1, FieldsAre, FS_AddElement DEF IsDefinition
  <1>3. /\ e \in Defined(t, field)
        /\ field \in {"uniques", "checks"} => e \in Constraints
        /\ field = "indexes" => e \in Indexes
        /\ field = "fks" => e \in ForeignKeys
    BY <1>1, <1>2, MissingAre
  <1>4. /\ field \in {"uniques", "checks", "exclusions"} => S \subseteq Constraints
        /\ field = "indexes" => S \subseteq Indexes
        /\ field = "fks" => S \subseteq ForeignKeys
    BY <1>1, <1>3 DEF IsDefinition
  <1>5. field = "uniques" => \A i, j \in S \cup d.indexes : i.name = j.name => i = j
    BY <1>1 DEF IsDefinition, UsedNames
  <1>6. field = "indexes" => \A i, j \in S \cup d.uniques : i.name = j.name => i = j
    BY <1>1 DEF IsDefinition, UsedNames
  <1>7. IsDefinition([d EXCEPT ![field] = S])
    <2> HIDE DEF d, S
    <2> QED BY <1>1, <1>2, <1>4, <1>5, <1>6, ChangedField
  <1>8. With(t, field, e) = [d EXCEPT ![field] = S]
    BY DEF With
  <1>9. \A x \in Fields : With(t, field, e)[x] = IF x = field THEN S ELSE d[x]
    BY <1>1, <1>2, <1>8 DEF IsDefinition
  <1>10. QED
    BY <1>1, <1>3, <1>7, <1>8, <1>9, FieldsAre DEF Keeps, Extends

\* A table with fewer elements.
LEMMA WithoutKeeps ==
    ASSUME CatalogInv, NEW t \in Present, NEW field \in Fields \ {"columns"},
           NEW S \in SUBSET catalog[t][field]
    PROVE  Keeps(t, [catalog[t] EXCEPT ![field] = S])
  <1> DEFINE d == catalog[t]
  <1>1. t \in Tables /\ IsDefinition(d) /\ Seen(t) = d
    BY DEF CatalogInv, Present, Seen
  <1>2. IsFiniteSet(S)
    BY <1>1, FS_Subset DEF IsDefinition
  <1>3. IsDefinition([d EXCEPT ![field] = S])
    <2>1. /\ field \in {"uniques", "checks", "exclusions"} => S \subseteq Constraints
          /\ field = "indexes" => S \subseteq Indexes
          /\ field = "fks" => S \subseteq ForeignKeys
          /\ field = "uniques" => \A i, j \in S \cup d.indexes : i.name = j.name => i = j
          /\ field = "indexes" => \A i, j \in S \cup d.uniques : i.name = j.name => i = j
      BY <1>1 DEF IsDefinition
    <2> HIDE DEF d
    <2> QED BY <1>1, <1>2, <2>1, ChangedField
  <1>4. \A x \in Fields : [d EXCEPT ![field] = S][x] = IF x = field THEN S ELSE d[x]
    BY <1>1 DEF IsDefinition
  <1>5. QED
    BY <1>1, <1>3, <1>4, FieldsAre DEF Keeps, Extends

\* A table as CREATE TABLE makes it.
LEMMA NewKeeps ==
    ASSUME NEW t \in Tables, NEW d \in Definitions[t] \ {Gone}
    PROVE  Keeps(t, [Blank EXCEPT !.columns = d.columns, !.pk = d.pk])
  <1> DEFINE e == [Blank EXCEPT !.columns = d.columns, !.pk = d.pk]
  <1>1. IsDefinition(d)
    BY CatalogAssumption
  <1>2. e = [x \in Fields |-> IF x = "columns" THEN d.columns
                              ELSE IF x = "pk" THEN d.pk ELSE {}]
    BY FieldsAre, BlankIs
  <1> HIDE DEF e
  <1>3. \A x \in Fields : e[x] = IF x = "columns" THEN d.columns
                                 ELSE IF x = "pk" THEN d.pk ELSE {}
    BY <1>2
  <1>4. e = [x \in Fields |-> e[x]]
    BY <1>2
  <1>5. \A x \in Fields \ {"columns"} : IsFiniteSet(e[x])
    BY <1>1, <1>3, FieldsAre, FS_EmptySet DEF IsDefinition
  <1>6. IsDefinition(e)
    BY <1>1, <1>3, <1>4, <1>5, FieldsAre DEF IsDefinition, ColumnNames
  <1>7. QED
    BY <1>3, <1>6, FieldsAre DEF Keeps, Extends, e

\* A table with other columns.
LEMMA ColumnsKeep ==
    ASSUME CatalogInv, NEW t \in Present,
           NEW columns, columns = [c \in DOMAIN columns |-> columns[c]]
    PROVE  Keeps(t, [catalog[t] EXCEPT !.columns = columns])
  <1> DEFINE d == catalog[t]
  <1>1. t \in Tables /\ IsDefinition(d) /\ Seen(t) = d
    BY DEF CatalogInv, Present, Seen
  <1>2. IsDefinition([d EXCEPT !.columns = columns])
    <2> HIDE DEF d
    <2> QED BY <1>1, ChangedColumns
  <1>3. \A x \in Fields \ {"columns"} : [d EXCEPT !.columns = columns][x] = d[x]
    BY <1>1 DEF IsDefinition
  <1>4. QED
    BY <1>1, <1>2, <1>3, FieldsAre DEF Keeps, Extends

\* A table with a primary key.
LEMMA KeyKeeps ==
    ASSUME CatalogInv, NEW t \in Present, NEW d \in Definitions[t] \ {Gone}
    PROVE  Keeps(t, WithKey(catalog[t], d.pk))
  <1> DEFINE o == catalog[t]  e == WithKey(o, d.pk)
             columns == [c \in DOMAIN o.columns |->
                  IF c \in d.pk /\ o.columns[c] = "plain" THEN "required" ELSE o.columns[c]]
  <1>1. t \in Tables /\ IsDefinition(o) /\ Seen(t) = o
    BY DEF CatalogInv, Present, Seen
  <1>2. IsFiniteSet(d.pk)
    BY <1>1, CatalogAssumption, FieldsAre DEF IsDefinition
  <1>3. e = [x \in Fields |-> IF x = "columns" THEN columns
                             ELSE IF x = "pk" THEN d.pk ELSE o[x]]
    BY <1>1, FieldsAre DEF WithKey, IsDefinition
  <1>4. columns = [c \in DOMAIN columns |-> columns[c]]
    OBVIOUS
  <1> HIDE DEF e, columns, o
  <1>5. \A x \in Fields : e[x] = IF x = "columns" THEN columns
                                 ELSE IF x = "pk" THEN d.pk ELSE o[x]
    BY <1>3
  <1>6. e = [x \in Fields |-> e[x]]
    BY <1>3
  <1>7. \A x \in Fields \ {"columns"} : IsFiniteSet(e[x])
    BY <1>1, <1>2, <1>5, FieldsAre DEF IsDefinition
  <1>8. IsDefinition(e)
    BY <1>1, <1>4, <1>5, <1>6, <1>7, FieldsAre DEF IsDefinition, ColumnNames
  <1>9. QED
    BY <1>1, <1>5, <1>8, FieldsAre DEF Keeps, Extends, e, o

\* The statements both engines execute alike.
LEMMA CommonDdlKeeps ==
    ASSUME CatalogInv, CommonDdl
    PROVE  CatalogInv' /\ Untouched /\ Adds
  <1>1. ASSUME NEW t \in Tables, CreateTable(t)
        PROVE  CatalogInv' /\ Untouched /\ Adds
    BY <1>1, NewKeeps, DefineKeeps DEF CreateTable
  <1>2. ASSUME NEW t \in Tables, CreateIndex(t)
        PROVE  CatalogInv' /\ Untouched /\ Adds
    <2>1. PICK i \in Missing(t, "indexes") :
              i.name \notin UsedNames(catalog[t]) /\ Define(t, With(t, "indexes", i))
      BY <1>2 DEF CreateIndex
    <2>2. Keeps(t, With(t, "indexes", i))
      BY <1>2, <2>1, WithKeeps DEF CreateIndex
    <2>3. QED
      BY <1>2, <2>1, <2>2, DefineKeeps DEF CreateIndex
  <1>3. ASSUME NEW t \in Tables, AddColumn(t)
        PROVE  CatalogInv' /\ Untouched /\ Adds
    <2>1. PICK d \in Definitions[t] \ {Gone} : \E c \in ColumnNames(d) :
              Define(t, [catalog[t] EXCEPT !.columns =
                        [x \in DOMAIN @ \cup {c} |-> IF x = c THEN d.columns[c] ELSE @[x]]])
      BY <1>3 DEF AddColumn
    <2>2. PICK c \in ColumnNames(d) :
              Define(t, [catalog[t] EXCEPT !.columns =
                        [x \in DOMAIN @ \cup {c} |-> IF x = c THEN d.columns[c] ELSE @[x]]])
      BY <2>1
    <2> DEFINE columns == [x \in DOMAIN catalog[t].columns \cup {c} |->
                              IF x = c THEN d.columns[c] ELSE catalog[t].columns[x]]
    <2>3. columns = [x \in DOMAIN columns |-> columns[x]]
      OBVIOUS
    <2>4. Define(t, [catalog[t] EXCEPT !.columns = columns])
      BY <2>2
    <2> HIDE DEF columns
    <2>5. Keeps(t, [catalog[t] EXCEPT !.columns = columns])
      BY <1>3, <2>3, ColumnsKeep DEF AddColumn
    <2>6. QED
      BY <1>3, <2>4, <2>5, DefineKeeps DEF AddColumn
  <1>4. ASSUME NEW t \in Tables, AddConstraint(t)
        PROVE  CatalogInv' /\ Untouched /\ Adds
    <2>1. t \in Present /\ UNCHANGED oid
      BY <1>4 DEF AddConstraint
    <2>2. ASSUME NEW d \in Definitions[t] \ {Gone}, Define(t, WithKey(catalog[t], d.pk))
          PROVE  CatalogInv' /\ Untouched /\ Adds
      BY <2>1, <2>2, KeyKeeps, DefineKeeps
    <2>3. ASSUME NEW field \in {"uniques", "fks", "checks"}, NEW e \in Missing(t, field),
                 field = "uniques" => e.name \notin UsedNames(catalog[t]),
                 Define(t, With(t, field, e))
          PROVE  CatalogInv' /\ Untouched /\ Adds
      <3>1. Keeps(t, With(t, field, e))
        BY <2>1, <2>3, WithKeeps
      <3>2. QED
        BY <2>1, <2>3, <3>1, DefineKeeps
    <2>4. QED
      BY <1>4, <2>2, <2>3 DEF AddConstraint
  <1>5. ASSUME NEW t \in Tables, DropConstraint(t)
        PROVE  CatalogInv' /\ Untouched /\ Adds
    <2>1. t \in Present /\ UNCHANGED oid
      BY <1>5 DEF DropConstraint
    <2>2. ASSUME NEW field \in Fields \ {"columns"}, NEW S \in SUBSET catalog[t][field],
                 Define(t, [catalog[t] EXCEPT ![field] = S])
          PROVE  CatalogInv' /\ Untouched /\ Adds
      BY <2>1, <2>2, WithoutKeeps, DefineKeeps
    <2>3. CASE Define(t, [catalog[t] EXCEPT !.pk = {}])
      BY <2>2, <2>3, FieldsAre
    <2>4. CASE \E field \in {"uniques", "fks", "checks"} : \E e \in catalog[t][field] :
                 Define(t, [catalog[t] EXCEPT ![field] = @ \ {e}])
      BY <2>2, <2>4, FieldsAre
    <2>5. QED
      BY <1>5, <2>3, <2>4 DEF DropConstraint
  <1>6. ASSUME NEW t \in Tables, DropIndex(t)
        PROVE  CatalogInv' /\ Untouched /\ Adds
    <2>1. PICK i \in catalog[t].indexes : Define(t, [catalog[t] EXCEPT !.indexes = @ \ {i}])
      BY <1>6 DEF DropIndex
    <2>2. t \in Present /\ UNCHANGED oid
      BY <1>6 DEF DropIndex
    <2>3. Keeps(t, [catalog[t] EXCEPT !.indexes = @ \ {i}])
      BY <2>2, WithoutKeeps, FieldsAre
    <2>4. QED
      BY <2>1, <2>2, <2>3, DefineKeeps
  <1>7. ASSUME NEW kind \in Kinds, NEW o \in Objects[kind], ChangeObject(kind, o)
        PROVE  CatalogInv' /\ Untouched /\ Adds
    <2>1. /\ others' = [others EXCEPT ![kind] = IF o \in @ THEN @ \ {o} ELSE @ \cup {o}]
          /\ touched' = touched \cup {o} /\ ddls' = ddls + 1 /\ ddls < MaxDdl
          /\ UNCHANGED <<catalog, oid>>
      BY <1>7 DEF ChangeObject
    <2>2. /\ DOMAIN others = Kinds /\ \A k \in Kinds : others[k] \subseteq Objects[k]
          /\ oid \in [Tables -> 0..MaxDdl] /\ touched \subseteq Tables \cup ObjectNames
          /\ ddls \in 0..MaxDdl /\ WellFormed(catalog)
      BY DEF CatalogInv, CatalogTypeOK
    <2>3. DOMAIN others' = Kinds /\ \A k \in Kinds : others'[k] \subseteq Objects[k]
      BY <2>1, <2>2
    <2>4. WellFormed(catalog)'
      BY <2>1, <2>2 DEF WellFormed, ColumnNames, KeysOf, IdentityAllowed
    <2>5. touched' \subseteq Tables \cup ObjectNames
      BY <2>1, <2>2 DEF ObjectNames
    <2>6. CatalogTypeOK'
      BY <2>1, <2>2, <2>3, <2>4, <2>5, CatalogAssumption DEF CatalogTypeOK
    <2>7. \A u \in Tables : oid'[u] <= ddls'
      BY <2>1, <2>2, CatalogAssumption DEF CatalogInv
    <2>8. Present' = Present /\ \A u \in Present : IsDefinition(catalog[u])'
      BY <2>1 DEF Present, CatalogInv, IsDefinition, ColumnNames
    <2>9. CatalogInv'
      BY <2>1, <2>6, <2>7, <2>8 DEF CatalogInv
    <2>10. Untouched /\ Adds
      BY <2>1, <2>2 DEF Untouched, Adds, Extends, Seen
    <2>11. QED
      BY <2>9, <2>10
  <1>8. QED
    BY <1>1, <1>2, <1>3, <1>4, <1>5, <1>6, <1>7 DEF CommonDdl

\* The steps of the walk leave the catalog alone.
LEMMA CatalogStays == ASSUME CatalogInv, UNCHANGED catalogVars PROVE CatalogInv'
  <1> USE DEF catalogVars
  <1>1. WellFormed(catalog)' <=> WellFormed(catalog)
    BY DEF WellFormed, ColumnNames, KeysOf, IdentityAllowed
  <1>2. CatalogTypeOK'
    BY <1>1 DEF CatalogInv, CatalogTypeOK
  <1>3. Present' = Present
    BY DEF Present
  <1>4. \A t \in Present : IsDefinition(catalog[t])'
    BY <1>3 DEF CatalogInv, IsDefinition, ColumnNames
  <1>5. QED
    BY <1>2, <1>3, <1>4 DEF CatalogInv

-----------------------------------------------------------------------------
(* The walk.                                                               *)

\* The queries that read one table, and those that read other objects; some of
\* them belong to one engine only.
TableSteps == Fields \cup {"fkColumns", "fkRefs", "indexColumns"}
ListSteps == {"viewColumns", "sequence"}
ObjectSteps == {"views", "sequences", "functions"} \cup ListSteps
SchemaSteps == {"enums", "list"}
Failures == {"failed", "missing"}

\* Home is not walked yet: it comes later, or its tables are not listed.
HomeAhead ==
    \/ pc = "schemas"
    \/ Home \in Range(queue) /\ (Head(queue) # Home \/ pc \in SchemaSteps)

\* Home is being walked, and what is at that place.
AtHomeIn(steps) == Home \in Range(queue) /\ Head(queue) = Home /\ pc \in steps

\* The queries that come before the objects of this kind are read.
Before(kind) ==
    TableSteps \cup CASE kind = "views"     -> {"views"}
                      [] kind = "sequences" -> {"views", "viewColumns", "sequences"}
                      [] OTHER              -> ObjectSteps

Ahead(kind) == HomeAhead \/ AtHomeIn(Before(kind))

\* Where the walk is.
WalkInv ==
    /\ only \in Tables \cup {Every, Whole}
    /\ pc \in {"schemas"} \cup SchemaSteps \cup TableSteps \cup ObjectSteps \cup Ends \cup CopyStates
    /\ queue \in Seq(Range(Schemas)) /\ IsInjective(queue)
    /\ only # Whole => queue \in {<<Home>>, <<>>}
    /\ pc = "schemas" => only = Whole
    /\ pc \in SchemaSteps \cup TableSteps \cup ObjectSteps => queue # <<>>
    /\ pc \in TableSteps => Head(queue) = Home /\ todo # <<>>
    /\ pc \in ObjectSteps => only \notin Tables
    /\ pc \in ListSteps => Head(queue) = Home /\ listed # <<>>
    /\ pc \in AfterReflection => only \in Tables \/ queue = <<>>
    /\ pc \notin TableSteps \cup Failures => todo = <<>> /\ draft = Blank
    /\ pc \notin ListSteps \cup Failures => listed = <<>>
    /\ draft = [field \in Fields |-> draft[field]]

\* The tables that are asked for are read or still to be read, each once.
TablesInv ==
    /\ todo \in Seq(Tables) /\ IsInjective(todo)
    /\ result \in Seq(Range(result))
    /\ \A i \in DOMAIN result :
          result[i].table \in Tables \ Range(todo) /\ DOMAIN result[i].def = Fields
    /\ \A i, j \in DOMAIN result : result[i].table = result[j].table => i = j
    /\ HomeAhead => result = <<>>
    /\ ~HomeAhead /\ pc \notin Failures =>
          \A t \in Present \ touched : only \in {t, Every, Whole} =>
              t \in Range(todo) \/ \E i \in DOMAIN result : result[i].table = t
    /\ Range(todo) \ touched \subseteq Present

\* No name comes twice.
NamesOnce(s) == \A i, j \in DOMAIN s : s[i].name = s[j].name => i = j

\* The kind of the objects that are read one by one.
ListedKind == IF pc = "sequence" THEN "sequences" ELSE "views"

\* The other objects are read or still to be read, each once.
ObjectsInv ==
    /\ found \in Seq([name : ObjectNames, full : BOOLEAN]) /\ NamesOnce(found)
    /\ \A e \in Range(found) : e.name \notin touched => e.full
    /\ \A kind \in Kinds : Ahead(kind) => \A e \in Range(found) : e.name \notin Objects[kind]
    /\ pc \in ListSteps =>
          /\ listed \in Seq([name : Objects[ListedKind], full : BOOLEAN]) /\ NamesOnce(listed)
          /\ \A e \in Range(found), l \in Range(listed) : e.name # l.name
          /\ \A l \in Range(listed) : l.name \notin touched => l.name \in others[ListedKind]

ReadInv == CatalogInv /\ WalkInv /\ TablesInv /\ ObjectsInv

\* No object of this kind that nobody changed is forgotten.
Covered(kind) ==
    ~Ahead(kind) /\ pc \notin Failures /\ only \notin Tables =>
        \A o \in others[kind] \ touched : \E e \in Range(found) \cup Range(listed) : e.name = o

\* What a step of the walk keeps.
Walks == ReadInv' /\ \A kind \in Kinds : Covered(kind) => Covered(kind)'

\* The places of the walk.
LEMMA StepsApart ==
    /\ TableSteps \cap ({"schemas"} \cup SchemaSteps \cup ObjectSteps \cup Failures \cup AfterReflection) = {}
    /\ ObjectSteps \cap ({"schemas"} \cup SchemaSteps \cup Failures \cup AfterReflection) = {}
    /\ SchemaSteps \cap ({"schemas"} \cup Failures \cup AfterReflection) = {}
    /\ Failures \cap AfterReflection = {} /\ "schemas" \notin Failures \cup AfterReflection
    /\ ListSteps \subseteq ObjectSteps /\ Failures \subseteq Ends /\ Fields \subseteq TableSteps
    /\ Ends \cup CopyStates = Failures \cup AfterReflection
    /\ \A kind \in Kinds : TableSteps \subseteq Before(kind) /\ Before(kind) \subseteq TableSteps \cup ObjectSteps
  <1> USE FieldsAre DEF TableSteps, ObjectSteps, ListSteps, SchemaSteps, Failures, AfterReflection,
                        CopyStates, Ends
  <1>1. \A kind \in Kinds : TableSteps \subseteq Before(kind) /\ Before(kind) \subseteq TableSteps \cup ObjectSteps
    BY DEF Kinds, Before
  <1>2. QED
    BY <1>1

\* Sequences of names put together.
LEMMA Joined ==
    ASSUME NEW S, NEW s \in Seq(S), NEW u \in Seq(S), NamesOnce(s), NamesOnce(u),
           \A e \in Range(s), l \in Range(u) : e.name # l.name
    PROVE  s \o u \in Seq(S) /\ NamesOnce(s \o u) /\ Range(s \o u) = Range(s) \cup Range(u)
  <1> DEFINE w == s \o u
  <1>1. /\ w \in Seq(S) /\ Len(s) \in Nat /\ Len(u) \in Nat
        /\ DOMAIN s = 1..Len(s) /\ DOMAIN u = 1..Len(u) /\ DOMAIN w = 1..(Len(s) + Len(u))
        /\ \A i \in 1..Len(s) : w[i] = s[i]
        /\ \A i \in (Len(s) + 1)..(Len(s) + Len(u)) : w[i] = u[i - Len(s)]
    OBVIOUS
  <1> HIDE DEF w
  <1>2. \A i \in DOMAIN w : i \in 1..Len(s) \/ (i \in (Len(s) + 1)..(Len(s) + Len(u)) /\ i - Len(s) \in 1..Len(u))
    BY <1>1
  <1>3. \A i \in 1..Len(s) : i \in DOMAIN w
    BY <1>1
  <1>4. \A i \in 1..Len(u) : /\ i + Len(s) \in (Len(s) + 1)..(Len(s) + Len(u))
                            /\ i + Len(s) \in DOMAIN w /\ w[i + Len(s)] = u[i]
    <2>1. ASSUME NEW i \in 1..Len(u)
          PROVE  /\ i + Len(s) \in (Len(s) + 1)..(Len(s) + Len(u)) /\ i + Len(s) \in DOMAIN w
                 /\ (i + Len(s)) - Len(s) = i
      BY <1>1
    <2>2. QED
      BY <1>1, <2>1
  <1>5. Range(w) = Range(s) \cup Range(u)
    <2>1. ASSUME NEW i \in DOMAIN w PROVE w[i] \in Range(s) \cup Range(u)
      BY <1>1, <1>2 DEF Range
    <2>2. ASSUME NEW i \in DOMAIN s PROVE s[i] \in Range(w)
      <3>1. i \in DOMAIN w /\ w[i] = s[i]
        BY <1>1, <1>3
      <3>2. QED
        BY <3>1 DEF Range
    <2>3. ASSUME NEW i \in DOMAIN u PROVE u[i] \in Range(w)
      <3>1. i + Len(s) \in DOMAIN w /\ w[i + Len(s)] = u[i]
        BY <1>1, <1>4
      <3>2. QED
        BY <3>1 DEF Range
    <2>4. QED
      BY <2>1, <2>2, <2>3 DEF Range
  <1>6. ASSUME NEW i \in DOMAIN w, NEW j \in DOMAIN w, w[i].name = w[j].name
        PROVE  i = j
    <2>1. CASE i \in 1..Len(s) /\ j \in 1..Len(s)
      BY <1>1, <1>6, <2>1 DEF NamesOnce
    <2>2. CASE i \notin 1..Len(s) /\ j \notin 1..Len(s)
      <3>1. /\ i - Len(s) \in DOMAIN u /\ j - Len(s) \in DOMAIN u
            /\ u[i - Len(s)].name = u[j - Len(s)].name
        BY <1>1, <1>2, <1>6, <2>2
      <3>2. i - Len(s) = j - Len(s)
        BY <3>1 DEF NamesOnce
      <3>3. QED
        BY <1>1, <3>2
    <2>3. CASE i \in 1..Len(s) /\ j \notin 1..Len(s)
      <3>1. w[i] \in Range(s) /\ w[j] \in Range(u)
        BY <1>1, <1>2, <2>3 DEF Range
      <3>2. QED
        BY <1>6, <3>1
    <2>4. CASE i \notin 1..Len(s) /\ j \in 1..Len(s)
      <3>1. w[j] \in Range(s) /\ w[i] \in Range(u)
        BY <1>1, <1>2, <2>4 DEF Range
      <3>2. QED
        BY <1>6, <3>1
    <2>5. QED
      BY <2>1, <2>2, <2>3, <2>4
  <1>7. QED
    BY <1>1, <1>5, <1>6 DEF w, NamesOnce

\* One more of them.
LEMMA OneMore ==
    ASSUME NEW S, NEW s \in Seq(S), NEW e \in S, NamesOnce(s), \A x \in Range(s) : x.name # e.name
    PROVE  Append(s, e) \in Seq(S) /\ NamesOnce(Append(s, e)) /\ Range(Append(s, e)) = Range(s) \cup {e}
  <1>1. <<e>> \in Seq(S) /\ NamesOnce(<<e>>) /\ Range(<<e>>) = {e}
    BY DEF NamesOnce, Range
  <1>2. s \o <<e>> = Append(s, e)
    OBVIOUS
  <1>3. \A x \in Range(s), l \in Range(<<e>>) : x.name # l.name
    BY <1>1
  <1> HIDE DEF NamesOnce
  <1>4. /\ s \o <<e>> \in Seq(S) /\ NamesOnce(s \o <<e>>)
        /\ Range(s \o <<e>>) = Range(s) \cup Range(<<e>>)
    BY <1>1, <1>3, Joined
  <1>5. QED
    BY <1>1, <1>2, <1>4

\* The objects that one query returns.
LEMMA EntriesAre ==
    ASSUME CatalogInv, NEW kind \in Kinds
    PROVE  /\ Entries(kind) \in Seq([name : Objects[kind], full : BOOLEAN])
           /\ NamesOnce(Entries(kind))
           /\ Range(Entries(kind)) = {Entry(o, TRUE) : o \in AtHome(others[kind])}
           /\ Entries(kind) = <<>> <=> AtHome(others[kind]) = {}
  <1> DEFINE O == AtHome(others[kind])  S == {Entry(o, TRUE) : o \in O}
  <1>1. O \subseteq Objects[kind] /\ IsFiniteSet(O)
    <2>1. others[kind] \subseteq Objects[kind] /\ IsFiniteSet(Objects[kind])
      BY CatalogAssumption DEF CatalogInv, CatalogTypeOK
    <2>2. QED
      BY <2>1, FS_Subset, FS_EmptySet DEF AtHome
  <1> HIDE DEF O
  <1>2. IsFiniteSet(S)
    <2> DEFINE f == [o \in O |-> Entry(o, TRUE)]
    <2>1. f \in Surjection(O, S)
      BY DEF Surjection
    <2>2. QED
      BY <1>1, <2>1, FS_Surjection
  <1>3. S \subseteq [name : Objects[kind], full : BOOLEAN] /\ (S = {} <=> O = {})
    <2>1. \A o \in O : Entry(o, TRUE) \in [name : Objects[kind], full : BOOLEAN]
      BY <1>1 DEF Entry
    <2>2. QED
      BY <2>1
  <1>4. \A e, l \in S : e.name = l.name => e = l
    <2>1. ASSUME NEW e \in S, NEW l \in S, e.name = l.name PROVE e = l
      <3>1. PICK o \in O : e = Entry(o, TRUE)
        OBVIOUS
      <3>2. PICK p \in O : l = Entry(p, TRUE)
        OBVIOUS
      <3>3. QED
        BY <2>1, <3>1, <3>2 DEF Entry
    <2>2. QED
      BY <2>1
  <1> HIDE DEF S
  <1>5. /\ SetToSeq(S) \in Seq(S) /\ IsInjective(SetToSeq(S)) /\ Range(SetToSeq(S)) = S
        /\ SetToSeq(S) = <<>> <=> S = {}
    BY <1>2, Listing
  <1>6. NamesOnce(SetToSeq(S))
    <2>1. \A i \in DOMAIN SetToSeq(S) : SetToSeq(S)[i] \in S
      BY <1>5 DEF Range
    <2>2. QED
      BY <1>4, <1>5, <2>1 DEF NamesOnce, IsInjective
  <1>7. SetToSeq(S) \in Seq([name : Objects[kind], full : BOOLEAN])
    <2> DEFINE T == [name : Objects[kind], full : BOOLEAN]  q == SetToSeq(S)
    <2>1. S \subseteq T /\ q \in Seq(S)
      BY <1>3, <1>5
    <2> HIDE DEF T, q
    <2>2. q \in Seq(T)
      BY <2>1
    <2>3. QED
      BY <2>2 DEF T, q
  <1>8. Entries(kind) = SetToSeq(S)
    BY DEF Entries, O, S
  <1>9. QED
    BY <1>3, <1>5, <1>6, <1>7, <1>8 DEF S, O

-----------------------------------------------------------------------------
(* The walk, step by step.                                                 *)

\* The walk begins before the first schema.
LEMMA InitReads ==
    ASSUME NEW start \in SchemaSteps, ReflectionInit(start)
    PROVE  ReadInv /\ HomeAhead
  <1> USE DEF ReflectionInit
  <1>1. CatalogInv
    <2>1. CatalogTypeOK
      BY CatalogAssumption DEF CatalogInit, CatalogTypeOK, Kinds
    <2>2. catalog = [t \in Tables |-> catalog[t]]
      BY DEF CatalogInit
    <2>3. \A t \in Tables : oid[t] <= ddls
      BY DEF CatalogInit
    <2>4. \A t \in Present : IsDefinition(catalog[t])
      BY CatalogAssumption DEF CatalogInit, Present
    <2>5. QED
      BY <2>1, <2>2, <2>3, <2>4 DEF CatalogInv
  <1>2. queue \in {<<>>, <<Home>>} /\ queue \in Seq(Range(Schemas)) /\ IsInjective(queue)
    BY SchemasAssumption DEF IsInjective
  <1>3. HomeAhead
    BY DEF HomeAhead, Range
  <1>4. WalkInv
    <2>1. pc = IF only = Whole THEN "schemas" ELSE start
      OBVIOUS
    <2>2. pc \notin TableSteps \cup ObjectSteps \cup AfterReflection \cup ListSteps \cup Failures
      BY <2>1, StepsApart
    <2>3. draft = [field \in Fields |-> draft[field]]
      BY BlankIs
    <2>4. queue = IF only = Whole THEN <<>> ELSE <<Home>>
      OBVIOUS
    <2>5. "schemas" \notin SchemaSteps
      BY StepsApart
    <2>6. QED
      BY <1>2, <2>1, <2>2, <2>3, <2>4, <2>5 DEF WalkInv
  <1>5. TablesInv
    BY <1>3 DEF TablesInv, IsInjective, Range
  <1>6. ObjectsInv
    <2>1. pc \notin ListSteps
      BY StepsApart
    <2>2. QED
      BY <2>1 DEF ObjectsInv, NamesOnce, Range
  <1>7. QED
    BY <1>1, <1>3, <1>4, <1>5, <1>6 DEF ReadInv

\* The statements of others do not disturb the walk.
LEMMA OthersRead ==
    ASSUME ReadInv, CatalogInv', Untouched, UNCHANGED <<reflectVars, pc>>
    PROVE  Walks
  <1> USE DEF reflectVars, objectVars
  <1>1. WalkInv'
    BY DEF ReadInv, WalkInv
  <1>2. \A t \in Tables \ touched' : t \in Present' <=> t \in Present
    BY DEF Untouched, Present
  <1>3. HomeAhead' = HomeAhead /\ \A k \in Kinds : Ahead(k)' = Ahead(k)
    BY DEF HomeAhead, Ahead, AtHomeIn, Before
  <1>4. TablesInv'
    BY <1>2, <1>3 DEF ReadInv, TablesInv, Untouched, Present
  <1>5. \A k \in Kinds : \A o : o \notin touched' => (o \in others'[k] <=> o \in others[k])
    BY DEF Untouched
  <1>6. ObjectsInv'
    <2>1. ListedKind \in Kinds /\ ListedKind' = ListedKind
      BY DEF ListedKind, Kinds
    <2>2. QED
      BY <1>3, <1>5, <2>1 DEF ReadInv, ObjectsInv, Untouched, NamesOnce
  <1>7. \A k \in Kinds : Covered(k) => Covered(k)'
    BY <1>3, <1>5 DEF Covered, Untouched
  <1>8. QED
    BY <1>1, <1>4, <1>6, <1>7 DEF ReadInv, Walks

\* The schemas are listed once, and Home is one of them.
LEMMA SchemasRead ==
    ASSUME ReadInv, NEW start \in SchemaSteps, ListSchemas(start)
    PROVE  Walks
  <1> USE DEF ListSchemas, Unmoved, catalogVars, objectVars, copyVars, ReadInv
  <1>1. CatalogInv'
    BY CatalogStays
  <1>2. HomeAhead /\ HomeAhead'
    BY SchemasAssumption DEF HomeAhead
  <1>3. /\ pc \notin TableSteps \cup ListSteps \cup Failures
        /\ pc' \in SchemaSteps /\ pc' # "schemas"
        /\ pc' \notin TableSteps \cup ObjectSteps \cup ListSteps \cup Failures \cup AfterReflection
    BY StepsApart
  <1>4. WalkInv'
    <2>1. /\ queue' \in Seq(Range(Schemas)) /\ IsInjective(queue') /\ queue' # <<>>
          /\ only' = Whole
      BY SchemasAssumption DEF WalkInv, Range
    <2>2. QED
      BY <1>3, <2>1 DEF WalkInv
  <1>5. TablesInv'
    BY <1>2, <1>3 DEF TablesInv, Present
  <1>6. ObjectsInv'
    BY <1>2, <1>3 DEF ObjectsInv, NamesOnce, Ahead
  <1>7. QED
    BY <1>1, <1>2, <1>4, <1>5, <1>6 DEF Walks, Covered, Ahead

\* What a schema has before its tables are listed.
LEMMA SchemaStepReads ==
    ASSUME ReadInv, pc \in SchemaSteps, pc' \in SchemaSteps,
           UNCHANGED <<catalogVars, reflectVars>>
    PROVE  Walks
  <1> USE DEF reflectVars, catalogVars, objectVars, ReadInv
  <1>1. CatalogInv'
    BY CatalogStays
  <1>2. /\ pc' # "schemas" /\ pc # "schemas"
        /\ \A p \in {pc, pc'} :
              p \notin TableSteps \cup ObjectSteps \cup ListSteps \cup Failures \cup AfterReflection
    BY StepsApart
  <1>3. HomeAhead' = HomeAhead
    BY <1>2 DEF HomeAhead
  <1>4. \A k \in Kinds : Ahead(k)' = Ahead(k)
    BY <1>2, <1>3, StepsApart DEF Ahead, AtHomeIn
  <1>5. WalkInv'
    BY <1>2 DEF WalkInv
  <1>6. TablesInv'
    BY <1>2, <1>3 DEF TablesInv, Present
  <1>7. ObjectsInv'
    BY <1>2, <1>4 DEF ObjectsInv, NamesOnce
  <1>8. QED
    BY <1>1, <1>2, <1>4, <1>5, <1>6, <1>7 DEF Walks, Covered

\* The tables of Home are listed once; elsewhere there are none.
LEMMA TablesListed ==
    ASSUME ReadInv, ListTables
    PROVE  Walks
  <1> DEFINE S == AtHome({t \in Present : only \in {t, Every, Whole}})
  <1> USE DEF ListTables, Unmoved, catalogVars, objectVars, copyVars, ReadInv
  <1>1. CatalogInv' /\ Present' = Present
    BY CatalogStays DEF Present
  <1>2. pc \in SchemaSteps /\ pc # "schemas" /\ pc \notin TableSteps \cup ObjectSteps \cup ListSteps \cup Failures
    BY StepsApart DEF SchemaSteps
  <1>3. queue # <<>> /\ todo = <<>> /\ draft = Blank /\ listed = <<>>
    BY <1>2 DEF WalkInv
  <1>4. Head(queue) \in Range(queue)
    BY <1>3, RestOf DEF WalkInv
  <1>5. IsFiniteSet(S)
    BY CatalogAssumption, FS_Subset, FS_EmptySet DEF AtHome, Present
  <1>6. /\ todo' \in Seq(S) /\ IsInjective(todo') /\ Range(todo') = S
        /\ todo' = <<>> <=> S = {}
    <2> HIDE DEF S
    <2>1. todo' = SetToSeq(S)
      BY DEF S
    <2>2. QED
      BY <1>5, <2>1, Listing
  <1>7. todo' \in Seq(Tables)
    <2>1. S \subseteq Tables
      BY DEF AtHome, Present
    <2> HIDE DEF S
    <2>2. QED
      BY <1>6, <2>1
  <1>8. todo' # <<>> => Head(queue) = Home
    BY <1>6 DEF AtHome
  <1>9. /\ pc' \in {"columns", "missing", "views"}
        /\ pc' = "columns" <=> todo' # <<>>
        /\ pc' = "missing" => only \in Tables
        /\ pc' = "views" => only \notin Tables
    BY DEF ListTables
  <1>10. /\ "columns" \in TableSteps /\ "missing" \in Failures /\ "views" \in ObjectSteps
         /\ "views" \notin ListSteps /\ "views" \notin AfterReflection /\ "columns" \notin AfterReflection
         /\ "missing" \notin TableSteps \cup ObjectSteps \cup SchemaSteps \cup ListSteps \cup AfterReflection
         /\ "missing" # "schemas" /\ "columns" # "schemas" /\ "views" # "schemas"
         /\ "columns" \notin SchemaSteps \cup ListSteps \cup ObjectSteps \cup Failures
         /\ "views" \notin SchemaSteps \cup TableSteps \cup Failures
         /\ "missing" \in Ends
    BY StepsApart, FieldsAre DEF TableSteps, ObjectSteps, Failures, ListSteps, Ends, AfterReflection, CopyStates
  <1>11. WalkInv'
    <2>1. draft' = draft /\ queue' = queue /\ only' = only /\ listed' = listed
      OBVIOUS
    <2>2. pc' \in TableSteps => Head(queue) = Home /\ todo' # <<>>
      BY <1>8, <1>9, <1>10
    <2>3. pc' \notin TableSteps => todo' = <<>>
      BY <1>9, <1>10
    <2> HIDE DEF ListTables
    <2>4. QED
      BY <1>3, <1>9, <1>10, <2>1, <2>2, <2>3 DEF WalkInv
  <1>12. HomeAhead' => HomeAhead /\ result = <<>>
    BY <1>2, <1>9, <1>10 DEF HomeAhead, TablesInv
  <1>13. HomeAhead => Home \in Range(queue)
    BY <1>2 DEF HomeAhead
  <1>14. Head(queue) = Home => HomeAhead
    BY <1>2, <1>4 DEF HomeAhead
  <1>15. HomeAhead /\ ~HomeAhead' => Head(queue) = Home
    BY <1>13 DEF HomeAhead
  <1>16. \A k \in Kinds : /\ Ahead(k)' => HomeAhead
                          /\ Ahead(k) => HomeAhead
                          /\ pc' \notin Failures /\ HomeAhead => Ahead(k)'
    <2>1. ASSUME NEW k \in Kinds PROVE Ahead(k) => HomeAhead
      BY <1>2, StepsApart DEF Ahead, AtHomeIn
    <2>2. ASSUME NEW k \in Kinds PROVE Ahead(k)' => HomeAhead
      BY <1>12, <1>14 DEF Ahead, AtHomeIn
    <2>3. ASSUME NEW k \in Kinds, pc' \notin Failures, HomeAhead PROVE Ahead(k)'
      <3>1. "views" \in Before(k) /\ "columns" \in Before(k)
        BY <1>10, StepsApart DEF Before, ObjectSteps, Kinds
      <3>2. QED
        BY <1>9, <1>10, <1>13, <1>15, <2>3, <3>1 DEF Ahead, AtHomeIn
    <2>4. QED
      BY <2>1, <2>2, <2>3
  <1>17. TablesInv'
    <2>1. result' = result /\ touched' = touched /\ only' = only
      OBVIOUS
    <2> HIDE DEF ListTables
    <2>2. ASSUME NEW i \in DOMAIN result PROVE result[i].table \in Tables \ Range(todo')
      <3>1. CASE todo' = <<>>
        <4>1. Range(todo') = {}
          BY <3>1 DEF Range
        <4>2. QED
          BY <4>1 DEF TablesInv
      <3>2. CASE todo' # <<>>
        <4>1. HomeAhead
          BY <1>8, <1>14, <3>2
        <4>2. QED
          BY <4>1 DEF TablesInv
      <3>3. QED
        BY <3>1, <3>2
    <2>3. ASSUME ~HomeAhead', pc' \notin Failures, NEW t \in Present \ touched, only \in {t, Every, Whole}
          PROVE  t \in Range(todo') \/ \E i \in DOMAIN result : result[i].table = t
      <3>1. CASE HomeAhead
        BY <1>6, <1>15, <2>3, <3>1 DEF AtHome
      <3>2. CASE ~HomeAhead
        BY <1>2, <1>3, <2>3, <3>2 DEF TablesInv, Range
      <3>3. QED
        BY <3>1, <3>2
    <2>4. Range(todo') \subseteq Present
      BY <1>6 DEF AtHome
    <2>5. QED
      BY <1>1, <1>6, <1>7, <1>12, <2>1, <2>2, <2>3, <2>4 DEF TablesInv
  <1>18. ObjectsInv'
    <2>1. \A k \in Kinds : Ahead(k)' => Ahead(k)
      BY <1>16 DEF Ahead
    <2>2. pc' \notin ListSteps
      BY <1>9, <1>10
    <2>3. UNCHANGED <<found, touched>>
      OBVIOUS
    <2> HIDE DEF ListTables
    <2>4. QED
      BY <2>1, <2>2, <2>3 DEF ObjectsInv, NamesOnce
  <1>19. \A k \in Kinds : Covered(k) => Covered(k)'
    <2>1. UNCHANGED <<found, touched, listed, others, only>>
      OBVIOUS
    <2> HIDE DEF ListTables
    <2>2. QED
      BY <1>2, <1>16, <2>1 DEF Covered
  <1>20. QED
    BY <1>1, <1>11, <1>17, <1>18, <1>19 DEF Walks

\* A query about the table that is being read.
ReadsTable ==
    /\ pc \in TableSteps /\ pc' \in TableSteps
    /\ draft' = [field \in Fields |-> draft'[field]]
    /\ UNCHANGED <<catalogVars, only, queue, todo, result, objectVars>>

LEMMA FieldQuery ==
    ASSUME ReadInv, NEW field \in Fields, NEW answer, NEW next \in TableSteps,
           Query(field, answer, next)
    PROVE  ReadsTable
  BY StepsApart DEF ReadInv, WalkInv, Query, Put, ReadsTable, Unmoved

LEMMA TableStepReads ==
    ASSUME ReadInv, ReadsTable
    PROVE  Walks
  <1> USE DEF ReadsTable, catalogVars, objectVars, ReadInv
  <1>1. CatalogInv' /\ Present' = Present
    BY CatalogStays DEF Present
  <1>2. \A p \in TableSteps :
            p \notin {"schemas"} \cup SchemaSteps \cup ObjectSteps \cup ListSteps \cup Failures \cup AfterReflection
    BY StepsApart
  <1>3. WalkInv'
    BY <1>2 DEF WalkInv
  <1>4. HomeAhead' = HomeAhead
    BY <1>2 DEF HomeAhead
  <1>5. \A k \in Kinds : Ahead(k)' = Ahead(k)
    BY <1>4, StepsApart DEF Ahead, AtHomeIn
  <1>6. TablesInv'
    BY <1>1, <1>2, <1>4 DEF TablesInv
  <1>7. ObjectsInv'
    BY <1>2, <1>5 DEF ObjectsInv, NamesOnce
  <1>8. \A k \in Kinds : Covered(k) => Covered(k)'
    BY <1>2, <1>5 DEF Covered
  <1>9. QED
    BY <1>1, <1>3, <1>6, <1>7, <1>8 DEF Walks

\* A table that was read joins the result.
LEMMA TableRead ==
    ASSUME ReadInv, pc \in TableSteps, NEW table, DOMAIN table = Fields,
           Complete(Reading, table, Tail(todo))
    PROVE  /\ Walks
           /\ \A i \in DOMAIN result' :
                 result'[i] = [table |-> Reading, def |-> table]
                 \/ (i \in DOMAIN result /\ result'[i] = result[i])
  <1> DEFINE r == [table |-> Reading, def |-> table]
  <1>1. CatalogInv' /\ Present' = Present
    BY CatalogStays DEF Complete, Unmoved, catalogVars, Present, ReadInv
  <1>2. /\ result' = Append(result, r) /\ todo' = Tail(todo) /\ draft' = Blank
        /\ pc' = IF Tail(todo) = <<>> THEN AfterTables ELSE "columns"
        /\ UNCHANGED <<queue, objectVars, catalogVars, only>>
    BY DEF Complete, Unmoved
  <1>3. /\ pc \notin {"schemas"} \cup SchemaSteps \cup ObjectSteps \cup ListSteps \cup Failures
        /\ Head(queue) = Home /\ todo # <<>> /\ queue # <<>>
    BY StepsApart DEF ReadInv, WalkInv
  <1>4. /\ Home \in Range(queue) /\ Reading \in Tables /\ Range(todo) = {Reading} \cup Range(Tail(todo))
        /\ Tail(todo) \in Seq(Tables) /\ IsInjective(Tail(todo)) /\ Reading \notin Range(Tail(todo))
    BY <1>3, RestOf DEF ReadInv, WalkInv, TablesInv, Reading
  <1>5. ~HomeAhead
    BY <1>3 DEF HomeAhead
  <1>6. /\ "columns" \in TableSteps /\ "done" \in AfterReflection /\ "views" \in ObjectSteps
        /\ "done" \in Ends /\ "views" \notin ListSteps
        /\ \A p \in {"columns", "views"} : p \notin SchemaSteps \cup Failures \cup AfterReflection \cup ListSteps \cup {"schemas"}
        /\ "views" \notin TableSteps /\ "columns" \notin ObjectSteps
        /\ "done" \notin {"schemas"} \cup SchemaSteps \cup TableSteps \cup ObjectSteps \cup ListSteps \cup Failures
    BY StepsApart, FieldsAre DEF TableSteps, ObjectSteps, Failures, ListSteps, Ends, AfterReflection
  <1>7. /\ pc' \in {"columns", "views", "done"}
        /\ pc' = "columns" <=> Tail(todo) # <<>>
        /\ pc' = "done" => only \in Tables
        /\ pc' = "views" => only \notin Tables
    BY <1>2 DEF AfterTables
  <1>8. WalkInv'
    <2>1. draft' = [field \in Fields |-> draft'[field]]
      BY <1>2, BlankIs
    <2>2. listed = <<>> /\ UNCHANGED <<queue, only, listed>>
      BY <1>2, <1>3 DEF ReadInv, WalkInv, objectVars
    <2>3. QED
      BY <1>2, <1>3, <1>6, <1>7, <2>1, <2>2 DEF ReadInv, WalkInv
  <1>9. ~HomeAhead'
    BY <1>2, <1>3, <1>6, <1>7 DEF HomeAhead
  <1>10. /\ result' \in Seq(Range(result')) /\ Range(result') = Range(result) \cup {r}
         /\ DOMAIN result' = 1..(Len(result) + 1) /\ DOMAIN result = 1..Len(result)
         /\ Len(result) \in Nat
         /\ \A i \in DOMAIN result : result'[i] = result[i] /\ i \in DOMAIN result'
         /\ result'[Len(result) + 1] = r
    <2>1. result \in Seq(Range(result))
      BY DEF ReadInv, TablesInv
    <2> DEFINE R == Range(result) \cup {r}
    <2>2. result \in Seq(R)
      BY <2>1
    <2> HIDE DEF R, r
    <2>3. /\ Append(result, r) \in Seq(R) /\ Len(result) \in Nat /\ DOMAIN result = 1..Len(result)
          /\ DOMAIN Append(result, r) = 1..(Len(result) + 1)
          /\ Append(result, r)[Len(result) + 1] = r
          /\ \A i \in 1..Len(result) : Append(result, r)[i] = result[i]
      BY <2>2 DEF R
    <2>4. Range(Append(result, r)) = R
      <3>1. \A i \in 1..(Len(result) + 1) : i = Len(result) + 1 \/ i \in 1..Len(result)
        BY <2>3
      <3>2. \A i \in 1..Len(result) : i \in 1..(Len(result) + 1)
        BY <2>3
      <3>3. Len(result) + 1 \in 1..(Len(result) + 1)
        BY <2>3
      <3>4. ASSUME NEW i \in DOMAIN Append(result, r) PROVE Append(result, r)[i] \in R
        BY <2>3
      <3>5. \A i \in DOMAIN result : result[i] \in Range(Append(result, r))
        BY <2>3, <3>2 DEF Range
      <3>6. r \in Range(Append(result, r))
        BY <2>3, <3>3 DEF Range
      <3>7. QED
        BY <3>4, <3>5, <3>6 DEF Range, R
    <2>5. QED
      BY <1>2, <2>3, <2>4 DEF R
  <1> HIDE DEF r
  <1>11. r.table = Reading /\ r.def = table
    BY DEF r
  <1>12. \A i \in DOMAIN result' : i = Len(result) + 1 \/ (i \in DOMAIN result /\ result'[i] = result[i])
    BY <1>10
  <1>13. TablesInv'
    <2>1. UNCHANGED <<touched, only, todo>> \/ (UNCHANGED <<touched, only>> /\ todo' = Tail(todo))
      BY <1>2 DEF catalogVars
    <2>2. ASSUME NEW i \in DOMAIN result'
          PROVE  result'[i].table \in Tables \ Range(todo') /\ DOMAIN result'[i].def = Fields
      BY <1>2, <1>4, <1>10, <1>11, <1>12 DEF ReadInv, TablesInv
    <2>3. ASSUME NEW i \in DOMAIN result', NEW j \in DOMAIN result', result'[i].table = result'[j].table
          PROVE  i = j
      <3>1. \A k \in DOMAIN result : result[k].table # Reading
        BY <1>4 DEF ReadInv, TablesInv
      <3>2. QED
        BY <1>10, <1>11, <1>12, <2>3, <3>1 DEF ReadInv, TablesInv
    <2>4. ASSUME NEW t \in Present \ touched, only \in {t, Every, Whole}
          PROVE  t \in Range(todo') \/ \E i \in DOMAIN result' : result'[i].table = t
      <3>1. t \in Range(todo) \/ \E i \in DOMAIN result : result[i].table = t
        BY <1>3, <1>5, <2>4 DEF ReadInv, TablesInv
      <3>2. Len(result) + 1 \in DOMAIN result'
        BY <1>10
      <3>3. QED
        BY <1>2, <1>4, <1>10, <1>11, <3>1, <3>2
    <2>5. Range(todo') \ touched \subseteq Present
      BY <1>2, <1>4 DEF ReadInv, TablesInv
    <2>6. UNCHANGED <<touched, only>>
      BY <2>1
    <2>7. QED
      BY <1>1, <1>2, <1>4, <1>9, <1>10, <2>2, <2>3, <2>4, <2>5, <2>6 DEF TablesInv
  <1>14. \A k \in Kinds : Ahead(k)
    BY <1>3, <1>4, StepsApart DEF Ahead, AtHomeIn
  <1>15. pc' # "done" => \A k \in Kinds : Ahead(k)'
    <2>1. \A k \in Kinds : "columns" \in Before(k) /\ "views" \in Before(k)
      BY <1>6, StepsApart DEF Kinds, Before, ObjectSteps
    <2>2. QED
      BY <1>2, <1>3, <1>4, <1>7, <2>1 DEF Ahead, AtHomeIn
  <1>16. ObjectsInv'
    BY <1>2, <1>6, <1>7, <1>14 DEF ReadInv, ObjectsInv, NamesOnce, objectVars, catalogVars
  <1>17. \A k \in Kinds : Covered(k)'
    BY <1>2, <1>7, <1>15 DEF Covered
  <1>18. QED
    BY <1>1, <1>8, <1>10, <1>12, <1>13, <1>16, <1>17 DEF Walks, ReadInv, r

\* An error ends the walk where it is.
LEMMA GivesUp ==
    ASSUME ReadInv, NEW how \in Failures, GiveUp(how)
    PROVE  Walks
  <1> USE DEF GiveUp, Unmoved, catalogVars, objectVars, ReadInv
  <1>1. CatalogInv' /\ Present' = Present
    BY CatalogStays DEF Present
  <1>2. /\ how \notin {"schemas"} \cup SchemaSteps \cup TableSteps \cup ObjectSteps \cup ListSteps \cup AfterReflection
        /\ how \in Ends
    BY StepsApart
  <1>3. WalkInv'
    BY <1>2 DEF WalkInv
  <1>4. HomeAhead' => HomeAhead
    BY <1>2 DEF HomeAhead
  <1>5. \A k \in Kinds : Ahead(k)' => Ahead(k)
    BY <1>2, <1>4, StepsApart DEF Ahead, AtHomeIn
  <1>6. TablesInv'
    BY <1>1, <1>2, <1>4 DEF TablesInv
  <1>7. ObjectsInv'
    BY <1>2, <1>5 DEF ObjectsInv, NamesOnce
  <1>8. QED
    BY <1>1, <1>3, <1>6, <1>7 DEF Walks, Covered

\* The query that lists objects of a kind that are read one by one, the one that
\* reads one of them, and what comes next.
OneByOne == {"views", "sequences"}
ListOf(kind) == IF kind = "views" THEN "viewColumns" ELSE "sequence"
NextOf(kind) == IF kind = "views" THEN "sequences" ELSE "functions"

LEMMA PlacesOf ==
    ASSUME NEW kind \in OneByOne
    PROVE  /\ kind \in Kinds /\ ListOf(kind) \in ListSteps
           /\ {kind, NextOf(kind)} \subseteq ObjectSteps \ ListSteps
           /\ kind \in Before(kind) /\ NextOf(kind) \notin Before(kind) /\ ListOf(kind) \notin Before(kind)
           /\ \A k \in Kinds : ListOf(kind) \in Before(k) <=> NextOf(kind) \in Before(k)
           /\ \A k \in Kinds \ {kind} : kind \in Before(k) <=> ListOf(kind) \in Before(k)
  <1> USE FieldsAre DEF OneByOne, Kinds, ListOf, NextOf, ObjectSteps, ListSteps, Before, TableSteps
  <1>1. CASE kind = "views"
    BY <1>1
  <1>2. CASE kind = "sequences"
    BY <1>2
  <1>3. QED
    BY <1>1, <1>2

\* The rest of a list of names.
LEMMA NamesRest ==
    ASSUME NEW S, NEW s \in Seq(S), s # <<>>, NamesOnce(s)
    PROVE  /\ Head(s) \in Range(s) /\ Head(s) \in S /\ Tail(s) \in Seq(S) /\ NamesOnce(Tail(s))
           /\ Range(s) = {Head(s)} \cup Range(Tail(s))
           /\ \A l \in Range(Tail(s)) : l.name # Head(s).name
  <1>1. /\ Head(s) \in Range(s) /\ Head(s) \in S /\ Tail(s) \in Seq(S)
        /\ Range(s) = {Head(s)} \cup Range(Tail(s))
    BY RestOf
  <1>2. /\ Head(s) = s[1] /\ DOMAIN s = 1..Len(s) /\ DOMAIN Tail(s) = 1..(Len(s) - 1)
        /\ \A i \in 1..(Len(s) - 1) : Tail(s)[i] = s[i + 1]
        /\ Len(s) \in Nat \ {0}
    OBVIOUS
  <1>3. \A i \in 1..(Len(s) - 1) : i + 1 \in 1..Len(s) /\ i + 1 # 1 /\ 1 \in 1..Len(s)
    BY <1>2
  <1>4. NamesOnce(Tail(s))
    <2>1. ASSUME NEW i \in 1..(Len(s) - 1), NEW j \in 1..(Len(s) - 1), Tail(s)[i].name = Tail(s)[j].name
          PROVE  i = j
      <3>1. i + 1 = j + 1
        BY <1>2, <1>3, <2>1 DEF NamesOnce
      <3>2. QED
        BY <3>1
    <2>2. QED
      BY <1>2, <2>1 DEF NamesOnce
  <1>5. ASSUME NEW i \in 1..(Len(s) - 1) PROVE Tail(s)[i].name # Head(s).name
    BY <1>2, <1>3 DEF NamesOnce
  <1>6. QED
    BY <1>1, <1>2, <1>4, <1>5 DEF Range

\* The walk after the tables.
LEMMA ObjectStepReads ==
    ASSUME ReadInv, pc \in ObjectSteps, pc' \in ObjectSteps,
           pc' \in ListSteps => Head(queue) = Home /\ listed' # <<>>,
           pc' \notin ListSteps => listed' = <<>>,
           UNCHANGED <<catalogVars, only, queue, todo, draft, result>>
    PROVE  CatalogInv' /\ WalkInv' /\ TablesInv' /\ HomeAhead' = HomeAhead
  <1> USE DEF catalogVars, ReadInv
  <1>1. CatalogInv' /\ Present' = Present
    BY CatalogStays DEF Present
  <1>2. \A p \in ObjectSteps :
            p \notin {"schemas"} \cup SchemaSteps \cup TableSteps \cup Failures \cup AfterReflection
    BY StepsApart
  <1>3. WalkInv'
    BY <1>2 DEF WalkInv
  <1>4. HomeAhead' = HomeAhead
    BY <1>2 DEF HomeAhead
  <1>5. TablesInv'
    BY <1>1, <1>2, <1>4 DEF TablesInv
  <1>6. QED
    BY <1>1, <1>3, <1>4, <1>5

\* Objects are listed, or (where that may be) taken for none.
LEMMA ObjectsListed ==
    ASSUME ReadInv, NEW kind \in OneByOne, NEW list, list = Entries(kind) \/ list = <<>>,
           pc = kind, listed' = list, UNCHANGED found,
           ToObjects(IF list = <<>> THEN NextOf(kind) ELSE ListOf(kind))
    PROVE  /\ ReadInv'
           /\ \A k \in Kinds : (k # kind \/ list = Entries(kind)) /\ Covered(k) => Covered(k)'
  <1>1. /\ kind \in Kinds /\ ListOf(kind) \in ListSteps /\ ListSteps \subseteq ObjectSteps
        /\ {kind, NextOf(kind)} \subseteq ObjectSteps \ ListSteps
        /\ kind \notin Failures /\ kind # "schemas" /\ kind \notin SchemaSteps
    BY PlacesOf, StepsApart
  <1>2. /\ pc' = IF list = <<>> THEN NextOf(kind) ELSE ListOf(kind)
        /\ UNCHANGED <<queue, todo, draft, result, catalogVars, only>>
        /\ UNCHANGED <<catalog, touched, others>>
    BY DEF ToObjects, Unmoved, catalogVars
  <1>3. /\ Entries(kind) \in Seq([name : Objects[kind], full : BOOLEAN]) /\ NamesOnce(Entries(kind))
        /\ Range(Entries(kind)) = {Entry(o, TRUE) : o \in AtHome(others[kind])}
        /\ Entries(kind) = <<>> <=> AtHome(others[kind]) = {}
    BY <1>1, EntriesAre DEF ReadInv
  <1>4. list # <<>> => list = Entries(kind) /\ Head(queue) = Home
    BY <1>3 DEF AtHome
  <1>5. queue # <<>> /\ listed = <<>> /\ Head(queue) \in Range(queue)
    <2>1. queue # <<>> /\ listed = <<>>
      BY <1>1 DEF ReadInv, WalkInv
    <2>2. QED
      BY <2>1, RestOf DEF ReadInv, WalkInv
  <1>6. CatalogInv' /\ WalkInv' /\ TablesInv' /\ HomeAhead' = HomeAhead
    BY <1>1, <1>2, <1>4, ObjectStepReads
  <1>7. \A k \in Kinds \ {kind} : Ahead(k)' = Ahead(k)
    BY <1>2, <1>6, PlacesOf DEF Ahead, AtHomeIn
  <1>8. Ahead(kind)' <=> HomeAhead
    BY <1>1, <1>2, <1>6, PlacesOf DEF Ahead, AtHomeIn
  <1>9. Head(queue) = Home => Ahead(kind)
    BY <1>5, PlacesOf DEF Ahead, AtHomeIn
  <1>10. HomeAhead => Ahead(kind)
    BY DEF Ahead
  <1>11. ObjectsInv'
    <2>1. \A k \in Kinds : Ahead(k)' => Ahead(k)
      BY <1>7, <1>8, <1>10
    <2>2. CASE list = <<>>
      BY <1>1, <1>2, <2>1, <2>2 DEF ReadInv, ObjectsInv, NamesOnce
    <2>3. CASE list # <<>>
      <3>1. ListedKind' = kind
        BY <1>2, <2>3 DEF ListedKind, OneByOne, ListOf
      <3>2. \A e \in Range(list) : e.name \in others[kind] /\ e.name \in Objects[kind]
        <4>1. others[kind] \subseteq Objects[kind]
          BY <1>1 DEF ReadInv, CatalogInv, CatalogTypeOK
        <4>2. QED
          BY <1>3, <1>4, <2>3, <4>1 DEF AtHome, Entry
      <3>3. \A e \in Range(found) : e.name \notin Objects[kind]
        BY <1>1, <1>4, <1>9, <2>3 DEF ReadInv, ObjectsInv
      <3>4. /\ listed' \in Seq([name : Objects[ListedKind'], full : BOOLEAN]) /\ NamesOnce(listed')
        BY <1>3, <1>4, <2>3, <3>1
      <3>5. /\ \A e \in Range(found), l \in Range(list) : e.name # l.name
            /\ \A l \in Range(list) : l.name \in others'[ListedKind']
        BY <1>2, <3>1, <3>2, <3>3
      <3>6. QED
        BY <1>2, <2>1, <3>4, <3>5 DEF ReadInv, ObjectsInv, NamesOnce
    <2>4. QED
      BY <2>2, <2>3
  <1>12. \A k \in Kinds \ {kind} : Covered(k) => Covered(k)'
    BY <1>1, <1>2, <1>5, <1>7 DEF Covered, Range
  <1>13. ASSUME list = Entries(kind), Covered(kind) PROVE Covered(kind)'
    <2>1. SUFFICES ASSUME ~HomeAhead, only \notin Tables, NEW o \in others[kind] \ touched
                   PROVE  \E e \in Range(found) \cup Range(list) : e.name = o
      BY <1>2, <1>8 DEF Covered
    <2>2. CASE Head(queue) = Home
      <3>1. Entry(o, TRUE) \in Range(list) /\ Entry(o, TRUE).name = o
        BY <1>3, <1>13, <2>2 DEF AtHome, Entry
      <3>2. QED
        BY <3>1
    <2>3. CASE Head(queue) # Home
      <3>1. ~Ahead(kind)
        BY <2>1, <2>3 DEF Ahead, AtHomeIn
      <3>2. PICK e \in Range(found) \cup Range(listed) : e.name = o
        BY <1>1, <1>13, <2>1, <3>1 DEF Covered
      <3>3. QED
        BY <1>5, <3>2 DEF Range
    <2>4. QED
      BY <2>2, <2>3
  <1>14. QED
    BY <1>6, <1>11, <1>12, <1>13 DEF ReadInv

\* One listed object is read: nobody else was named so.
LEMMA ObjectRead ==
    ASSUME ReadInv, NEW kind \in OneByOne, NEW full \in BOOLEAN,
           Head(listed).name \notin touched => full,
           pc = ListOf(kind), found' = Append(found, Entry(Head(listed).name, full)),
           listed' = Tail(listed),
           ToObjects(IF listed' = <<>> THEN NextOf(kind) ELSE ListOf(kind))
    PROVE  Walks
  <1> DEFINE v == Head(listed)  e == Entry(v.name, full)
             T == [name : Objects[kind], full : BOOLEAN]
  <1>1. /\ kind \in Kinds /\ ListOf(kind) \in ListSteps /\ ListSteps \subseteq ObjectSteps
        /\ {kind, NextOf(kind)} \subseteq ObjectSteps \ ListSteps
        /\ pc \notin Failures /\ pc # "schemas" /\ pc \notin SchemaSteps
    BY PlacesOf, StepsApart
  <1>2. /\ pc' \in {NextOf(kind), ListOf(kind)} /\ (pc' = ListOf(kind) <=> listed' # <<>>)
        /\ UNCHANGED <<queue, todo, draft, result, catalogVars, only>>
        /\ UNCHANGED <<catalog, touched, others>>
    BY <1>1 DEF ToObjects, Unmoved, catalogVars
  <1>3. ListedKind = kind /\ (pc' = ListOf(kind) => ListedKind' = kind)
    BY DEF ListedKind, OneByOne, ListOf
  <1>4. /\ listed # <<>> /\ Head(queue) = Home /\ queue # <<>> /\ only \notin Tables
        /\ listed \in Seq(T) /\ NamesOnce(listed)
        /\ \A x \in Range(found), l \in Range(listed) : x.name # l.name
        /\ \A l \in Range(listed) : l.name \notin touched => l.name \in others[kind]
    BY <1>1, <1>3 DEF ReadInv, WalkInv, ObjectsInv
  <1>5. /\ v \in Range(listed) /\ v \in T /\ Tail(listed) \in Seq(T) /\ NamesOnce(Tail(listed))
        /\ Range(listed) = {v} \cup Range(Tail(listed))
        /\ \A l \in Range(Tail(listed)) : l.name # v.name
    BY <1>4, NamesRest
  <1>6. Home \in Range(queue) /\ ~HomeAhead
    BY <1>1, <1>4, RestOf DEF HomeAhead, ReadInv, WalkInv
  <1>7. CatalogInv' /\ WalkInv' /\ TablesInv' /\ HomeAhead' = HomeAhead
    BY <1>1, <1>2, <1>4, ObjectStepReads
  <1>8. \A k \in Kinds : Ahead(k)' = Ahead(k)
    BY <1>2, <1>7, PlacesOf DEF Ahead, AtHomeIn
  <1>9. ~Ahead(kind)
    BY <1>6, PlacesOf DEF Ahead, AtHomeIn
  <1>10. e.name = v.name /\ e.full = full /\ e \in [name : ObjectNames, full : BOOLEAN]
    <2>1. v.name \in ObjectNames
      BY <1>1, <1>5 DEF ObjectNames
    <2>2. QED
      BY <2>1 DEF Entry
  <1>11. /\ found' \in Seq([name : ObjectNames, full : BOOLEAN]) /\ NamesOnce(found')
         /\ Range(found') = Range(found) \cup {e}
    <2>1. \A x \in Range(found) : x.name # e.name
      BY <1>4, <1>5, <1>10
    <2> DEFINE U == [name : ObjectNames, full : BOOLEAN]
    <2>2. found \in Seq(U) /\ NamesOnce(found) /\ found' = Append(found, e) /\ e \in U
      BY <1>10 DEF ReadInv, ObjectsInv
    <2> HIDE DEF e, U
    <2>3. found' \in Seq(U) /\ NamesOnce(found') /\ Range(found') = Range(found) \cup {e}
      BY <2>1, <2>2, OneMore
    <2>4. QED
      BY <2>3 DEF U
  <1> HIDE DEF e, v, T
  <1>12. ObjectsInv'
    <2>1. \A x \in Range(found') : x.name \notin touched => x.full
      BY <1>10, <1>11 DEF ReadInv, ObjectsInv, v
    <2>2. ASSUME NEW k \in Kinds, Ahead(k) PROVE \A x \in Range(found') : x.name \notin Objects[k]
      <3>1. Objects[k] \cap Objects[kind] = {}
        BY <1>1, <1>9, <2>2, CatalogAssumption
      <3>2. v.name \in Objects[kind]
        BY <1>5 DEF T
      <3>3. QED
        BY <1>10, <1>11, <2>2, <3>1, <3>2 DEF ReadInv, ObjectsInv
    <2>3. ASSUME pc' = ListOf(kind)
          PROVE  /\ listed' \in Seq([name : Objects[ListedKind'], full : BOOLEAN]) /\ NamesOnce(listed')
                 /\ \A x \in Range(found'), l \in Range(listed') : x.name # l.name
                 /\ \A l \in Range(listed') : l.name \notin touched => l.name \in others[ListedKind']
      BY <1>3, <1>4, <1>5, <1>10, <1>11, <2>3 DEF T
    <2>4. pc' \in ListSteps => pc' = ListOf(kind)
      BY <1>1, <1>2
    <2>5. QED
      BY <1>2, <1>8, <1>11, <2>1, <2>2, <2>3, <2>4 DEF ObjectsInv
  <1>13. \A k \in Kinds : Covered(k) => Covered(k)'
    BY <1>1, <1>2, <1>5, <1>8, <1>10, <1>11 DEF Covered
  <1>14. QED
    BY <1>7, <1>12, <1>13 DEF ReadInv, Walks

\* All objects of a kind are read by one query.
LEMMA FoundMore ==
    ASSUME ReadInv, NEW kind \in Kinds, pc \in ObjectSteps \ ListSteps, pc \in Before(kind),
           found' = found \o Entries(kind)
    PROVE  /\ found' \in Seq([name : ObjectNames, full : BOOLEAN]) /\ NamesOnce(found')
           /\ Range(found') = Range(found) \cup {Entry(o, TRUE) : o \in AtHome(others[kind])}
           /\ AtHome(others[kind]) \subseteq Objects[kind]
           /\ Head(queue) # Home => found' = found
           /\ queue # <<>> /\ Head(queue) \in Range(queue) /\ listed = <<>> /\ only \notin Tables
  <1>1. /\ queue # <<>> /\ listed = <<>> /\ only \notin Tables
        /\ found \in Seq([name : ObjectNames, full : BOOLEAN]) /\ NamesOnce(found)
    BY StepsApart DEF ReadInv, WalkInv, ObjectsInv
  <1>2. Head(queue) \in Range(queue)
    BY <1>1, RestOf DEF ReadInv, WalkInv
  <1>3. /\ Entries(kind) \in Seq([name : Objects[kind], full : BOOLEAN]) /\ NamesOnce(Entries(kind))
        /\ Range(Entries(kind)) = {Entry(o, TRUE) : o \in AtHome(others[kind])}
        /\ Entries(kind) = <<>> <=> AtHome(others[kind]) = {}
    BY EntriesAre DEF ReadInv
  <1>4. AtHome(others[kind]) \subseteq Objects[kind]
    BY DEF ReadInv, CatalogInv, CatalogTypeOK, AtHome
  <1>5. CASE Head(queue) # Home
    <2>1. Entries(kind) = <<>>
      BY <1>3, <1>5 DEF AtHome
    <2>2. found' = found
      BY <1>1, <2>1
    <2>3. {Entry(o, TRUE) : o \in AtHome(others[kind])} = {}
      BY <1>5 DEF AtHome
    <2>4. QED
      BY <1>1, <1>2, <1>4, <2>2, <2>3
  <1>6. CASE Head(queue) = Home
    <2>1. \A e \in Range(found) : e.name \notin Objects[kind]
      BY <1>2, <1>6 DEF ReadInv, ObjectsInv, Ahead, AtHomeIn
    <2>2. \A l \in Range(Entries(kind)) : l.name \in Objects[kind]
      BY <1>3, <1>4 DEF Entry
    <2> DEFINE T == [name : ObjectNames, full : BOOLEAN]  q == Entries(kind)
    <2>3. q \in Seq(T)
      <3> DEFINE U == [name : Objects[kind], full : BOOLEAN]
      <3>1. U \subseteq T
        BY DEF ObjectNames
      <3>2. q \in Seq(U)
        BY <1>3
      <3> HIDE DEF T, U, q
      <3>3. QED
        BY <3>1, <3>2
    <2> HIDE DEF T, q
    <2>4. /\ found \in Seq(T) /\ found' = found \o q /\ NamesOnce(q) /\ NamesOnce(found)
          /\ \A e \in Range(found), l \in Range(q) : e.name # l.name
      BY <1>1, <1>3, <2>1, <2>2 DEF T, q
    <2>5. found' \in Seq(T) /\ NamesOnce(found') /\ Range(found') = Range(found) \cup Range(q)
      BY <2>3, <2>4, Joined
    <2>6. QED
      BY <1>1, <1>2, <1>3, <1>4, <1>6, <2>5 DEF T, q
  <1>7. QED
    BY <1>5, <1>6

\* One query that has the sequences in full.
LEMMA SequencesRead ==
    ASSUME ReadInv, pc = "sequences", found' = found \o Entries("sequences"),
           ToObjects("functions"), UNCHANGED listed
    PROVE  Walks
  <1>1. /\ "sequences" \in Kinds /\ "functions" \in ObjectSteps \ ListSteps
        /\ "sequences" \in ObjectSteps \ ListSteps
        /\ \A p \in {"sequences", "functions"} : p \notin Failures \cup SchemaSteps \cup {"schemas"}
        /\ "sequences" \in Before("sequences") /\ "functions" \notin Before("sequences")
        /\ \A k \in Kinds \ {"sequences"} : "sequences" \in Before(k) <=> "functions" \in Before(k)
    BY StepsApart, FieldsAre DEF Kinds, ObjectSteps, ListSteps, Before, TableSteps
  <1>2. /\ pc' = "functions" /\ UNCHANGED <<queue, todo, draft, result, catalogVars, only>>
        /\ UNCHANGED <<catalog, touched, others>>
    BY DEF ToObjects, Unmoved, catalogVars
  <1>3. /\ found' \in Seq([name : ObjectNames, full : BOOLEAN]) /\ NamesOnce(found')
        /\ Range(found') = Range(found) \cup {Entry(o, TRUE) : o \in AtHome(others["sequences"])}
        /\ AtHome(others["sequences"]) \subseteq Objects["sequences"]
        /\ Head(queue) # Home => found' = found
        /\ queue # <<>> /\ Head(queue) \in Range(queue) /\ listed = <<>> /\ only \notin Tables
    BY <1>1, FoundMore
  <1>4. CatalogInv' /\ WalkInv' /\ TablesInv' /\ HomeAhead' = HomeAhead
    BY <1>1, <1>2, <1>3, ObjectStepReads
  <1>5. \A k \in Kinds \ {"sequences"} : Ahead(k)' = Ahead(k)
    BY <1>1, <1>2, <1>4 DEF Ahead, AtHomeIn
  <1>6. Ahead("sequences")' <=> HomeAhead
    BY <1>1, <1>2, <1>4 DEF Ahead, AtHomeIn
  <1>7. ObjectsInv'
    <2>1. \A e \in Range(found') : e.name \notin touched => e.full
      BY <1>3 DEF ReadInv, ObjectsInv, Entry
    <2>2. ASSUME NEW k \in Kinds, Ahead(k)', NEW e \in Range(found') PROVE e.name \notin Objects[k]
      <3>1. Ahead(k)
        BY <1>5, <1>6, <2>2 DEF Ahead
      <3>2. CASE e \in Range(found)
        BY <3>1, <3>2 DEF ReadInv, ObjectsInv
      <3>3. CASE e \notin Range(found)
        <4>1. Head(queue) = Home
          BY <1>3, <2>2, <3>3
        <4>2. k # "sequences"
          BY <1>6, <1>1, <1>2, <2>2, <4>1 DEF HomeAhead
        <4>3. e.name \in Objects["sequences"]
          BY <1>3, <3>3 DEF Entry
        <4>4. QED
          BY <1>1, <4>2, <4>3, CatalogAssumption
      <3>4. QED
        BY <3>2, <3>3
    <2>3. QED
      BY <1>1, <1>2, <1>3, <2>1, <2>2 DEF ObjectsInv
  <1>8. \A k \in Kinds \ {"sequences"} : Covered(k) => Covered(k)'
    BY <1>1, <1>2, <1>3, <1>5 DEF Covered
  <1>9. Covered("sequences") => Covered("sequences")'
    <2>1. SUFFICES ASSUME Covered("sequences"), ~HomeAhead, NEW o \in others["sequences"] \ touched
                   PROVE  \E e \in Range(found') : e.name = o
      BY <1>2, <1>6 DEF Covered
    <2>2. CASE Head(queue) = Home
      <3>1. Entry(o, TRUE) \in Range(found') /\ Entry(o, TRUE).name = o
        BY <1>3, <2>2 DEF AtHome, Entry
      <3>2. QED
        BY <3>1
    <2>3. CASE Head(queue) # Home
      <3>1. ~Ahead("sequences")
        BY <2>1, <2>3 DEF Ahead, AtHomeIn
      <3>2. PICK e \in Range(found) \cup Range(listed) : e.name = o
        BY <1>1, <1>3, <2>1, <3>1 DEF Covered
      <3>3. Range(listed) = {}
        BY <1>3 DEF Range
      <3>4. QED
        BY <1>3, <3>2, <3>3
    <2>4. QED
      BY <2>2, <2>3
  <1>10. QED
    BY <1>4, <1>7, <1>8, <1>9 DEF ReadInv, Walks

\* The functions end the walk of a schema.
LEMMA FunctionsRead ==
    ASSUME ReadInv, NEW start \in SchemaSteps, ReadFunctions(start)
    PROVE  Walks
  <1>1. /\ "functions" \in Kinds /\ "functions" \in ObjectSteps \ ListSteps
        /\ "functions" \in Before("functions")
        /\ "functions" \notin Failures \cup SchemaSteps \cup {"schemas"} \cup TableSteps
        /\ \A k \in Kinds \ {"functions"} : "functions" \notin Before(k)
    BY StepsApart, FieldsAre DEF Kinds, ObjectSteps, ListSteps, Before, TableSteps
  <1>2. /\ pc = "functions" /\ found' = found \o Entries("functions") /\ queue' = Tail(queue)
        /\ pc' = IF queue' = <<>> THEN "done" ELSE start
        /\ UNCHANGED <<todo, draft, result, listed, catalogVars, only>>
        /\ UNCHANGED <<catalog, touched, others>>
    BY DEF ReadFunctions, Unmoved, catalogVars
  <1>3. /\ found' \in Seq([name : ObjectNames, full : BOOLEAN]) /\ NamesOnce(found')
        /\ Range(found') = Range(found) \cup {Entry(o, TRUE) : o \in AtHome(others["functions"])}
        /\ AtHome(others["functions"]) \subseteq Objects["functions"]
        /\ Head(queue) # Home => found' = found
        /\ queue # <<>> /\ Head(queue) \in Range(queue) /\ listed = <<>> /\ only \notin Tables
    BY <1>1, <1>2, FoundMore
  <1>4. /\ queue' \in Seq(Range(Schemas)) /\ IsInjective(queue')
        /\ Range(queue) = {Head(queue)} \cup Range(queue') /\ Head(queue) \notin Range(queue')
    BY <1>2, <1>3, RestOf DEF ReadInv, WalkInv
  <1>5. /\ pc' \notin {"schemas"} \cup TableSteps \cup ObjectSteps \cup ListSteps \cup Failures
        /\ pc' \in SchemaSteps \cup Ends
        /\ pc' \in SchemaSteps => queue' # <<>>
        /\ pc' \in AfterReflection => queue' = <<>>
        /\ queue' # <<>> => pc' \in SchemaSteps
    BY <1>2, StepsApart, FieldsAre DEF AfterReflection, CopyStates, Ends, Failures, TableSteps, ObjectSteps, ListSteps
  <1>6. CatalogInv' /\ Present' = Present
    BY <1>2, CatalogStays DEF ReadInv, Present
  <1>7. HomeAhead <=> Home \in Range(queue) /\ Head(queue) # Home
    BY <1>1, <1>2 DEF HomeAhead
  <1>8. HomeAhead' <=> Home \in Range(queue')
    BY <1>5 DEF HomeAhead, Range
  <1>9. HomeAhead' <=> HomeAhead
    BY <1>4, <1>7, <1>8
  <1>10. WalkInv'
    <2>1. todo = <<>> /\ draft = Blank
      BY <1>1, <1>2 DEF ReadInv, WalkInv
    <2>2. only # Whole => queue' \in {<<Home>>, <<>>}
      <3>1. only # Whole => queue = <<Home>>
        BY <1>3 DEF ReadInv, WalkInv
      <3>2. Tail(<<Home>>) = <<>>
        OBVIOUS
      <3>3. QED
        BY <1>2, <3>1, <3>2
    <2>3. QED
      BY <1>2, <1>3, <1>4, <1>5, <2>1, <2>2 DEF ReadInv, WalkInv
  <1>11. TablesInv'
    BY <1>1, <1>2, <1>5, <1>6, <1>9 DEF ReadInv, TablesInv
  <1>12. \A k \in Kinds : Ahead(k)' <=> HomeAhead
    BY <1>5, <1>9, StepsApart DEF Ahead, AtHomeIn
  <1>13. \A k \in Kinds \ {"functions"} : Ahead(k) <=> HomeAhead
    BY <1>1, <1>2 DEF Ahead, AtHomeIn
  <1>14. ObjectsInv'
    <2>1. \A e \in Range(found') : e.name \notin touched => e.full
      BY <1>3 DEF ReadInv, ObjectsInv, Entry
    <2>2. ASSUME NEW k \in Kinds, Ahead(k)' PROVE \A e \in Range(found') : e.name \notin Objects[k]
      <3>1. HomeAhead
        BY <1>12, <2>2
      <3>2. Ahead(k) /\ found' = found
        BY <1>3, <1>7, <3>1 DEF Ahead
      <3>3. QED
        BY <3>2 DEF ReadInv, ObjectsInv
    <2>3. QED
      BY <1>2, <1>3, <1>5, <2>1, <2>2 DEF ObjectsInv
  <1>15. \A k \in Kinds \ {"functions"} : Covered(k) => Covered(k)'
    BY <1>1, <1>2, <1>3, <1>12, <1>13 DEF Covered
  <1>16. Covered("functions") => Covered("functions")'
    <2>1. SUFFICES ASSUME Covered("functions"), ~HomeAhead, NEW o \in others["functions"] \ touched
                   PROVE  \E e \in Range(found') : e.name = o
      BY <1>1, <1>2, <1>12 DEF Covered
    <2>2. CASE Head(queue) = Home
      <3>1. Entry(o, TRUE) \in Range(found') /\ Entry(o, TRUE).name = o
        BY <1>3, <2>2 DEF AtHome, Entry
      <3>2. QED
        BY <3>1
    <2>3. CASE Head(queue) # Home
      <3>1. ~Ahead("functions")
        BY <2>1, <2>3 DEF Ahead, AtHomeIn
      <3>2. PICK e \in Range(found) \cup Range(listed) : e.name = o
        BY <1>1, <1>2, <1>3, <2>1, <3>1 DEF Covered
      <3>3. Range(listed) = {}
        BY <1>3 DEF Range
      <3>4. QED
        BY <1>3, <3>2, <3>3
    <2>4. QED
      BY <2>2, <2>3
  <1>17. QED
    BY <1>6, <1>10, <1>11, <1>14, <1>15, <1>16 DEF ReadInv, Walks

\* The copy leaves what was read alone.
LEMMA CopyReads ==
    ASSUME ReadInv, pc \in AfterReflection, pc' \in CopyStates,
           UNCHANGED <<catalogVars, reflectVars>>
    PROVE  Walks
  <1> USE DEF reflectVars, catalogVars, objectVars, ReadInv
  <1>1. CatalogInv' /\ Present' = Present
    BY CatalogStays DEF Present
  <1>2. /\ pc' \in AfterReflection
        /\ \A p \in AfterReflection :
              p \notin {"schemas"} \cup SchemaSteps \cup TableSteps \cup ObjectSteps \cup ListSteps \cup Failures
    BY StepsApart DEF AfterReflection
  <1>3. WalkInv'
    BY <1>2 DEF WalkInv
  <1>4. HomeAhead' = HomeAhead
    BY <1>2 DEF HomeAhead
  <1>5. \A k \in Kinds : Ahead(k)' = Ahead(k)
    BY <1>2, <1>4, StepsApart DEF Ahead, AtHomeIn
  <1>6. TablesInv'
    BY <1>1, <1>2, <1>4 DEF TablesInv
  <1>7. ObjectsInv'
    BY <1>2, <1>5 DEF ObjectsInv, NamesOnce
  <1>8. \A k \in Kinds : Covered(k) => Covered(k)'
    BY <1>2, <1>5 DEF Covered
  <1>9. QED
    BY <1>1, <1>3, <1>6, <1>7, <1>8 DEF Walks

-----------------------------------------------------------------------------
(* What the walk has found in the end.                                     *)

\* When the walk is over, Home is behind it.
LEMMA HomeBehind ==
    ASSUME ReadInv, pc \in AfterReflection
    PROVE  ~HomeAhead /\ (\A k \in Kinds : ~Ahead(k)) /\ pc \notin Failures /\ todo = <<>> /\ listed = <<>>
  <1>1. pc \notin {"schemas"} \cup SchemaSteps \cup TableSteps \cup ObjectSteps \cup ListSteps \cup Failures
    BY StepsApart
  <1>2. ~HomeAhead
    <2>1. CASE only \in Tables
      <3>1. queue \in {<<Home>>, <<>>}
        BY <2>1, SchemasAssumption DEF ReadInv, WalkInv
      <3>2. Head(<<Home>>) = Home /\ Range(<<>>) = {}
        BY DEF Range
      <3>3. QED
        BY <1>1, <3>1, <3>2 DEF HomeAhead
    <2>2. CASE queue = <<>>
      BY <1>1, <2>2 DEF HomeAhead, Range
    <2>3. QED
      BY <2>1, <2>2 DEF ReadInv, WalkInv
  <1>3. \A k \in Kinds : ~Ahead(k)
    BY <1>1, <1>2, StepsApart DEF Ahead, AtHomeIn
  <1>4. QED
    BY <1>1, <1>2, <1>3 DEF ReadInv, WalkInv

\* A set whose elements are all alike has one.
LEMMA OneOf ==
    ASSUME NEW S, NEW x \in S, \A y \in S : y = x
    PROVE  Cardinality(S) = 1
  <1>1. S = {x}
    OBVIOUS
  <1>2. QED
    BY <1>1, FS_Singleton

\* What was found are objects.
LEMMA FoundAre ==
    ASSUME ReadInv
    PROVE  \A i \in DOMAIN found : found[i] \in [name : ObjectNames, full : BOOLEAN]
  <1> DEFINE U == [name : ObjectNames, full : BOOLEAN]
  <1>1. found \in Seq(U)
    BY DEF ReadInv, ObjectsInv
  <1> HIDE DEF U
  <1>2. \A i \in DOMAIN found : found[i] \in U
    BY <1>1
  <1>3. QED
    BY <1>2 DEF U

\* Each untouched table is in the result once.
LEMMA TablesOnce == ASSUME ReadInv PROVE ReadOnce
  <1> SUFFICES ASSUME pc \in AfterReflection, NEW t \in Present \ touched, only \in {t, Every, Whole}
               PROVE  Cardinality({i \in DOMAIN result : result[i].table = t}) = 1
    BY DEF ReadOnce
  <1>1. ~HomeAhead /\ pc \notin Failures /\ todo = <<>>
    BY HomeBehind
  <1>2. PICK i \in DOMAIN result : result[i].table = t
    BY <1>1 DEF ReadInv, TablesInv, Range
  <1>3. \A j \in {x \in DOMAIN result : result[x].table = t} : j = i
    BY <1>2 DEF ReadInv, TablesInv
  <1>4. QED
    BY <1>2, <1>3, OneOf

\* Each untouched object of a kind that is covered was found once, and in full.
LEMMA ObjectsOnce ==
    ASSUME ReadInv, NEW kind \in Kinds, Covered(kind)
    PROVE  ObjectsExact(kind)
  <1> SUFFICES ASSUME pc \in AfterReflection, only \in {Every, Whole}, NEW o \in others[kind] \ touched
               PROVE  /\ Cardinality({i \in DOMAIN found : found[i].name = o}) = 1
                      /\ Entry(o, TRUE) \in Range(found)
    BY DEF ObjectsExact
  <1>1. ~Ahead(kind) /\ pc \notin Failures /\ listed = <<>> /\ only \notin Tables
    BY HomeBehind, SchemasAssumption
  <1>2. PICK e \in Range(found) : e.name = o
    BY <1>1 DEF Covered, Range
  <1>3. PICK i \in DOMAIN found : found[i] = e
    BY <1>2 DEF Range
  <1>4. \A j \in {x \in DOMAIN found : found[x].name = o} : j = i
    BY <1>2, <1>3 DEF ReadInv, ObjectsInv, NamesOnce
  <1>5. e = Entry(o, TRUE)
    <2>1. e \in [name : ObjectNames, full : BOOLEAN]
      BY <1>3, FoundAre
    <2>2. e.full
      BY <1>2 DEF ReadInv, ObjectsInv
    <2>3. QED
      BY <1>2, <2>1, <2>2 DEF Entry
  <1>6. QED
    BY <1>2, <1>3, <1>4, <1>5, OneOf

\* The walk keeps the types of what it reads.
LEMMA WalkTypes ==
    ASSUME ReadInv, subject \in Tables \cup {Every}, target = Gone \/ DOMAIN target = Fields
    PROVE  ReflectionTypeOK
  <1>1. Range(queue) \subseteq Range(Schemas)
    BY DEF ReadInv, WalkInv, Range
  <1>2. DOMAIN draft = Fields
    BY DEF ReadInv, WalkInv
  <1>3. \A i \in DOMAIN found : found[i] \in [name : ObjectNames, full : BOOLEAN]
    BY FoundAre
  <1>4. pc \in {"viewColumns", "sequence"} => listed # <<>>
    BY DEF ReadInv, WalkInv, ListSteps
  <1>5. pc \in AfterReflection => todo = <<>> /\ listed = <<>>
    BY HomeBehind
  <1>6. QED
    BY <1>1, <1>2, <1>3, <1>4, <1>5 DEF ReflectionTypeOK, ReadInv, CatalogInv, WalkInv, TablesInv

\* What is read of a table is a definition.
LEMMA SeenIs ==
    ASSUME CatalogInv, NEW t \in Tables
    PROVE  IsDefinition(Seen(t))
  BY BlankIsDefinition DEF CatalogInv, Seen, Present

\* The table being read is one.
LEMMA ReadingIs ==
    ASSUME ReadInv, pc \in TableSteps
    PROVE  /\ Reading \in Tables /\ Reading \in Range(todo) /\ Head(queue) = Home
           /\ oid[Reading] \in Nat /\ IsDefinition(Seen(Reading))
           /\ draft = [field \in Fields |-> draft[field]]
  <1>1. todo # <<>> /\ todo \in Seq(Tables) /\ Head(queue) = Home
    BY DEF ReadInv, WalkInv, TablesInv
  <1>2. Reading \in Tables /\ Reading \in Range(todo)
    BY <1>1, RestOf DEF Reading
  <1>3. oid \in [Tables -> 0..MaxDdl] /\ MaxDdl \in Nat
    BY CatalogAssumption DEF ReadInv, CatalogInv, CatalogTypeOK
  <1>4. QED
    BY <1>1, <1>2, <1>3, SeenIs DEF ReadInv, WalkInv

-----------------------------------------------------------------------------
(* The sets that are read are finite.                                      *)

\* The sets of a definition are finite.
FiniteParts(d) == \A field \in Fields \ {"columns"} : IsFiniteSet(d[field])

\* What is read of tables is finite.
FiniteInv == FiniteParts(draft) /\ \A i \in DOMAIN result : FiniteParts(result[i].def)

\* Most steps read nothing of a table.
LEMMA FiniteStays == ASSUME FiniteInv, UNCHANGED <<draft, result>> PROVE FiniteInv'
  BY DEF FiniteInv, FiniteParts

\* What the catalog has of a table is finite.
LEMMA SeenIsFinite == ASSUME CatalogInv, NEW t \in Tables PROVE FiniteParts(Seen(t))
  BY BlankIsDefinition DEF CatalogInv, Seen, Present, IsDefinition, FiniteParts

\* One field of the table is read.
LEMMA FieldFinite ==
    ASSUME FiniteInv, NEW field, NEW answer, field # "columns" => IsFiniteSet(answer),
           draft' = [draft EXCEPT ![field] = answer], UNCHANGED result
    PROVE  FiniteInv'
  BY DEF FiniteInv, FiniteParts

\* The table is complete.
LEMMA CompleteFinite ==
    ASSUME FiniteInv, ReadInv, NEW t, NEW table, FiniteParts(table), NEW rest, Complete(t, table, rest)
    PROVE  FiniteInv'
  <1> DEFINE r == [table |-> t, def |-> table]
  <1>1. result' = Append(result, r) /\ draft' = Blank /\ result \in Seq(Range(result))
    BY DEF Complete, ReadInv, TablesInv
  <1> HIDE DEF r
  <1>2. \A i \in DOMAIN result' : (i \in DOMAIN result /\ result'[i] = result[i]) \/ result'[i] = r
    BY <1>1
  <1>3. FiniteParts(Blank)
    BY BlankIsDefinition DEF IsDefinition, FiniteParts
  <1>4. QED
    BY <1>1, <1>2, <1>3 DEF FiniteInv, FiniteParts, r

-----------------------------------------------------------------------------
(* The copy.                                                               *)

\* A copy begins with its table.
CopyInv ==
    /\ subject \in Tables \cup {Every}
    /\ target = Gone \/ DOMAIN target = Fields
    /\ pc = "copying" =>
          /\ script \in Seq(Range(script))
          /\ target = Gone => script # <<>> /\ Head(script)[1] = "table"

\* A copy is not made yet.
LEMMA CopyStays ==
    ASSUME CopyInv, UNCHANGED copyVars, pc' # "copying"
    PROVE  CopyInv'
  BY DEF CopyInv, copyVars

\* Its statements are executed.
LEMMA CopyGoesOn ==
    ASSUME CopyInv, pc = "copying", Execute \/ Refuse \/ Copied
    PROVE  CopyInv' /\ pc' \in CopyStates /\ UNCHANGED <<catalogVars, reflectVars>>
  <1>1. ASSUME Execute PROVE CopyInv' /\ pc' \in CopyStates
    <2>1. /\ script # <<>> /\ script \in Seq(Range(script)) /\ pc' = pc /\ subject' = subject
          /\ script' = Tail(script) /\ target' = Applied(Head(script)[1], Head(script)[2])
      BY <1>1 DEF Execute, CopyInv
    <2>2. Tail(script) \in Seq(Range(script)) /\ \A i \in DOMAIN Tail(script) : Tail(script)[i] \in Range(script)
      BY <2>1, RestOf
    <2>3. Tail(script) \in Seq(Range(Tail(script)))
      <3> DEFINE s == Tail(script)
      <3>1. s \in Seq(Range(script))
        BY <2>2
      <3> HIDE DEF s
      <3>2. s \in Seq(Range(s))
        BY <3>1 DEF Range
      <3>3. QED
        BY <3>2 DEF s
    <2>4. DOMAIN Applied(Head(script)[1], Head(script)[2]) = Fields
      BY <2>1, FieldsAre DEF Applied, CopyInv, Fields
    <2>5. target' # Gone
      BY <2>1, <2>4, CatalogAssumption
    <2>6. QED
      BY <2>1, <2>3, <2>4, <2>5 DEF CopyInv, CopyStates
  <1>2. ASSUME Refuse \/ Copied PROVE CopyInv' /\ pc' \in CopyStates
    BY <1>2 DEF Refuse, Copied, CopyInv, CopyStates, copyVars
  <1>3. QED
    BY <1>1, <1>2 DEF Execute, Refuse, Copied

\* The statements of a list, in a sequence.
LEMMA StatementsAre ==
    ASSUME NEW kind, NEW elements, IsFiniteSet(elements)
    PROVE  /\ Statements(kind, elements) \in Seq({kind} \X elements)
           /\ Range(Statements(kind, elements)) = {kind} \X elements
  <1> DEFINE s == SetToSeq(elements)  w == Statements(kind, elements)
  <1>1. s \in Seq(elements) /\ Range(s) = elements
    BY Listing
  <1>2. w = [i \in 1..Len(s) |-> <<kind, s[i]>>]
    BY DEF Statements
  <1> HIDE DEF s, w
  <1>3. Len(s) \in Nat /\ DOMAIN s = 1..Len(s) /\ \A i \in 1..Len(s) : s[i] \in elements
    BY <1>1
  <1>4. w \in Seq({kind} \X elements)
    BY <1>2, <1>3
  <1>5. DOMAIN w = 1..Len(s) /\ \A i \in 1..Len(s) : w[i] = <<kind, s[i]>>
    BY <1>2
  <1>6. \A e \in elements : \E i \in 1..Len(s) : s[i] = e
    BY <1>1, <1>3 DEF Range
  <1>7. ASSUME NEW x \in Range(w) PROVE x \in {kind} \X elements
    <2>1. PICK i \in 1..Len(s) : x = w[i]
      BY <1>5 DEF Range
    <2>2. x = <<kind, s[i]>> /\ s[i] \in elements
      BY <1>3, <1>5, <2>1
    <2>3. QED
      BY <2>2
  <1>8. ASSUME NEW x \in {kind} \X elements PROVE x \in Range(w)
    <2>1. PICK e \in elements : x = <<kind, e>>
      OBVIOUS
    <2>2. PICK i \in 1..Len(s) : s[i] = e
      BY <1>6
    <2>3. i \in DOMAIN w /\ w[i] = x
      BY <1>5, <2>1, <2>2
    <2>4. QED
      BY <2>3 DEF Range
  <1>9. Range(w) = {kind} \X elements
    BY <1>7, <1>8
  <1>10. QED
    BY <1>4, <1>9 DEF w

\* A sequence over a set is one over a larger set.
LEMMA Widened == ASSUME NEW S, NEW T, S \subseteq T, NEW s \in Seq(S) PROVE s \in Seq(T)
  OBVIOUS

\* One sequence after another.
LEMMA Catenated ==
    ASSUME NEW T, NEW s \in Seq(T), NEW u \in Seq(T)
    PROVE  /\ s \o u \in Seq(T) /\ Range(s \o u) = Range(s) \cup Range(u)
           /\ s # <<>> => s \o u # <<>> /\ Head(s \o u) = Head(s)
  <1> DEFINE w == s \o u
  <1>1. /\ w \in Seq(T) /\ Len(s) \in Nat /\ Len(u) \in Nat
        /\ DOMAIN s = 1..Len(s) /\ DOMAIN u = 1..Len(u) /\ DOMAIN w = 1..(Len(s) + Len(u))
        /\ \A i \in 1..Len(s) : w[i] = s[i]
        /\ \A i \in (Len(s) + 1)..(Len(s) + Len(u)) : w[i] = u[i - Len(s)]
    OBVIOUS
  <1>2. s # <<>> => w # <<>> /\ Head(w) = Head(s)
    BY <1>1
  <1> HIDE DEF w
  <1>3. \A i \in 1..Len(u) : /\ i + Len(s) \in (Len(s) + 1)..(Len(s) + Len(u))
                             /\ (i + Len(s)) - Len(s) = i /\ i + Len(s) \in DOMAIN w
    BY <1>1
  <1>4. \A i \in DOMAIN w : \/ i \in 1..Len(s)
                            \/ i \in (Len(s) + 1)..(Len(s) + Len(u)) /\ i - Len(s) \in 1..Len(u)
    BY <1>1
  <1>5. Range(w) \subseteq Range(s) \cup Range(u)
    BY <1>1, <1>4 DEF Range
  <1>6. Range(s) \subseteq Range(w)
    <2>1. \A i \in 1..Len(s) : i \in DOMAIN w
      BY <1>1
    <2>2. QED
      BY <1>1, <2>1 DEF Range
  <1>7. ASSUME NEW x \in Range(u) PROVE x \in Range(w)
    <2>1. PICK i \in 1..Len(u) : x = u[i]
      BY <1>1 DEF Range
    <2>2. i + Len(s) \in DOMAIN w /\ w[i + Len(s)] = x
      BY <1>1, <1>3, <2>1
    <2>3. QED
      BY <2>2 DEF Range
  <1>8. QED
    BY <1>1, <1>2, <1>5, <1>6, <1>7 DEF w

-----------------------------------------------------------------------------
(* The statements of a copy, in their order.                               *)

\* The statements that make d: its table, and one per element of these kinds.
AllStatements(d, kinds) == {<<"table", d>>} \cup UNION {{kind} \X d[kind] : kind \in kinds}

\* No statement comes twice, and no foreign key before a unique constraint.
KeysFirst(s) == \A i, j \in DOMAIN s : i < j /\ s[i][1] = "fks" => s[j][1] # "uniques"
Arranged(s) == IsInjective(s) /\ KeysFirst(s)

\* One statement is.
LEMMA OneArranged == ASSUME NEW x PROVE Arranged(<<x>>)
  <1>1. DOMAIN <<x>> = {1}
    OBVIOUS
  <1>2. QED
    BY <1>1 DEF Arranged, IsInjective, KeysFirst

\* The statements of one kind are.
LEMMA StatementsArranged ==
    ASSUME NEW kind, NEW elements, IsFiniteSet(elements)
    PROVE  IsInjective(Statements(kind, elements))
  <1> DEFINE s == SetToSeq(elements)  w == Statements(kind, elements)
  <1>1. s \in Seq(elements) /\ IsInjective(s)
    BY Listing
  <1>2. w = [i \in 1..Len(s) |-> <<kind, s[i]>>]
    BY DEF Statements
  <1> HIDE DEF s, w
  <1>3. Len(s) \in Nat /\ DOMAIN s = 1..Len(s) /\ DOMAIN w = 1..Len(s)
        /\ \A i \in 1..Len(s) : w[i] = <<kind, s[i]>>
    BY <1>1, <1>2
  <1>4. \A i, j \in 1..Len(s) : s[i] = s[j] => i = j
    BY <1>1, <1>3 DEF IsInjective
  <1>5. \A i, j \in 1..Len(s) : w[i] = w[j] => i = j
    BY <1>3, <1>4
  <1>6. QED
    BY <1>3, <1>5 DEF IsInjective, w

\* Further statements of another kind come after them.
LEMMA StatementsAfter ==
    ASSUME NEW T, NEW s \in Seq(T), s # <<>>, Arranged(s),
           NEW kind, NEW elements, IsFiniteSet(elements), {kind} \X elements \subseteq T,
           \A x \in Range(s) : x[1] # kind /\ (kind = "uniques" => x[1] # "fks")
    PROVE  LET w == s \o Statements(kind, elements) IN
           /\ w \in Seq(T) /\ w # <<>> /\ Head(w) = Head(s) /\ Arranged(w)
           /\ Range(w) = Range(s) \cup ({kind} \X elements)
  <1> DEFINE u == Statements(kind, elements)  w == s \o u
  <1>1. u \in Seq({kind} \X elements) /\ Range(u) = {kind} \X elements /\ IsInjective(u)
    BY StatementsAre, StatementsArranged
  <1> HIDE DEF u
  <1>2. u \in Seq(T)
    BY <1>1, Widened
  <1>3. w \in Seq(T) /\ w # <<>> /\ Head(w) = Head(s) /\ Range(w) = Range(s) \cup ({kind} \X elements)
    BY <1>1, <1>2, Catenated
  <1>4. /\ Len(s) \in Nat /\ Len(u) \in Nat /\ DOMAIN s = 1..Len(s) /\ DOMAIN u = 1..Len(u)
        /\ DOMAIN w = 1..(Len(s) + Len(u))
        /\ \A i \in 1..Len(s) : w[i] = s[i]
        /\ \A i \in (Len(s) + 1)..(Len(s) + Len(u)) : w[i] = u[i - Len(s)]
    BY <1>2
  <1> HIDE DEF w
  <1>5. \A i \in DOMAIN w : \/ i \in 1..Len(s) /\ i <= Len(s)
                            \/ i > Len(s) /\ i \in (Len(s) + 1)..(Len(s) + Len(u)) /\ i - Len(s) \in 1..Len(u)
    BY <1>4
  <1>6. \A i \in 1..Len(u) : u[i][1] = kind
    BY <1>1, <1>4
  <1>7. \A i \in 1..Len(s) : s[i][1] # kind /\ (kind = "uniques" => s[i][1] # "fks")
    BY <1>4 DEF Range
  <1>8. ASSUME NEW i \in DOMAIN w, NEW j \in DOMAIN w, w[i] = w[j] PROVE i = j
    <2>1. CASE i \in 1..Len(s) /\ j \in 1..Len(s)
      BY <1>4, <1>8, <2>1 DEF Arranged, IsInjective
    <2>2. CASE i > Len(s) /\ j > Len(s)
      <3>1. i - Len(s) \in 1..Len(u) /\ j - Len(s) \in 1..Len(u) /\ u[i - Len(s)] = u[j - Len(s)]
        BY <1>4, <1>5, <1>8, <2>2
      <3>2. i - Len(s) = j - Len(s)
        BY <1>1, <1>4, <3>1 DEF IsInjective
      <3>3. i \in Nat /\ j \in Nat
        BY <1>4
      <3>4. QED
        BY <1>4, <3>2, <3>3
    <2>3. CASE i \in 1..Len(s) /\ j > Len(s)
      BY <1>4, <1>5, <1>6, <1>7, <1>8, <2>3
    <2>4. CASE i > Len(s) /\ j \in 1..Len(s)
      BY <1>4, <1>5, <1>6, <1>7, <1>8, <2>4
    <2>5. QED
      BY <1>5, <2>1, <2>2, <2>3, <2>4
  <1>9. ASSUME NEW i \in DOMAIN w, NEW j \in DOMAIN w, i < j, w[i][1] = "fks"
        PROVE  w[j][1] # "uniques"
    <2>1. CASE i \in 1..Len(s) /\ j \in 1..Len(s)
      BY <1>4, <1>9, <2>1 DEF Arranged, KeysFirst
    <2>2. CASE i > Len(s) /\ j > Len(s)
      BY <1>4, <1>5, <1>6, <1>9, <2>2
    <2>3. CASE i \in 1..Len(s) /\ j > Len(s)
      BY <1>4, <1>5, <1>6, <1>7, <1>9, <2>3
    <2>4. CASE i > Len(s) /\ j \in 1..Len(s)
      BY <1>4, <1>9, <2>4
    <2>5. QED
      BY <1>5, <2>1, <2>2, <2>3, <2>4
  <1>10. Arranged(w)
    BY <1>8, <1>9 DEF Arranged, IsInjective, KeysFirst
  <1>11. QED
    BY <1>3, <1>10 DEF w, u

\* So are the rest of them.
LEMMA RestArranged ==
    ASSUME NEW T, NEW s \in Seq(T), s # <<>>, Arranged(s)
    PROVE  /\ Arranged(Tail(s)) /\ Head(s) \notin Range(Tail(s))
           /\ Head(s)[1] = "fks" => \A x \in Range(Tail(s)) : x[1] # "uniques"
  <1>1. IsInjective(Tail(s)) /\ Head(s) \notin Range(Tail(s))
    BY RestOf DEF Arranged
  <1>2. /\ Head(s) = s[1] /\ Len(s) \in Nat \ {0} /\ DOMAIN s = 1..Len(s)
        /\ DOMAIN Tail(s) = 1..(Len(s) - 1) /\ \A i \in 1..(Len(s) - 1) : Tail(s)[i] = s[i + 1]
    OBVIOUS
  <1>3. \A i \in 1..(Len(s) - 1) : i + 1 \in DOMAIN s /\ 1 \in DOMAIN s /\ 1 < i + 1
    BY <1>2
  <1>4. \A i, j \in 1..(Len(s) - 1) : i < j => i + 1 < j + 1
    BY <1>2
  <1>5. KeysFirst(Tail(s))
    BY <1>2, <1>3, <1>4 DEF Arranged, KeysFirst
  <1>6. ASSUME Head(s)[1] = "fks", NEW x \in Range(Tail(s)) PROVE x[1] # "uniques"
    <2>1. PICK i \in 1..(Len(s) - 1) : x = s[i + 1]
      BY <1>2, <1>6 DEF Range
    <2>2. QED
      BY <1>2, <1>3, <1>6, <2>1 DEF Arranged, KeysFirst
  <1>7. QED
    BY <1>1, <1>5, <1>6 DEF Arranged

-----------------------------------------------------------------------------
(* What the statements of a copy make.                                     *)

\* Every identity column of a table is in its primary key, where the server
\* wants it to be in a key when the table is created.
IdentitiesInKey ==
    KeyedIdentity =>
        \A t \in Tables : \A d \in Definitions[t] \ {Gone} : \A c \in ColumnNames(d) :
            d.columns[c] = "identity" => c \in d.pk

\* What is to be copied: elements on columns that exist, index names taken once,
\* and self-references to the keys that are made before them.
Copyable(b, kinds) ==
    /\ \A kind \in kinds : \A e \in b[kind] : e.columns # {} /\ e.columns \subseteq ColumnNames(b)
    /\ b.uniques \cap b.indexes = {}
    /\ \A i, j \in b.uniques \cup b.indexes : i.name = j.name => i = j
    /\ \A f \in b.fks : f.table = subject =>
           f.refs \in ({b.pk} \ {{}}) \cup {u.columns : u \in b.uniques}
    /\ KeyedIdentity => \A c \in ColumnNames(b) : b.columns[c] = "identity" => c \in b.pk

\* The copy so far: it has every element but those whose statements are left.
Making(b, kinds) ==
    /\ script \in Seq(AllStatements(b, kinds)) /\ Arranged(script)
    /\ target = Gone =>
          script # <<>> /\ Head(script) = <<"table", b>> /\ Range(script) = AllStatements(b, kinds)
    /\ target # Gone =>
          /\ target = [field \in Fields |-> target[field]]
          /\ target.columns = b.columns /\ target.pk = b.pk
          /\ \A x \in Range(script) : x[1] # "table"
          /\ \A kind \in kinds : target[kind] = {e \in b[kind] : <<kind, e>> \notin Range(script)}

\* It stays as it is.
LEMMA MakingStays ==
    ASSUME NEW b, NEW kinds, Making(b, kinds), UNCHANGED <<script, target>>
    PROVE  Making(b, kinds)'
  BY DEF Making

\* The kinds of statements of either engine.
ElementKinds(kinds) ==
    /\ {"uniques", "indexes"} \subseteq kinds
    /\ kinds \subseteq {"uniques", "checks", "exclusions", "fks", "indexes"}

\* A table as CREATE TABLE makes it.
LEMMA CreatedIs ==
    ASSUME NEW b
    PROVE  LET d == [Blank EXCEPT !.columns = b.columns, !.pk = b.pk] IN
           /\ d = [field \in Fields |-> d[field]]
           /\ d.columns = b.columns /\ d.pk = b.pk
           /\ \A field \in Fields \ {"columns", "pk"} : d[field] = {}
  <1> DEFINE d == [Blank EXCEPT !.columns = b.columns, !.pk = b.pk]
  <1>1. d = [field \in Fields |-> IF field = "columns" THEN b.columns
                                  ELSE IF field = "pk" THEN b.pk ELSE {}]
    BY FieldsAre, BlankIs
  <1> HIDE DEF d
  <1>2. \A field \in Fields : d[field] = IF field = "columns" THEN b.columns
                                         ELSE IF field = "pk" THEN b.pk ELSE {}
    BY <1>1
  <1>3. d = [field \in Fields |-> d[field]]
    BY <1>1
  <1>4. QED
    BY <1>2, <1>3, FieldsAre DEF d

\* The next statement of the script is about the table or one of its elements.
LEMMA NextStatement ==
    ASSUME NEW b, NEW kinds, ElementKinds(kinds), Making(b, kinds), script # <<>>
    PROVE  \/ target = Gone /\ Head(script) = <<"table", b>>
           \/ /\ target # Gone
              /\ \E kind \in kinds : \E e \in b[kind] :
                     Head(script) = <<kind, e>> /\ kind # "table" /\ e \notin target[kind]
  <1>1. Head(script) \in AllStatements(b, kinds) /\ Head(script) \in Range(script)
    BY RestOf DEF Making
  <1>2. CASE target = Gone
    BY <1>2 DEF Making
  <1>3. CASE target # Gone
    <2>1. Head(script)[1] # "table"
      BY <1>1, <1>3 DEF Making
    <2>2. PICK kind \in kinds : Head(script) \in {kind} \X b[kind]
      BY <1>1, <2>1 DEF AllStatements
    <2>3. PICK e \in b[kind] : Head(script) = <<kind, e>>
      BY <2>2
    <2>4. e \notin target[kind]
      BY <1>1, <1>3, <2>3 DEF Making
    <2>5. QED
      BY <1>3, <2>1, <2>3, <2>4
  <1>4. QED
    BY <1>2, <1>3

\* It is accepted.
LEMMA NextAccepted ==
    ASSUME NEW b, NEW kinds, ElementKinds(kinds), Copyable(b, kinds), Making(b, kinds), script # <<>>
    PROVE  Accepts(Head(script)[1], Head(script)[2])
  <1>1. CASE target = Gone
    <2>1. Head(script)[1] = "table" /\ Head(script)[2] = b
      BY <1>1, NextStatement
    <2> DEFINE d == [Blank EXCEPT !.columns = b.columns, !.pk = b.pk]
    <2>2. Applied("table", b) = d
      BY DEF Applied
    <2>3. d.columns = b.columns /\ d.pk = b.pk
      BY CreatedIs
    <2> HIDE DEF d
    <2>4. IdentityAllowed(d)
      <3>1. SUFFICES ASSUME KeyedIdentity, NEW c \in ColumnNames(d), d.columns[c] = "identity"
                     PROVE  \E key \in KeysOf(d) : c \in key
        BY DEF IdentityAllowed
      <3>2. c \in d.pk
        BY <2>3, <3>1 DEF Copyable, ColumnNames
      <3>3. d.pk \in KeysOf(d)
        BY <3>2 DEF KeysOf
      <3>4. QED
        BY <3>2, <3>3
    <2>5. QED
      BY <1>1, <2>1, <2>2, <2>4 DEF Accepts
  <1>2. CASE target # Gone
    <2>0. PICK kind \in kinds : \E e \in b[kind] :
              Head(script) = <<kind, e>> /\ kind # "table" /\ e \notin target[kind]
      BY <1>2, NextStatement
    <2>1. PICK e \in b[kind] :
              Head(script) = <<kind, e>> /\ kind # "table" /\ e \notin target[kind]
      BY <2>0
    <2>2. Head(script)[1] = kind /\ Head(script)[2] = e
      BY <2>1
    <2>3. e.columns # {} /\ e.columns \subseteq ColumnNames(target)
      BY <1>2 DEF Copyable, Making, ColumnNames
    <2>4. target.uniques \subseteq b.uniques /\ target.indexes \subseteq b.indexes
      BY <1>2 DEF Making, ElementKinds
    <2>5. ASSUME kind \in {"uniques", "indexes"} PROVE e.name \notin UsedNames(target)
      <3>1. SUFFICES ASSUME NEW o \in target.uniques \cup target.indexes, o.name = e.name PROVE FALSE
        BY DEF UsedNames
      <3>2. e \in b.uniques \cup b.indexes /\ o \in b.uniques \cup b.indexes
        BY <2>4, <2>5
      <3>3. o = e
        BY <3>1, <3>2 DEF Copyable
      <3>4. CASE kind = "uniques"
        BY <2>1, <2>4, <3>1, <3>3, <3>4 DEF Copyable
      <3>5. CASE kind = "indexes"
        BY <2>1, <2>4, <3>1, <3>3, <3>5 DEF Copyable
      <3>6. QED
        BY <2>5, <3>4, <3>5
    <2>6. ASSUME kind = "fks", e.table = subject PROVE e.refs \in KeysOf(target)
      <3>1. \A x \in Range(script) : x[1] # "uniques"
        <4>1. Head(script)[1] = "fks"
          BY <2>2, <2>6
        <4>2. \A x \in Range(Tail(script)) : x[1] # "uniques"
          BY <4>1, RestArranged DEF Making
        <4>3. Range(script) = {Head(script)} \cup Range(Tail(script))
          BY RestOf DEF Making
        <4>4. QED
          BY <4>1, <4>2, <4>3
      <3>2. \A u : <<"uniques", u>> \notin Range(script)
        BY <3>1
      <3>3. target.uniques = b.uniques /\ target.pk = b.pk
        BY <1>2, <3>2 DEF Making, ElementKinds
      <3>4. QED
        BY <2>6, <3>3 DEF Copyable, KeysOf
    <2>7. QED
      BY <2>1, <2>2, <2>3, <2>5, <2>6 DEF Accepts
  <1>3. QED
    BY <1>1, <1>2

\* The copy goes on when it is executed.
LEMMA MakingGoesOn ==
    ASSUME NEW b, NEW kinds, ElementKinds(kinds), Making(b, kinds), Execute
    PROVE  Making(b, kinds)'
  <1> DEFINE T == AllStatements(b, kinds)
  <1>1. /\ script # <<>> /\ script' = Tail(script)
        /\ target' = Applied(Head(script)[1], Head(script)[2])
    BY DEF Execute
  <1>2. /\ script' \in Seq(T) /\ Arranged(script') /\ Head(script) \notin Range(script')
        /\ Range(script) = {Head(script)} \cup Range(script')
    BY <1>1, RestOf, RestArranged DEF Making
  <1>3. "table" \notin kinds /\ kinds \subseteq Fields \ {"columns", "pk"}
    BY FieldsAre DEF ElementKinds
  <1>4. CASE target = Gone
    <2> DEFINE d == [Blank EXCEPT !.columns = b.columns, !.pk = b.pk]
    <2>1. Head(script) = <<"table", b>> /\ Range(script) = T
      BY <1>4 DEF Making
    <2>2. target' = d
      <3>1. Head(script)[1] = "table" /\ Head(script)[2] = b
        BY <2>1
      <3>2. QED
        BY <1>1, <3>1 DEF Applied
    <2>3. /\ d = [field \in Fields |-> d[field]] /\ d.columns = b.columns /\ d.pk = b.pk
          /\ \A field \in Fields \ {"columns", "pk"} : d[field] = {}
      BY CreatedIs
    <2> HIDE DEF d
    <2>4. target' # Gone
      BY <2>2, <2>3, CatalogAssumption
    <2>5. \A x \in Range(script') : x[1] # "table"
      <3>1. SUFFICES ASSUME NEW x \in Range(script'), x[1] = "table" PROVE FALSE
        OBVIOUS
      <3>2. x \in T /\ x # <<"table", b>>
        BY <1>2, <2>1
      <3>3. QED
        BY <1>3, <3>1, <3>2 DEF AllStatements
    <2>6. ASSUME NEW kind \in kinds PROVE \A e \in b[kind] : <<kind, e>> \in Range(script')
      <3>1. \A e \in b[kind] : <<kind, e>> \in T /\ kind # "table"
        BY <1>3 DEF AllStatements
      <3>2. QED
        BY <1>2, <2>1, <3>1
    <2>7. \A kind \in kinds : target'[kind] = {e \in b[kind] : <<kind, e>> \notin Range(script')}
      BY <1>3, <2>2, <2>3, <2>6
    <2>8. QED
      BY <1>2, <2>2, <2>3, <2>4, <2>5, <2>7 DEF Making
  <1>5. CASE target # Gone
    <2>0. PICK kind \in kinds : \E e \in b[kind] :
              Head(script) = <<kind, e>> /\ kind # "table" /\ e \notin target[kind]
      BY <1>1, <1>5, NextStatement
    <2>1. PICK e \in b[kind] :
              Head(script) = <<kind, e>> /\ kind # "table" /\ e \notin target[kind]
      BY <2>0
    <2>2. /\ target = [field \in Fields |-> target[field]]
          /\ target.columns = b.columns /\ target.pk = b.pk
          /\ \A x \in Range(script) : x[1] # "table"
          /\ \A k \in kinds : target[k] = {o \in b[k] : <<k, o>> \notin Range(script)}
      BY <1>5 DEF Making
    <2>3. target' = [target EXCEPT ![kind] = @ \cup {e}]
      <3>1. Head(script)[1] = kind /\ Head(script)[2] = e
        BY <2>1
      <3>2. QED
        BY <1>1, <2>1, <3>1 DEF Applied
    <2>4. target' = [field \in Fields |-> IF field = kind THEN target[kind] \cup {e} ELSE target[field]]
      BY <1>3, <2>2, <2>3
    <2>5. target' = [field \in Fields |-> target'[field]]
          /\ \A field \in Fields : target'[field] = IF field = kind THEN target[kind] \cup {e} ELSE target[field]
      BY <2>4
    <2>6. target' # Gone
      BY <2>4, CatalogAssumption
    <2>7. target'.columns = b.columns /\ target'.pk = b.pk
      BY <1>3, <2>2, <2>5, FieldsAre
    <2>8. ASSUME NEW k \in kinds PROVE target'[k] = {o \in b[k] : <<k, o>> \notin Range(script')}
      <3>1. \A o : <<k, o>> \in Range(script) <=> <<k, o>> = <<kind, e>> \/ <<k, o>> \in Range(script')
        BY <1>2, <2>1
      <3>2. <<kind, e>> \notin Range(script')
        BY <1>2, <2>1
      <3>3. target'[k] = IF k = kind THEN target[kind] \cup {e} ELSE target[k]
        BY <1>3, <2>5
      <3>4. CASE k = kind
        BY <2>1, <2>2, <3>1, <3>2, <3>3, <3>4
      <3>5. CASE k # kind
        BY <2>2, <3>1, <3>3, <3>5
      <3>6. QED
        BY <3>4, <3>5
    <2>9. \A x \in Range(script') : x[1] # "table"
      BY <1>2, <2>2
    <2>10. QED
      BY <1>2, <2>5, <2>6, <2>7, <2>8, <2>9 DEF Making
  <1>6. QED
    BY <1>4, <1>5

\* It has everything in the end.
LEMMA MadeInTheEnd ==
    ASSUME NEW b, NEW kinds, Making(b, kinds), script = <<>>
    PROVE  target.columns = b.columns /\ target.pk = b.pk /\ \A kind \in kinds : target[kind] = b[kind]
  <1>1. Range(script) = {}
    BY DEF Range
  <1>2. QED
    BY <1>1 DEF Making
=============================================================================
