------------------------ MODULE SchemaEnginesProofs -------------------------
(***************************************************************************)
(* Theorems about PgSchema, for every schema, every number of statements   *)
(* of others and every set of enum types; and about SchemaEngines: what is *)
(* proved here and in MySqlSchemaProofs of each reflection holds of the    *)
(* one behind the connection.                                              *)
(***************************************************************************)
EXTENDS SchemaEngines, ReflectionProofs

MyP == INSTANCE MySqlSchemaProofs WITH Definitions <- MyDefinitions, KeyedIdentity <- TRUE

-----------------------------------------------------------------------------
(* The statements of others.                                               *)

\* A table without one of its columns.
LEMMA ColumnLess ==
    ASSUME CatalogInv, NEW t \in Present, NEW c
    PROVE  Keeps(t, Without(catalog[t], c))
  <1> DEFINE o == catalog[t]  e == Without(o, c)
             columns == [x \in DOMAIN o.columns \ {c} |-> o.columns[x]]
  <1>1. t \in Tables /\ IsDefinition(o) /\ Seen(t) = o
    BY DEF CatalogInv, Present, Seen
  <1>2. /\ e = [x \in Fields |-> e[x]] /\ e.columns = columns
        /\ e.pk \subseteq o.pk
        /\ \A x \in {"uniques", "indexes", "fks", "checks", "exclusions"} : e[x] \subseteq o[x]
        /\ e.triggers = o.triggers /\ e.comment = o.comment
    BY <1>1, FieldsAre DEF Without, IsDefinition
  <1>3. columns = [x \in DOMAIN columns |-> columns[x]]
    OBVIOUS
  <1> HIDE DEF e, columns, o
  <1>4. \A x \in Fields \ {"columns"} : e[x] \subseteq o[x]
    BY <1>2, FieldsAre
  <1>5. \A x \in Fields \ {"columns"} : IsFiniteSet(e[x])
    BY <1>1, <1>4, FS_Subset DEF IsDefinition
  <1>6. IsDefinition(e)
    BY <1>1, <1>2, <1>3, <1>4, <1>5, FieldsAre DEF IsDefinition, ColumnNames
  <1>7. QED
    BY <1>1, <1>4, <1>6, FieldsAre DEF Keeps, Extends, e, o

\* DROP TABLE leaves a well-formed catalog: it takes the foreign keys that
\* reference the table with it.
LEMMA DropTableKeeps ==
    ASSUME CatalogInv, NEW t \in Tables, DropTable(t)
    PROVE  CatalogInv' /\ Untouched /\ Adds
  <1> DEFINE left(u) == [catalog[u] EXCEPT !.fks = @ \ References(catalog[u], t)]
  <1>1. /\ t \in Present /\ ddls < MaxDdl
        /\ catalog' = [u \in Tables |-> IF u \notin Present \/ u = t THEN Gone ELSE left(u)]
        /\ touched' = touched \cup {t}
                      \cup {u \in Present : References(catalog[u], t) # {}}
        /\ ddls' = ddls + 1
        /\ UNCHANGED <<oid, others>>
    BY DEF DropTable
  <1>2. /\ DOMAIN others = Kinds /\ \A k \in Kinds : others[k] \subseteq Objects[k]
        /\ oid \in [Tables -> 0..MaxDdl] /\ touched \subseteq Tables \cup ObjectNames
        /\ ddls \in 0..MaxDdl /\ WellFormed(catalog)
    BY DEF CatalogInv, CatalogTypeOK
  <1>3. \A u \in Present : /\ u \in Tables /\ Keeps(u, left(u))
                           /\ IsDefinition(catalog[u])
    BY WithoutKeeps, FieldsAre DEF CatalogInv, Present
  <1>4. ASSUME NEW u \in Tables, catalog'[u] # Gone
        PROVE  u \in Present /\ u # t /\ catalog'[u] = left(u)
    BY <1>1, <1>4
  <1>5. \A u \in Present : /\ \A x \in Fields \ {"fks"} : left(u)[x] = catalog[u][x]
                           /\ left(u).fks = catalog[u].fks \ References(catalog[u], t)
    BY <1>3, FieldsAre DEF IsDefinition
  <1>6. \A u \in Present : \A f \in left(u).fks :
              f \in catalog[u].fks /\ f.table \in Tables /\ f.table # t
    <2> HIDE DEF left
    <2>1. ASSUME NEW u \in Present, NEW f \in left(u).fks
          PROVE  f \in catalog[u].fks /\ f.table \in Tables /\ f.table # t
      <3>1. f \in catalog[u].fks /\ f \notin References(catalog[u], t)
        BY <1>5
      <3>2. f \in ForeignKeys
        BY <1>3, <3>1 DEF IsDefinition
      <3>3. QED
        BY <3>1, <3>2 DEF References, ForeignKeys
    <2>2. QED
      BY <2>1
  <1>7. ASSUME NEW u \in Present
        PROVE  /\ KeysOf(left(u)) = KeysOf(catalog[u])
               /\ ColumnNames(left(u)) = ColumnNames(catalog[u])
               /\ IdentityAllowed(left(u)) <=> IdentityAllowed(catalog[u])
    <2> HIDE DEF left
    <2>1. KeysOf(left(u)) = KeysOf(catalog[u]) /\ left(u).columns = catalog[u].columns
      BY <1>5, FieldsAre DEF KeysOf
    <2>2. QED
      BY <2>1 DEF IdentityAllowed, ColumnNames
  <1>8. WellFormed(catalog')
    <2>1. SUFFICES ASSUME NEW u \in Tables, catalog'[u] # Gone
          PROVE  LET d == catalog'[u] IN
                 /\ d.pk \subseteq ColumnNames(d) /\ IdentityAllowed(d)
                 /\ \A e \in d.uniques \cup d.indexes \cup d.fks \cup d.checks \cup d.exclusions :
                        e.columns \subseteq ColumnNames(d)
                 /\ \A f \in d.fks : catalog'[f.table] # Gone /\ f.refs \in KeysOf(catalog'[f.table])
      BY DEF WellFormed
    <2>2. u \in Present /\ u # t /\ catalog'[u] = left(u)
      BY <1>4, <2>1
    <2> HIDE DEF left
    <2>3. /\ catalog[u].pk \subseteq ColumnNames(catalog[u]) /\ IdentityAllowed(catalog[u])
          /\ \A e \in catalog[u].uniques \cup catalog[u].indexes \cup catalog[u].fks
                     \cup catalog[u].checks \cup catalog[u].exclusions :
                e.columns \subseteq ColumnNames(catalog[u])
          /\ \A f \in catalog[u].fks :
                catalog[f.table] # Gone /\ f.refs \in KeysOf(catalog[f.table])
      BY <1>2, <2>2 DEF WellFormed, Present
    <2>4. ASSUME NEW f \in left(u).fks
          PROVE  catalog'[f.table] # Gone /\ f.refs \in KeysOf(catalog'[f.table])
      <3>1. f \in catalog[u].fks /\ f.table \in Present /\ f.table # t
        BY <1>6, <2>2, <2>3 DEF Present
      <3>2. catalog'[f.table] = left(f.table)
        BY <1>1, <3>1, <1>3
      <3>3. f.refs \in KeysOf(left(f.table))
        BY <1>7, <2>3, <3>1
      <3>4. left(f.table) # Gone
        BY <1>3, <3>1, GoneIsNone DEF Keeps
      <3>5. QED
        BY <3>2, <3>3, <3>4
    <2>5. QED
      BY <1>5, <1>7, <2>2, <2>3, <2>4, FieldsAre
  <1>9. CatalogTypeOK'
    <2>1. WellFormed(catalog)'
      BY <1>8
    <2>2. touched' \subseteq Tables \cup ObjectNames
      BY <1>1, <1>2 DEF Present
    <2>3. MaxDdl \in Nat
      BY CatalogAssumption
    <2>4. ddls' \in 0..MaxDdl /\ oid' = oid /\ others' = others
      BY <1>1, <1>2, <2>3
    <2>5. QED
      BY <1>2, <2>1, <2>2, <2>4 DEF CatalogTypeOK
  <1>10. CatalogInv'
    <2>1. catalog' = [u \in Tables |-> catalog'[u]]
      <3> HIDE DEF left
      <3> QED BY <1>1
    <2>2. \A u \in Tables : oid'[u] <= ddls'
      BY <1>1, <1>2, CatalogAssumption DEF CatalogInv
    <2>3. ASSUME NEW u \in Tables, catalog'[u] # Gone
          PROVE  Keeps(u, catalog'[u])
      BY <1>3, <1>4, <2>3
    <2>4. QED
      BY <1>9, <2>1, <2>2, <2>3
         DEF CatalogInv, Present, Keeps, IsDefinition, ColumnNames
  <1>11. Untouched
    <2>1. ASSUME NEW u \in Tables \ touched'
          PROVE  catalog'[u] = catalog[u]
      <3>1. CASE u \notin Present
        BY <1>1, <2>1, <3>1 DEF Present
      <3>2. CASE u \in Present
        <4>1. u # t /\ References(catalog[u], t) = {}
          BY <1>1, <2>1, <3>2
        <4>2. catalog'[u] = [catalog[u] EXCEPT !.fks = @ \ {}]
          BY <1>1, <2>1, <3>2, <4>1
        <4>3. catalog[u] = [x \in Fields |-> catalog[u][x]]
          BY <1>3, <3>2 DEF IsDefinition
        <4>4. [catalog[u] EXCEPT !.fks = @ \ {}] = catalog[u]
          BY <4>3
        <4>5. QED
          BY <4>2, <4>4
      <3>3. QED
        BY <3>1, <3>2
    <2>2. QED
      BY <1>1, <2>1 DEF Untouched
  <1>12. Adds
    BY <1>3, <1>4 DEF Adds, Keeps
  <1>13. QED
    BY <1>10, <1>11, <1>12

\* The statements of others on Postgres.
LEMMA DdlKeeps ==
    ASSUME CatalogInv, Ddl
    PROVE  CatalogInv' /\ Untouched /\ Adds
  <1>1. ASSUME NEW t \in Tables, DropColumn(t)
        PROVE  CatalogInv' /\ Untouched /\ Adds
    BY <1>1, ColumnLess, DefineKeeps DEF DropColumn
  <1>2. ASSUME NEW t \in Tables, AlterColumnType(t)
        PROVE  CatalogInv' /\ Untouched /\ Adds
    <2>1. t \in Present /\ UNCHANGED oid
      BY <1>2 DEF AlterColumnType
    <2>2. PICK c \in ColumnNames(catalog[t]) :
              Define(t, [catalog[t] EXCEPT !.columns[c] = "plain"])
      BY <1>2 DEF AlterColumnType
    <2> DEFINE columns == [catalog[t].columns EXCEPT ![c] = "plain"]
    <2>3. Define(t, [catalog[t] EXCEPT !.columns = columns])
      BY <2>2
    <2>4. columns = [x \in DOMAIN columns |-> columns[x]]
      OBVIOUS
    <2> HIDE DEF columns
    <2>5. Keeps(t, [catalog[t] EXCEPT !.columns = columns])
      BY <2>1, <2>4, ColumnsKeep
    <2>6. QED
      BY <2>1, <2>3, <2>5, DefineKeeps
  <1>3. QED
    BY <1>1, <1>2, CommonDdlKeeps, DropTableKeeps DEF Ddl

-----------------------------------------------------------------------------
(* The invariant of the walk.                                              *)

\* Tables have the indexes and foreign keys of their definitions.
KnownInv ==
    \A t \in Present : /\ catalog[t].indexes \subseteq Defined(t, "indexes")
                       /\ catalog[t].fks \subseteq Defined(t, "fks")

\* The names of columns may be those of dropped ones.
Lookup == [fk : [name : STRING, columns : SUBSET (STRING \cup {DroppedName}),
                 table : Tables, refs : SUBSET (STRING \cup {DroppedName})],
           own : Nat, ref : Nat]
IndexLookup == [index : Indexes, own : Nat]

\* Where something is still to be looked up.
LookupSteps == {"fkColumns", "fkRefs", "indexColumns"}

\* The places where the enum types of the schema are known.
LabelSteps == {"list"} \cup TableSteps

\* What is still to be looked up, and what the enum types of the schema are.
PgInv ==
    /\ pc # "sequence"
    /\ pc \in {"fkColumns", "fkRefs"} => pending \in Seq(Lookup)
    /\ pc = "indexColumns" => pending \in Seq(IndexLookup)
    /\ pc \in LookupSteps => pending # <<>>
    /\ \A n \in DOMAIN labels : labels[n] \in DOMAIN Enums
    /\ pc \in LabelSteps =>
          \A e \in DOMAIN Enums : Enums[e].schema = Head(queue) =>
              Enums[e].name \in DOMAIN labels /\ labels[Enums[e].name] = e

AllCovered == \A kind \in Kinds : Covered(kind)

WalkingInv == ReadInv /\ AllCovered /\ KnownInv /\ PgInv /\ CopyInv

LEMMA PgPlaces ==
    /\ LookupSteps \subseteq TableSteps /\ LookupSteps \cap (Fields \cup {"list"}) = {}
    /\ "copying" \notin {"schemas"} \cup SchemaSteps \cup TableSteps \cup ObjectSteps \cup Ends
    /\ "list" \in SchemaSteps /\ "enums" \in SchemaSteps /\ "enums" \notin LabelSteps
    /\ LabelSteps \cap ({"schemas"} \cup ObjectSteps \cup Ends \cup CopyStates) = {}
  BY FieldsAre DEF LookupSteps, TableSteps, SchemaSteps, ObjectSteps, ListSteps, Ends, LabelSteps, CopyStates

\* The steps of the walk leave the definitions alone.
LEMMA KnownStays == ASSUME KnownInv, UNCHANGED catalog PROVE KnownInv'
  BY DEF KnownInv, Present, Defined

LEMMA KnownKept ==
    ASSUME KnownInv, CatalogInv, Adds
    PROVE  KnownInv'
  <1> SUFFICES ASSUME NEW t \in Tables, catalog'[t] # Gone
               PROVE  /\ catalog'[t].indexes \subseteq Defined(t, "indexes")
                      /\ catalog'[t].fks \subseteq Defined(t, "fks")
    BY DEF KnownInv, Present, Defined
  <1>1. /\ catalog'[t].indexes \subseteq Seen(t).indexes \cup Defined(t, "indexes")
        /\ catalog'[t].fks \subseteq Seen(t).fks \cup Defined(t, "fks")
    BY DEF Adds, Extends
  <1>2. Seen(t).indexes \subseteq Defined(t, "indexes") /\ Seen(t).fks \subseteq Defined(t, "fks")
    <2>1. CASE t \in Present
      BY <2>1 DEF KnownInv, Seen, Present
    <2>2. CASE t \notin Present
      BY <2>2, BlankIs, FieldsAre DEF Seen, Present
    <2>3. QED
      BY <2>1, <2>2
  <1>3. QED
    BY <1>1, <1>2

\* Nothing but the walk matters to the labels and to what is pending.
LEMMA PgStays ==
    ASSUME PgInv, UNCHANGED <<pgVars, queue>>, pc' \notin LookupSteps \cup {"sequence"},
           pc' \in LabelSteps => pc \in LabelSteps
    PROVE  PgInv'
  BY DEF PgInv, pgVars, LookupSteps

\* The walk begins.
LEMMA InitWalking == Init => WalkingInv
  <1> SUFFICES ASSUME Init PROVE WalkingInv
    OBVIOUS
  <1>1. ReadInv /\ HomeAhead
    BY InitReads, PgPlaces DEF Init
  <1>2. AllCovered
    BY <1>1 DEF AllCovered, Covered, Ahead
  <1>3. KnownInv
    BY DefinitionsKeep, FieldsAre DEF Init, ReflectionInit, CatalogInit, KnownInv, Present
  <1>4. pc \in {"schemas", "enums"} /\ labels = <<>>
    BY DEF Init, ReflectionInit
  <1>5. PgInv
    BY <1>4, PgPlaces DEF PgInv, LookupSteps, LabelSteps
  <1>6. CopyInv
    BY <1>4 DEF Init, ReflectionInit, CopyInv
  <1>7. QED
    BY <1>1, <1>2, <1>3, <1>5, <1>6 DEF WalkingInv

\* Others change the schema.
LEMMA OthersWalking == WalkingInv /\ Ddl => WalkingInv' /\ Untouched
  <1> SUFFICES ASSUME WalkingInv, Ddl PROVE WalkingInv' /\ Untouched
    OBVIOUS
  <1>1. CatalogInv' /\ Untouched /\ Adds
    BY DdlKeeps DEF WalkingInv, ReadInv
  <1>2. UNCHANGED <<reflectVars, pc>> /\ UNCHANGED copyVars /\ UNCHANGED pgVars /\ UNCHANGED queue
    BY DEF Ddl, reflectVars
  <1>3. Walks
    BY <1>1, <1>2, OthersRead DEF WalkingInv
  <1>4. KnownInv'
    BY <1>1, KnownKept DEF WalkingInv, ReadInv
  <1>5. PgInv'
    BY <1>2 DEF WalkingInv, PgInv, pgVars
  <1>6. CopyInv'
    BY <1>2 DEF WalkingInv, CopyInv, copyVars
  <1>7. QED
    BY <1>1, <1>3, <1>4, <1>5, <1>6 DEF Walks, WalkingInv, AllCovered

-----------------------------------------------------------------------------
(* The queries whose answers are looked up further.                        *)

\* A finite set of lookups, listed.
LEMMA LookupsListed ==
    ASSUME NEW F, IsFiniteSet(F), NEW f, f = [x \in F |-> f[x]], NEW T, {f[x] : x \in F} \subseteq T
    PROVE  /\ SetToSeq({f[x] : x \in F}) \in Seq(T)
           /\ Range(SetToSeq({f[x] : x \in F})) = {f[x] : x \in F}
           /\ SetToSeq({f[x] : x \in F}) = <<>> <=> F = {}
  <1> DEFINE S == {f[x] : x \in F}  s == SetToSeq(S)
  <1>1. f \in Surjection(F, S)
    BY DEF Surjection
  <1>2. S \subseteq T /\ (S = {} <=> F = {})
    OBVIOUS
  <1> HIDE DEF S
  <1>3. IsFiniteSet(S)
    BY <1>1, FS_Surjection
  <1>4. s \in Seq(S) /\ Range(s) = S /\ (s = <<>> <=> S = {})
    BY <1>3, Listing
  <1> HIDE DEF s
  <1>5. s \in Seq(T)
    BY <1>2, <1>4
  <1>6. QED
    BY <1>2, <1>4, <1>5 DEF S, s

\* The foreign keys of the table are listed.
LEMMA ForeignKeysListed ==
    ASSUME ReadInv, ReadForeignKeys
    PROVE  /\ ReadsTable /\ draft' = draft /\ labels' = labels
           /\ pending' \in Seq(Lookup)
           /\ Range(pending') = {[fk |-> f, own |-> oid[Reading], ref |-> oid[f.table]] : f \in Seen(Reading).fks}
           /\ pc' = IF Seen(Reading).fks = {} THEN "uniques" ELSE "fkColumns"
           /\ pending' = <<>> <=> Seen(Reading).fks = {}
  <1> DEFINE F == Seen(Reading).fks
             g == [f \in F |-> [fk |-> f, own |-> oid[Reading], ref |-> oid[f.table]]]
  <1>1. /\ pc = "fks" /\ pending' = SetToSeq({[fk |-> f, own |-> oid[Reading], ref |-> oid[f.table]] : f \in F})
        /\ pc' = NextLookup(pending')
        /\ UNCHANGED <<queue, todo, draft, result, objectVars, labels, catalogVars, only>>
    BY DEF ReadForeignKeys, Unmoved
  <1>2. /\ pc \in TableSteps /\ "uniques" \in TableSteps /\ "fkColumns" \in TableSteps
    BY <1>1, FieldsAre DEF TableSteps
  <1>3. Reading \in Tables /\ oid[Reading] \in Nat /\ IsDefinition(Seen(Reading))
    BY <1>2, ReadingIs
  <1>4. IsFiniteSet(F) /\ F \subseteq ForeignKeys
    BY <1>3, FieldsAre DEF IsDefinition
  <1>5. \A t \in Tables : oid[t] \in Nat
    BY CatalogAssumption DEF ReadInv, CatalogInv, CatalogTypeOK
  <1>6. \A f \in F : [fk |-> f, own |-> oid[Reading], ref |-> oid[f.table]] \in Lookup
    <2>1. \A f \in ForeignKeys : oid[f.table] \in Nat
      BY <1>5 DEF ForeignKeys
    <2>2. ForeignKeys \subseteq [name : STRING, columns : SUBSET (STRING \cup {DroppedName}),
                               table : Tables, refs : SUBSET (STRING \cup {DroppedName})]
      BY DEF ForeignKeys, ColumnSets
    <2> HIDE DEF F
    <2>3. QED
      BY <1>3, <1>4, <2>1, <2>2 DEF Lookup
  <1>7. {g[f] : f \in F} = {[fk |-> f, own |-> oid[Reading], ref |-> oid[f.table]] : f \in F}
    OBVIOUS
  <1>8. g = [f \in F |-> g[f]] /\ {g[f] : f \in F} \subseteq Lookup
    <2>1. g = [f \in F |-> g[f]]
      OBVIOUS
    <2>2. \A f \in F : g[f] \in Lookup
      BY <1>6
    <2> HIDE DEF g
    <2>3. QED
      BY <2>1, <2>2
  <1>0. pending' = SetToSeq({g[f] : f \in F})
    BY <1>1, <1>7
  <1> HIDE DEF g, F
  <1>9. /\ pending' \in Seq(Lookup) /\ Range(pending') = {g[f] : f \in F} /\ (pending' = <<>> <=> F = {})
    <2>1. /\ SetToSeq({g[f] : f \in F}) \in Seq(Lookup)
          /\ Range(SetToSeq({g[f] : f \in F})) = {g[f] : f \in F}
          /\ SetToSeq({g[f] : f \in F}) = <<>> <=> F = {}
      BY <1>4, <1>8, LookupsListed
    <2>2. QED
      BY <1>0, <2>1
  <1>10. draft = [field \in Fields |-> draft[field]]
    BY <1>2, ReadingIs
  <1>11. pc' = IF F = {} THEN "uniques" ELSE "fkColumns"
    BY <1>1, <1>9 DEF NextLookup
  <1>12. ReadsTable
    BY <1>1, <1>2, <1>10, <1>11 DEF ReadsTable
  <1>13. QED
    BY <1>1, <1>7, <1>9, <1>11, <1>12 DEF F

\* The names behind column numbers are names.
LEMMA NamesAre ==
    ASSUME NEW t, NEW S \in SUBSET (STRING \cup {DroppedName})
    PROVE  /\ Names(t, S) \in SUBSET (STRING \cup {DroppedName})
           /\ S \subseteq ColumnNames(catalog[t]) => Names(t, S) = S
  BY DEF Names

\* The columns of a foreign key are looked up.
LEMMA ColumnsLooked ==
    ASSUME ReadInv, PgInv, LookupColumns
    PROVE  /\ ReadsTable /\ draft' = draft /\ labels' = labels /\ pc' = "fkRefs"
           /\ pending' \in Seq(Lookup) /\ pending' # <<>>
           /\ Head(pending').fk = [Head(pending).fk EXCEPT !.columns = Names(Reading, @)]
           /\ Range(pending') = {Head(pending')} \cup Range(Tail(pending))
           /\ Head(pending) \in Lookup
           /\ Range(pending) = {Head(pending)} \cup Range(Tail(pending))
  <1> DEFINE p == pending[1]  q == [p EXCEPT !.fk.columns = Names(Reading, p.fk.columns)]
  <1>1. /\ pc = "fkColumns" /\ pending' = [pending EXCEPT ![1].fk.columns = Names(Reading, @)]
        /\ pc' = "fkRefs"
        /\ UNCHANGED <<queue, todo, draft, result, objectVars, labels, catalogVars, only>>
    BY DEF LookupColumns, Unmoved
  <1>2. pending \in Seq(Lookup) /\ pending # <<>>
    BY <1>1 DEF PgInv, LookupSteps
  <1>3. /\ p \in Lookup /\ Head(pending) = p /\ Range(pending) = {p} \cup Range(Tail(pending))
        /\ DOMAIN pending = 1..Len(pending) /\ 1 \in DOMAIN pending /\ Len(pending) \in Nat
    BY <1>2, RestOf
  <1>4. pending' = [pending EXCEPT ![1] = q]
    BY <1>1, <1>2, <1>3
  <1>5. q \in Lookup /\ q.fk = [p.fk EXCEPT !.columns = Names(Reading, @)]
    <2>1. Names(Reading, p.fk.columns) \in SUBSET (STRING \cup {DroppedName})
      BY <1>3, NamesAre DEF Lookup
    <2>2. QED
      BY <1>3, <2>1 DEF Lookup
  <1> HIDE DEF q, p
  <1>6. pending' \in Seq(Lookup) /\ pending' # <<>> /\ Tail(pending') = Tail(pending) /\ Head(pending') = q
    <2>1. pending' \in Seq(Lookup) /\ Len(pending') = Len(pending) /\ pending'[1] = q
          /\ \A i \in 2..Len(pending) : pending'[i] = pending[i]
      BY <1>2, <1>3, <1>4, <1>5
    <2>2. pending' # <<>> /\ Head(pending') = q
      BY <1>2, <2>1
    <2>3. Tail(pending') = Tail(pending)
      BY <1>2, <2>1, <2>2
    <2>4. QED
      BY <2>1, <2>2, <2>3
  <1>7. Range(pending') = {q} \cup Range(Tail(pending))
    BY <1>6, RestOf
  <1>8. pc \in TableSteps /\ pc' \in TableSteps
    BY <1>1 DEF TableSteps
  <1>9. draft = [field \in Fields |-> draft[field]]
    BY <1>8, ReadingIs
  <1>10. QED
    BY <1>1, <1>3, <1>5, <1>6, <1>7, <1>8, <1>9 DEF ReadsTable

\* The columns that a foreign key references are looked up: it is complete.
LEMMA RefsLooked ==
    ASSUME ReadInv, PgInv, LookupRefs
    PROVE  /\ ReadsTable /\ labels' = labels /\ pending' = Tail(pending)
           /\ draft' = [draft EXCEPT !.fks = @ \cup
                  {[Head(pending).fk EXCEPT !.refs = Names(Head(pending).fk.table, @)]}]
           /\ pending' \in Seq(Lookup) /\ Head(pending) \in Lookup
           /\ pc' = IF pending' = <<>> THEN "uniques" ELSE "fkColumns"
           /\ Range(pending) = {Head(pending)} \cup Range(pending')
  <1> DEFINE f == Head(pending).fk
             answer == draft.fks \cup {[f EXCEPT !.refs = Names(f.table, @)]}
  <1>1. /\ pc = "fkRefs" /\ draft' = [draft EXCEPT !["fks"] = answer]
        /\ pending' = Tail(pending)
        /\ pc' = IF pending' = <<>> THEN "uniques" ELSE "fkColumns"
        /\ UNCHANGED <<queue, todo, result, objectVars, labels, catalogVars, only>>
    BY DEF LookupRefs, Put, NextLookup, Unmoved
  <1>2. pending \in Seq(Lookup) /\ pending # <<>>
    BY <1>1 DEF PgInv, LookupSteps
  <1>3. Head(pending) \in Lookup /\ Tail(pending) \in Seq(Lookup)
        /\ Range(pending) = {Head(pending)} \cup Range(Tail(pending))
    BY <1>2, RestOf
  <1>4. pc \in TableSteps /\ pc' \in TableSteps
    BY <1>1, FieldsAre DEF TableSteps
  <1>5. draft = [field \in Fields |-> draft[field]] /\ "fks" \in Fields
    BY <1>4, ReadingIs, FieldsAre
  <1> HIDE DEF answer
  <1>6. draft' = [field \in Fields |-> draft'[field]]
    BY <1>1, <1>5
  <1>7. draft' = [draft EXCEPT !.fks = answer]
    BY <1>1
  <1>8. ReadsTable
    BY <1>1, <1>4, <1>6 DEF ReadsTable
  <1>9. QED
    BY <1>1, <1>3, <1>7, <1>8 DEF answer

\* The indexes of the server are indexes.
LEMMA ServerIndexesAre ==
    ASSUME NEW d, IsDefinition(d)
    PROVE  ServerIndexes(d) \subseteq Indexes /\ IsFiniteSet(ServerIndexes(d))
  <1> DEFINE g == [u \in d.uniques |-> [name |-> u.name, columns |-> u.columns, unique |-> TRUE]]
             U == {g[u] : u \in d.uniques}
  <1>1. /\ d.uniques \subseteq Constraints /\ d.indexes \subseteq Indexes
        /\ IsFiniteSet(d.uniques) /\ IsFiniteSet(d.indexes)
    BY FieldsAre DEF IsDefinition
  <1>2. U = {[name |-> u.name, columns |-> u.columns, unique |-> TRUE] : u \in d.uniques}
    OBVIOUS
  <1>3. \A u \in d.uniques : g[u] \in Indexes
    BY <1>1 DEF Constraints, Indexes
  <1>4. g \in Surjection(d.uniques, U)
    BY DEF Surjection
  <1> HIDE DEF g
  <1>5. U \subseteq Indexes
    BY <1>3
  <1>6. IsFiniteSet(U)
    <2> HIDE DEF U
    <2> QED BY <1>1, <1>4, FS_Surjection
  <1>7. ServerIndexes(d) = d.indexes \cup U
    BY <1>2 DEF ServerIndexes
  <1> HIDE DEF U
  <1>8. QED
    BY <1>1, <1>5, <1>6, <1>7, FS_Union

\* The indexes of the table are listed.
LEMMA IndexesListed ==
    ASSUME ReadInv, ReadIndexes
    PROVE  /\ ReadsTable /\ draft' = draft /\ labels' = labels
           /\ pending' \in Seq(IndexLookup)
           /\ Range(pending') = {[index |-> i, own |-> oid[Reading]] : i \in PlainIndexes(Reading)}
           /\ pc' = IF PlainIndexes(Reading) = {} THEN "triggers" ELSE "indexColumns"
           /\ pending' = <<>> <=> PlainIndexes(Reading) = {}
  <1> DEFINE F == PlainIndexes(Reading)
             g == [i \in F |-> [index |-> i, own |-> oid[Reading]]]
  <1>1. /\ pc = "indexes" /\ pending' = SetToSeq({[index |-> i, own |-> oid[Reading]] : i \in F})
        /\ pc' = IF pending' = <<>> THEN "triggers" ELSE "indexColumns"
        /\ UNCHANGED <<queue, todo, draft, result, objectVars, labels, catalogVars, only>>
    BY DEF ReadIndexes, Unmoved
  <1>2. pc \in TableSteps /\ "triggers" \in TableSteps /\ "indexColumns" \in TableSteps
    BY <1>1, FieldsAre DEF TableSteps
  <1>3. Reading \in Tables /\ oid[Reading] \in Nat /\ IsDefinition(Seen(Reading))
    BY <1>2, ReadingIs
  <1>4. IsFiniteSet(F) /\ F \subseteq Indexes
    <2>1. F \subseteq ServerIndexes(Seen(Reading))
      BY DEF PlainIndexes
    <2> HIDE DEF F
    <2>2. QED
      BY <1>3, <2>1, ServerIndexesAre, FS_Subset
  <1>5. {g[i] : i \in F} = {[index |-> i, own |-> oid[Reading]] : i \in F}
    OBVIOUS
  <1>6. pending' = SetToSeq({g[i] : i \in F})
    BY <1>1, <1>5
  <1>7. g = [i \in F |-> g[i]] /\ {g[i] : i \in F} \subseteq IndexLookup
    <2>1. g = [i \in F |-> g[i]]
      OBVIOUS
    <2>2. \A i \in F : g[i] \in IndexLookup
      BY <1>3, <1>4 DEF IndexLookup
    <2> HIDE DEF g
    <2>3. QED
      BY <2>1, <2>2
  <1> HIDE DEF g, F
  <1>8. /\ pending' \in Seq(IndexLookup) /\ Range(pending') = {g[i] : i \in F} /\ (pending' = <<>> <=> F = {})
    <2>1. /\ SetToSeq({g[i] : i \in F}) \in Seq(IndexLookup)
          /\ Range(SetToSeq({g[i] : i \in F})) = {g[i] : i \in F}
          /\ SetToSeq({g[i] : i \in F}) = <<>> <=> F = {}
      BY <1>4, <1>7, LookupsListed
    <2>2. QED
      BY <1>6, <2>1
  <1>9. draft = [field \in Fields |-> draft[field]]
    BY <1>2, ReadingIs
  <1>10. ReadsTable
    BY <1>1, <1>2, <1>9 DEF ReadsTable
  <1>11. QED
    BY <1>1, <1>5, <1>8, <1>10 DEF F

\* What is read of an index.
IndexRead(p) ==
    IF Exists(Reading, p.own) /\ p.index \in ServerIndexes(catalog[Reading])
    THEN p.index ELSE [p.index EXCEPT !.columns = {}]

\* The columns of an index are read: it is complete.
LEMMA IndexColumnsRead ==
    ASSUME ReadInv, PgInv, ReadIndexColumns
    PROVE  /\ ReadsTable /\ labels' = labels /\ pending' = Tail(pending)
           /\ draft' = [draft EXCEPT !.indexes = @ \cup {IndexRead(Head(pending))}]
           /\ pending' \in Seq(IndexLookup) /\ Head(pending) \in IndexLookup
           /\ pc' = IF pending' = <<>> THEN "triggers" ELSE "indexColumns"
           /\ Range(pending) = {Head(pending)} \cup Range(pending')
  <1> DEFINE answer == draft.indexes \cup {IndexRead(Head(pending))}
  <1>1. /\ pc = "indexColumns" /\ draft' = [draft EXCEPT !["indexes"] = answer]
        /\ pending' = Tail(pending)
        /\ pc' = IF pending' = <<>> THEN "triggers" ELSE "indexColumns"
        /\ UNCHANGED <<queue, todo, result, objectVars, labels, catalogVars, only>>
    BY DEF ReadIndexColumns, Put, Unmoved, IndexRead
  <1>2. pending \in Seq(IndexLookup) /\ pending # <<>>
    BY <1>1 DEF PgInv, LookupSteps
  <1>3. Head(pending) \in IndexLookup /\ Tail(pending) \in Seq(IndexLookup)
        /\ Range(pending) = {Head(pending)} \cup Range(Tail(pending))
    BY <1>2, RestOf
  <1>4. pc \in TableSteps /\ pc' \in TableSteps
    BY <1>1, FieldsAre DEF TableSteps
  <1>5. draft = [field \in Fields |-> draft[field]] /\ "indexes" \in Fields
    BY <1>4, ReadingIs, FieldsAre
  <1> HIDE DEF answer
  <1>6. draft' = [field \in Fields |-> draft'[field]]
    BY <1>1, <1>5
  <1>7. draft' = [draft EXCEPT !.indexes = answer]
    BY <1>1
  <1>8. ReadsTable
    BY <1>1, <1>4, <1>6 DEF ReadsTable
  <1>9. QED
    BY <1>1, <1>3, <1>7, <1>8 DEF answer

-----------------------------------------------------------------------------
(* Every step keeps the invariant of the walk.                             *)

\* What is left to show of a step of the walk.
LEMMA WalksOn ==
    ASSUME WalkingInv, Walks, UNCHANGED <<catalog, copyVars>>, pc' # "copying", PgInv'
    PROVE  WalkingInv'
  <1>1. KnownInv' /\ CopyInv'
    BY KnownStays, CopyStays DEF WalkingInv
  <1>2. QED
    BY <1>1 DEF WalkingInv, Walks, AllCovered

\* And of a query about one table.
LEMMA ReadsOn ==
    ASSUME WalkingInv, ReadsTable, UNCHANGED copyVars, PgInv'
    PROVE  WalkingInv'
  <1>1. Walks
    BY TableStepReads DEF WalkingInv
  <1>2. pc' # "copying"
    BY PgPlaces DEF ReadsTable
  <1>3. QED
    BY <1>1, <1>2, WalksOn DEF ReadsTable, catalogVars

\* A query whose answer becomes a field of the table.
LEMMA QueryWalks ==
    ASSUME WalkingInv, NEW field \in Fields, NEW answer, NEW next \in Fields,
           Query(field, answer, next), Same
    PROVE  WalkingInv'
  <1>1. /\ Fields \subseteq TableSteps /\ TableSteps \subseteq LabelSteps
        /\ next \notin LookupSteps \cup {"sequence"}
    BY PgPlaces, StepsApart, FieldsAre DEF LabelSteps
  <1>2. ReadsTable
    BY <1>1, FieldQuery DEF WalkingInv
  <1>3. PgInv'
    BY <1>1, PgStays DEF WalkingInv, Query, Same
  <1>4. QED
    BY <1>2, <1>3, ReadsOn DEF Query, Unmoved

\* A query that ends the call.
LEMMA GivingUpWalks ==
    ASSUME WalkingInv, NEW how \in Failures, GiveUp(how), Same
    PROVE  WalkingInv'
  <1>1. Walks
    BY GivesUp DEF WalkingInv
  <1>2. how \in Ends /\ how \notin LookupSteps \cup LabelSteps \cup {"sequence"} /\ how # "copying"
    BY StepsApart, PgPlaces DEF LookupSteps, Failures
  <1>3. PgInv'
    BY <1>2, PgStays DEF WalkingInv, GiveUp, Same
  <1>4. QED
    BY <1>1, <1>2, <1>3, WalksOn DEF GiveUp, Unmoved, catalogVars

\* The enum types of the schema become known.
LEMMA EnumTypesWalk == WalkingInv /\ LoadEnumTypes => WalkingInv'
  <1> SUFFICES ASSUME WalkingInv, LoadEnumTypes PROVE WalkingInv'
    OBVIOUS
  <1> DEFINE own == {e \in DOMAIN Enums : Enums[e].schema = Head(queue)}
             names == {Enums[e].name : e \in own}
  <1>1. /\ pc = "enums" /\ pc' = "list"
        /\ labels' = [n \in names |-> CHOOSE e \in own : Enums[e].name = n]
        /\ UNCHANGED <<catalogVars, reflectVars, copyVars, pending>>
    BY DEF LoadEnumTypes, Unmoved, reflectVars
  <1>2. Walks
    BY <1>1, PgPlaces, SchemaStepReads DEF WalkingInv
  <1>3. \A n \in names : labels'[n] \in own /\ Enums[labels'[n]].name = n
    BY <1>1
  <1>4. \A e \in own : labels'[Enums[e].name] = e
    BY <1>3, EnumAssumption
  <1>5. PgInv'
    <2>1. pc' \notin LookupSteps
      BY <1>1 DEF LookupSteps
    <2>2. \A n \in DOMAIN labels' : labels'[n] \in DOMAIN Enums
      BY <1>1, <1>3
    <2>3. \A e \in DOMAIN Enums : Enums[e].schema = Head(queue') =>
              Enums[e].name \in DOMAIN labels' /\ labels'[Enums[e].name] = e
      BY <1>1, <1>4 DEF reflectVars
    <2>4. QED
      BY <1>1, <2>1, <2>2, <2>3 DEF PgInv, LookupSteps
  <1>6. QED
    BY <1>1, <1>2, <1>5, WalksOn DEF catalogVars

\* The schemas of the catalog are listed.
LEMMA SchemasWalk == WalkingInv /\ ListSchemasPg => WalkingInv'
  <1> SUFFICES ASSUME WalkingInv, ListSchemasPg PROVE WalkingInv'
    OBVIOUS
  <1>1. ListSchemas("enums") /\ UNCHANGED pgVars /\ pc' = "enums"
        /\ UNCHANGED <<catalogVars, copyVars>>
    BY DEF ListSchemasPg, ListSchemas, Same, Unmoved
  <1>2. Walks
    BY <1>1, SchemasRead, PgPlaces DEF WalkingInv
  <1>3. PgInv'
    BY <1>1, PgPlaces DEF WalkingInv, PgInv, pgVars, LookupSteps
  <1>4. QED
    BY <1>1, <1>2, <1>3, WalksOn DEF catalogVars

\* The tables are listed.
LEMMA TablesWalk == WalkingInv /\ ReadTables => WalkingInv'
  <1> SUFFICES ASSUME WalkingInv, ReadTables PROVE WalkingInv'
    OBVIOUS
  <1>1. /\ ListTables /\ UNCHANGED pgVars /\ pc = "list" /\ pc' \in {"columns", "missing", "views"}
        /\ UNCHANGED <<catalogVars, copyVars, queue>>
    BY DEF ReadTables, ListTables, Same, Unmoved
  <1>2. Walks
    BY <1>1, TablesListed DEF WalkingInv
  <1>3. PgInv'
    BY <1>1, PgStays DEF WalkingInv, LookupSteps, LabelSteps
  <1>4. QED
    BY <1>1, <1>2, <1>3, WalksOn DEF catalogVars

\* The foreign keys are listed, and their columns looked up one by one.
LEMMA ForeignKeysWalk ==
    WalkingInv /\ (ReadForeignKeys \/ LookupColumns \/ LookupRefs) => WalkingInv'
  <1>1. ASSUME WalkingInv, ReadForeignKeys PROVE WalkingInv'
    <2>1. /\ ReadsTable /\ labels' = labels /\ pending' \in Seq(Lookup)
          /\ pc' \in {"uniques", "fkColumns"} /\ (pc' = "fkColumns" => pending' # <<>>)
      BY <1>1, ForeignKeysListed DEF WalkingInv
    <2>2. PgInv'
      BY <1>1, <2>1 DEF WalkingInv, PgInv, LookupSteps, LabelSteps, ReadsTable
    <2>3. QED
      BY <1>1, <2>1, <2>2, ReadsOn DEF ReadForeignKeys, Unmoved
  <1>2. ASSUME WalkingInv, LookupColumns PROVE WalkingInv'
    <2>1. /\ ReadsTable /\ labels' = labels /\ pending' \in Seq(Lookup)
          /\ pc' = "fkRefs" /\ pending' # <<>>
      BY <1>2, ColumnsLooked DEF WalkingInv
    <2>2. PgInv'
      BY <1>2, <2>1 DEF WalkingInv, PgInv, LookupSteps, LabelSteps, ReadsTable
    <2>3. QED
      BY <1>2, <2>1, <2>2, ReadsOn DEF LookupColumns, Unmoved
  <1>3. ASSUME WalkingInv, LookupRefs PROVE WalkingInv'
    <2>1. /\ ReadsTable /\ labels' = labels /\ pending' \in Seq(Lookup)
          /\ pc' \in {"uniques", "fkColumns"} /\ (pc' = "fkColumns" => pending' # <<>>)
      BY <1>3, RefsLooked DEF WalkingInv
    <2>2. PgInv'
      BY <1>3, <2>1 DEF WalkingInv, PgInv, LookupSteps, LabelSteps, ReadsTable
    <2>3. QED
      BY <1>3, <2>1, <2>2, ReadsOn DEF LookupRefs, Unmoved
  <1>4. QED
    BY <1>1, <1>2, <1>3

\* The indexes are listed, and their columns read one by one.
LEMMA IndexesWalk == WalkingInv /\ (ReadIndexes \/ ReadIndexColumns) => WalkingInv'
  <1>1. ASSUME WalkingInv, ReadIndexes PROVE WalkingInv'
    <2>1. /\ ReadsTable /\ labels' = labels /\ pending' \in Seq(IndexLookup)
          /\ pc' \in {"triggers", "indexColumns"} /\ (pc' = "indexColumns" => pending' # <<>>)
      BY <1>1, IndexesListed DEF WalkingInv
    <2>2. PgInv'
      BY <1>1, <2>1 DEF WalkingInv, PgInv, LookupSteps, LabelSteps, ReadsTable
    <2>3. QED
      BY <1>1, <2>1, <2>2, ReadsOn DEF ReadIndexes, Unmoved
  <1>2. ASSUME WalkingInv, ReadIndexColumns PROVE WalkingInv'
    <2>1. /\ ReadsTable /\ labels' = labels /\ pending' \in Seq(IndexLookup)
          /\ pc' \in {"triggers", "indexColumns"} /\ (pc' = "indexColumns" => pending' # <<>>)
      BY <1>2, IndexColumnsRead DEF WalkingInv
    <2>2. PgInv'
      BY <1>2, <2>1 DEF WalkingInv, PgInv, LookupSteps, LabelSteps, ReadsTable
    <2>3. QED
      BY <1>2, <2>1, <2>2, ReadsOn DEF ReadIndexColumns, Unmoved
  <1>3. QED
    BY <1>1, <1>2

\* The last query about a table.
LEMMA CommentWalks == WalkingInv /\ ReadComment => WalkingInv'
  <1> SUFFICES ASSUME WalkingInv, ReadComment PROVE WalkingInv'
    OBVIOUS
  <1> DEFINE table == [draft EXCEPT !.comment = catalog[Reading].comment]
  <1>1. pc = "comment" /\ Complete(Reading, table, Tail(todo)) /\ UNCHANGED pgVars
    BY DEF ReadComment, Same
  <1>2. /\ pc \in TableSteps /\ "comment" \in Fields
    BY <1>1, FieldsAre DEF TableSteps
  <1>3. DOMAIN table = Fields
    BY <1>2, ReadingIs DEF WalkingInv
  <1> HIDE DEF table
  <1>4. Walks
    BY <1>1, <1>2, <1>3, TableRead DEF WalkingInv
  <1>5. /\ pc' \in {"columns", "done", "views"} /\ UNCHANGED <<queue, catalogVars, copyVars>>
    BY <1>1 DEF Complete, AfterTables, Unmoved
  <1>6. PgInv'
    BY <1>1, <1>2, <1>5, PgStays DEF WalkingInv, LookupSteps, LabelSteps
  <1>7. QED
    BY <1>4, <1>5, <1>6, WalksOn DEF catalogVars

\* Views, sequences and functions.
LEMMA ObjectsWalk == WalkingInv /\ (ReadViews \/ ReadSequences \/ ReadFunctionsPg) => WalkingInv'
  <1> USE DEF Same, ToObjects, Unmoved
  <1>1. ASSUME WalkingInv, ListViews, Same PROVE WalkingInv'
    <2>1. "views" \in OneByOne /\ ListOf("views") = "viewColumns" /\ NextOf("views") = "sequences"
      BY DEF OneByOne, ListOf, NextOf
    <2>2. /\ listed' = Entries("views") /\ pc = "views" /\ UNCHANGED found
          /\ ToObjects(IF listed' = <<>> THEN "sequences" ELSE "viewColumns")
      BY <1>1 DEF ListViews
    <2> HIDE DEF ToObjects
    <2>3. Walks
      BY <1>1, <2>1, <2>2, ObjectsListed DEF WalkingInv, Walks
    <2> USE DEF ToObjects
    <2>4. PgInv'
      BY <1>1, <2>2, PgStays DEF WalkingInv, LookupSteps, LabelSteps, TableSteps, Fields, Blank
    <2>5. QED
      BY <1>1, <2>2, <2>3, <2>4, WalksOn DEF catalogVars
  <1>2. ASSUME WalkingInv, ReadViewColumns, Same PROVE WalkingInv'
    <2> DEFINE full == Head(listed).name \in others["views"]
    <2>1. "views" \in OneByOne /\ ListOf("views") = "viewColumns" /\ NextOf("views") = "sequences"
      BY DEF OneByOne, ListOf, NextOf
    <2>2. /\ pc = "viewColumns" /\ found' = Append(found, Entry(Head(listed).name, full))
          /\ listed' = Tail(listed)
          /\ ToObjects(IF listed' = <<>> THEN "sequences" ELSE "viewColumns")
      BY <1>2 DEF ReadViewColumns
    <2>3. Head(listed).name \notin touched => full
      <3>1. /\ listed \in Seq([name : Objects[ListedKind], full : BOOLEAN]) /\ listed # <<>>
            /\ \A l \in Range(listed) : l.name \notin touched => l.name \in others["views"]
        BY <1>2, <2>2 DEF WalkingInv, ReadInv, ObjectsInv, WalkInv, ListSteps, ListedKind
      <3>2. Head(listed) \in Range(listed)
        BY <3>1, RestOf
      <3>3. QED
        BY <3>1, <3>2
    <2>4. full \in BOOLEAN
      OBVIOUS
    <2> HIDE DEF ToObjects, full
    <2>5. Walks
      BY <1>2, <2>1, <2>2, <2>3, <2>4, ObjectRead DEF WalkingInv
    <2> USE DEF ToObjects
    <2>6. PgInv'
      BY <1>2, <2>2, PgStays DEF WalkingInv, LookupSteps, LabelSteps, TableSteps, Fields, Blank
    <2>7. QED
      BY <1>2, <2>2, <2>5, <2>6, WalksOn DEF catalogVars
  <1>3. ASSUME WalkingInv, ReadSequences PROVE WalkingInv'
    <2>1. Walks
      BY <1>3, SequencesRead DEF WalkingInv, ReadSequences
    <2>2. pc' = "functions" /\ UNCHANGED <<queue, pgVars, catalogVars, copyVars>>
      BY <1>3 DEF ReadSequences
    <2>3. PgInv'
      BY <1>3, <2>2, PgStays DEF WalkingInv, LookupSteps, LabelSteps, TableSteps, Fields, Blank
    <2>4. QED
      BY <1>3, <2>1, <2>2, <2>3, WalksOn DEF catalogVars
  <1>4. ASSUME WalkingInv, ReadFunctionsPg PROVE WalkingInv'
    <2>1. Walks
      BY <1>4, FunctionsRead, PgPlaces DEF WalkingInv, ReadFunctionsPg
    <2>2. pc' \in {"done", "enums"} /\ UNCHANGED <<pgVars, catalogVars, copyVars>>
      BY <1>4 DEF ReadFunctionsPg, ReadFunctions
    <2>3. PgInv'
      BY <1>4, <2>2 DEF WalkingInv, PgInv, pgVars, LookupSteps, LabelSteps, TableSteps, Fields, Blank
    <2>4. QED
      BY <1>4, <2>1, <2>2, <2>3, WalksOn DEF catalogVars
  <1>5. QED
    BY <1>1, <1>2, <1>3, <1>4 DEF ReadViews

\* What has a statement of its own.
Elements == {"uniques", "checks", "exclusions", "fks", "indexes"}

\* The table that the first statement is about.
Created(d) == [d EXCEPT !.columns = [c \in DOMAIN @ |-> Rendered(@[c])]]

LEMMA CreatedFields ==
    ASSUME NEW d, DOMAIN d = Fields
    PROVE  /\ \A field \in Fields \ {"columns"} : Created(d)[field] = d[field]
           /\ Created(d).columns = [c \in DOMAIN d.columns |-> Rendered(d.columns[c])]
  BY FieldsAre DEF Created

\* The statements of render_ddl: the table first, then one per element.
LEMMA RenderedAre ==
    ASSUME NEW d, DOMAIN d = Fields, FiniteParts(d)
    PROVE  LET T == AllStatements(Created(d), Elements) IN
           /\ RenderDdl(d) \in Seq(T) /\ Range(RenderDdl(d)) = T /\ Arranged(RenderDdl(d))
           /\ RenderDdl(d) # <<>> /\ Head(RenderDdl(d)) = <<"table", Created(d)>>
  <1> DEFINE b == Created(d)  T == AllStatements(b, Elements)  t0 == <<<<"table", b>>>>
             t1 == t0 \o Statements("uniques", b.uniques)  t2 == t1 \o Statements("checks", b.checks)
             t3 == t2 \o Statements("exclusions", b.exclusions)
             t4 == t3 \o Statements("fks", b.fks)  t5 == t4 \o Statements("indexes", b.indexes)
  <1>1. /\ b.uniques = d.uniques /\ b.checks = d.checks /\ b.exclusions = d.exclusions
        /\ b.fks = d.fks /\ b.indexes = d.indexes
        /\ IsFiniteSet(b.uniques) /\ IsFiniteSet(b.checks) /\ IsFiniteSet(b.exclusions)
        /\ IsFiniteSet(b.fks) /\ IsFiniteSet(b.indexes)
    BY FieldsAre, CreatedFields DEF FiniteParts
  <1>2. T = {<<"table", b>>} \cup ({"uniques"} \X b.uniques) \cup ({"checks"} \X b.checks)
            \cup ({"exclusions"} \X b.exclusions) \cup ({"fks"} \X b.fks) \cup ({"indexes"} \X b.indexes)
    BY DEF AllStatements, Elements
  <1>3. RenderDdl(d) = t5
    <2>1. RenderedTable(d) = t0
      BY DEF RenderedTable, Created
    <2>2. QED
      BY <1>1, <2>1 DEF RenderDdl
  <1> HIDE DEF b
  <1>4. /\ t0 \in Seq(T) /\ t0 # <<>> /\ Head(t0) = <<"table", b>> /\ Range(t0) = {<<"table", b>>}
        /\ Arranged(t0)
    BY <1>2, OneArranged DEF Range
  <1> HIDE DEF t0, T
  <1>5. /\ t1 \in Seq(T) /\ t1 # <<>> /\ Head(t1) = <<"table", b>> /\ Arranged(t1)
        /\ Range(t1) = Range(t0) \cup ({"uniques"} \X b.uniques)
    <2>1. \A x \in Range(t0) : x[1] # "uniques" /\ x[1] # "fks"
      BY <1>4
    <2>2. QED
      BY <1>1, <1>2, <1>4, <2>1, StatementsAfter
  <1> HIDE DEF t1
  <1>6. /\ t2 \in Seq(T) /\ t2 # <<>> /\ Head(t2) = <<"table", b>> /\ Arranged(t2)
        /\ Range(t2) = Range(t1) \cup ({"checks"} \X b.checks)
    <2>1. \A x \in Range(t1) : x[1] # "checks"
      BY <1>4, <1>5
    <2>2. QED
      BY <1>1, <1>2, <1>5, <2>1, StatementsAfter
  <1> HIDE DEF t2
  <1>7. /\ t3 \in Seq(T) /\ t3 # <<>> /\ Head(t3) = <<"table", b>> /\ Arranged(t3)
        /\ Range(t3) = Range(t2) \cup ({"exclusions"} \X b.exclusions)
    <2>1. \A x \in Range(t2) : x[1] # "exclusions"
      BY <1>4, <1>5, <1>6
    <2>2. QED
      BY <1>1, <1>2, <1>6, <2>1, StatementsAfter
  <1> HIDE DEF t3
  <1>8. /\ t4 \in Seq(T) /\ t4 # <<>> /\ Head(t4) = <<"table", b>> /\ Arranged(t4)
        /\ Range(t4) = Range(t3) \cup ({"fks"} \X b.fks)
    <2>1. \A x \in Range(t3) : x[1] # "fks"
      BY <1>4, <1>5, <1>6, <1>7
    <2>2. QED
      BY <1>1, <1>2, <1>7, <2>1, StatementsAfter
  <1> HIDE DEF t4
  <1>9. /\ t5 \in Seq(T) /\ t5 # <<>> /\ Head(t5) = <<"table", b>> /\ Arranged(t5)
        /\ Range(t5) = Range(t4) \cup ({"indexes"} \X b.indexes)
    <2>1. \A x \in Range(t4) : x[1] # "indexes"
      BY <1>4, <1>5, <1>6, <1>7, <1>8
    <2>2. QED
      BY <1>1, <1>2, <1>8, <2>1, StatementsAfter
  <1> HIDE DEF t5
  <1>10. Range(t5) = T
    BY <1>2, <1>4, <1>5, <1>6, <1>7, <1>8, <1>9
  <1>11. QED
    BY <1>3, <1>9, <1>10 DEF T, b

\* The copy.
LEMMA CopyWalks == WalkingInv /\ FiniteInv /\ Copy => WalkingInv'
  <1>1. ASSUME WalkingInv, FiniteInv, StartCopy PROVE WalkingInv'
    <2>1. PICK i \in DOMAIN result : subject' = result[i].table /\ script' = RenderDdl(result[i].def)
      BY <1>1 DEF StartCopy
    <2>2. pc = "done" /\ pc' = "copying" /\ UNCHANGED <<catalogVars, reflectVars, target, pgVars>>
      BY <1>1 DEF StartCopy
    <2> DEFINE d == result[i].def
    <2>3. FiniteParts(d) /\ DOMAIN d = Fields /\ subject' \in Tables
      BY <1>1, <2>1 DEF FiniteInv, WalkingInv, ReadInv, TablesInv
    <2>4. script' \in Seq(Range(script')) /\ script' # <<>> /\ Head(script')[1] = "table"
      <3> HIDE DEF d
      <3> QED BY <2>1, <2>3, RenderedAre DEF d
    <2>5. CopyInv'
      BY <1>1, <2>2, <2>3, <2>4 DEF CopyInv, WalkingInv
    <2>6. Walks
      BY <1>1, <2>2, CopyReads DEF WalkingInv, AfterReflection, CopyStates
    <2>7. PgInv'
      BY <1>1, <2>2, PgStays DEF WalkingInv, reflectVars, LookupSteps, LabelSteps, TableSteps, Fields, Blank
    <2>8. KnownInv'
      BY <1>1, <2>2, KnownStays DEF WalkingInv, catalogVars
    <2>9. QED
      BY <1>1, <2>5, <2>6, <2>7, <2>8 DEF WalkingInv, Walks, AllCovered
  <1>2. ASSUME WalkingInv, Execute \/ Refuse \/ Copied, Same PROVE WalkingInv'
    <2>1. pc = "copying"
      BY <1>2 DEF Execute, Refuse, Copied
    <2>2. CopyInv' /\ pc' \in CopyStates /\ UNCHANGED <<catalogVars, reflectVars>>
      BY <1>2, <2>1, CopyGoesOn DEF WalkingInv
    <2>3. Walks
      BY <1>2, <2>1, <2>2, CopyReads DEF WalkingInv, AfterReflection, CopyStates
    <2>4. PgInv'
      BY <1>2, <2>2, PgStays, PgPlaces DEF WalkingInv, Same, reflectVars, LookupSteps, LabelSteps,
                                         CopyStates, TableSteps, Fields, Blank
    <2>5. KnownInv'
      BY <1>2, <2>2, KnownStays DEF WalkingInv, catalogVars
    <2>6. QED
      BY <1>2, <2>2, <2>3, <2>4, <2>5 DEF WalkingInv, Walks, AllCovered
  <1>3. QED
    BY <1>1, <1>2 DEF Copy

\* What is read stays finite.
LEMMA StaysFinite == WalkingInv /\ FiniteInv /\ Next => FiniteInv'
  <1> SUFFICES ASSUME WalkingInv, FiniteInv, Next PROVE FiniteInv'
    OBVIOUS
  <1>1. ReadInv /\ PgInv
    BY DEF WalkingInv
  <1>2. pc \in TableSteps => Reading \in Tables /\ FiniteParts(Seen(Reading))
    BY <1>1, ReadingIs, SeenIsFinite DEF ReadInv
  <1>3. ASSUME ListSchemasPg \/ LoadEnumTypes \/ ReadTables \/ LookupFailed \/ NoComment \/ ReadViews
               \/ ReadSequences \/ ReadFunctionsPg \/ Fail \/ Ddl \/ Copy
        PROVE  FiniteInv'
    <2>1. UNCHANGED <<draft, result>>
      BY <1>3 DEF ListSchemasPg, ListSchemas, LoadEnumTypes, ReadTables, ListTables, LookupFailed,
                 NoComment, GiveUp, ReadViews, ListViews, ReadViewColumns, ReadSequences,
                 ReadFunctionsPg, ReadFunctions, ToObjects, Fail, Ddl, reflectVars,
                 Copy, StartCopy, Execute, Refuse, Copied
    <2>2. QED
      BY <2>1, FiniteStays
  <1>4. ASSUME NEW field \in Fields, NEW answer, field # "columns" => answer = Seen(Reading)[field],
               NEW next, Query(field, answer, next)
        PROVE  FiniteInv'
    <2>1. draft' = [draft EXCEPT ![field] = answer] /\ UNCHANGED result /\ pc \in TableSteps
      BY <1>4, StepsApart DEF Query, Put
    <2>2. field # "columns" => IsFiniteSet(answer)
      BY <1>2, <1>4, <2>1 DEF FiniteParts
    <2>3. QED
      BY <2>1, <2>2, FieldFinite
  <1>5. ASSUME ReadColumns \/ ReadPrimaryKey \/ ReadUniques \/ ReadChecks \/ ReadExclusions \/ ReadTriggers
        PROVE  FiniteInv'
    BY <1>4, <1>5, FieldsAre
       DEF ReadColumns, ReadPrimaryKey, ReadUniques, ReadChecks, ReadExclusions, ReadTriggers
  <1>6. ASSUME ReadForeignKeys \/ LookupColumns \/ ReadIndexes PROVE FiniteInv'
    BY <1>6, FiniteStays DEF ReadForeignKeys, LookupColumns, ReadIndexes
  <1>7. ASSUME LookupRefs PROVE FiniteInv'
    <2> DEFINE e == [Head(pending).fk EXCEPT !.refs = Names(Head(pending).fk.table, @)]
    <2>1. draft' = [draft EXCEPT !.fks = draft.fks \cup {e}] /\ UNCHANGED result
      BY <1>1, <1>7, RefsLooked DEF LookupRefs
    <2>2. IsFiniteSet(draft.fks)
      BY FieldsAre DEF FiniteInv, FiniteParts
    <2> HIDE DEF e
    <2>3. IsFiniteSet(draft.fks \cup {e})
      BY <2>2, FS_AddElement
    <2>4. QED
      BY <2>1, <2>3, FieldFinite
  <1>8. ASSUME ReadIndexColumns PROVE FiniteInv'
    <2> DEFINE e == IndexRead(Head(pending))
    <2>1. draft' = [draft EXCEPT !.indexes = draft.indexes \cup {e}] /\ UNCHANGED result
      BY <1>1, <1>8, IndexColumnsRead DEF ReadIndexColumns
    <2>2. IsFiniteSet(draft.indexes)
      BY FieldsAre DEF FiniteInv, FiniteParts
    <2> HIDE DEF e
    <2>3. IsFiniteSet(draft.indexes \cup {e})
      BY <2>2, FS_AddElement
    <2>4. QED
      BY <2>1, <2>3, FieldFinite
  <1>9. ASSUME ReadComment PROVE FiniteInv'
    <2> DEFINE table == [draft EXCEPT !.comment = catalog[Reading].comment]
    <2>1. Complete(Reading, table, Tail(todo)) /\ pc \in TableSteps /\ catalog[Reading] = Seen(Reading)
      BY <1>9, FieldsAre DEF ReadComment, TableSteps, Seen, Present
    <2>2. IsFiniteSet(catalog[Reading].comment)
      BY <1>2, <2>1, FieldsAre DEF FiniteParts
    <2>3. FiniteParts(table)
      <3>1. draft = [field \in Fields |-> draft[field]]
        BY <1>1, <2>1, ReadingIs
      <3>2. \A field \in Fields : table[field] = IF field = "comment" THEN catalog[Reading].comment ELSE draft[field]
        BY <3>1
      <3>3. QED
        BY <2>2, <3>2 DEF FiniteInv, FiniteParts
    <2> HIDE DEF table
    <2>4. QED
      BY <1>1, <2>1, <2>3, CompleteFinite
  <1>10. QED
    BY <1>3, <1>5, <1>6, <1>7, <1>8, <1>9 DEF Next, Reflect

\* Every step keeps the invariant.
LEMMA NextWalks == WalkingInv /\ FiniteInv /\ [Next]_vars => WalkingInv' /\ FiniteInv'
  <1> SUFFICES ASSUME WalkingInv, FiniteInv, [Next]_vars PROVE WalkingInv' /\ FiniteInv'
    OBVIOUS
  <1>1. CASE UNCHANGED vars
    <2>1. /\ UNCHANGED catalog /\ UNCHANGED <<reflectVars, pc>> /\ UNCHANGED copyVars
          /\ UNCHANGED pgVars /\ UNCHANGED queue /\ UNCHANGED catalogVars /\ UNCHANGED <<draft, result>>
      BY <1>1 DEF vars, catalogVars, reflectVars
    <2>2. CatalogInv' /\ Untouched
      BY <2>1, CatalogStays DEF WalkingInv, ReadInv, Untouched, catalogVars
    <2>3. Walks
      BY <2>1, <2>2, OthersRead DEF WalkingInv
    <2>4. KnownInv'
      BY <2>1, KnownStays DEF WalkingInv
    <2>5. PgInv' /\ CopyInv'
      BY <2>1 DEF WalkingInv, PgInv, CopyInv, pgVars, copyVars
    <2>6. QED
      BY <2>1, <2>3, <2>4, <2>5, FiniteStays DEF Walks, WalkingInv, AllCovered
  <1>2. CASE Ddl
    BY <1>2, OthersWalking, StaysFinite DEF Next
  <1>3. CASE Fail
    BY <1>3, GivingUpWalks, StaysFinite DEF Next, Fail, Failures
  <1>4. CASE Copy
    BY <1>4, CopyWalks, StaysFinite DEF Next
  <1>5. CASE Reflect
    <2>1. FiniteInv'
      BY <1>5, StaysFinite DEF Next
    <2>2. ASSUME NEW field \in Fields, NEW answer, NEW next \in Fields, Query(field, answer, next), Same
          PROVE  WalkingInv'
      BY <2>2, QueryWalks
    <2>3. CASE ReadColumns \/ ReadPrimaryKey \/ ReadUniques \/ ReadChecks \/ ReadExclusions \/ ReadTriggers
      BY <2>1, <2>2, <2>3, FieldsAre
         DEF ReadColumns, ReadPrimaryKey, ReadUniques, ReadChecks, ReadExclusions, ReadTriggers
    <2>4. CASE LookupFailed \/ NoComment
      <3>1. GiveUp("missing") /\ Same /\ "missing" \in Failures
        BY <2>4 DEF LookupFailed, NoComment, Failures
      <3>2. QED
        BY <2>1, <3>1, GivingUpWalks
    <2>5. QED
      BY <1>5, <2>1, <2>3, <2>4, SchemasWalk, EnumTypesWalk, TablesWalk, ForeignKeysWalk, IndexesWalk,
         CommentWalks, ObjectsWalk DEF Reflect
  <1>6. QED
    BY <1>1, <1>2, <1>3, <1>4, <1>5 DEF Next

\* Nothing is read at the beginning.
LEMMA InitFinite == Init => FiniteInv
  BY BlankIsDefinition DEF Init, ReflectionInit, FiniteInv, FiniteParts, IsDefinition

\* A reflection that is kept going is well formed.
LEMMA WalkingTypes == WalkingInv => TypeOK
  <1> SUFFICES ASSUME WalkingInv PROVE TypeOK
    OBVIOUS
  <1>1. ReflectionTypeOK
    BY WalkTypes DEF WalkingInv, CopyInv
  <1>2. pc \in Fields \cup {"schemas", "enums", "list", "fkColumns", "fkRefs", "indexColumns",
                          "views", "viewColumns", "sequences", "functions"} \cup Ends \cup CopyStates
    BY DEF WalkingInv, PgInv, ReadInv, WalkInv, SchemaSteps, TableSteps, ObjectSteps, ListSteps
  <1>3. QED
    BY <1>1, <1>2 DEF WalkingInv, PgInv, LookupSteps, TypeOK

\* The state of a reflection and a copy has its type, and the catalog stays
\* well-formed, whatever others do to the schema (reflect.rs 37-149, ddl.rs
\* 105-193).
THEOREM TypeCorrectness == Spec => []TypeOK
  BY WalkingTypes, InitWalking, InitFinite, NextWalks, PTL DEF Spec
-----------------------------------------------------------------------------
(* The table being read.                                                   *)

\* Every enum type that is in the search path is one of the schema that is
\* reflected.
EnumsAtHome == \A e \in DOMAIN Enums : Enums[e].onPath => Enums[e].schema = Home

\* No foreign key references a unique index that is not a constraint.
KeysAreConstraints ==
    \A t, u \in Tables : \A i \in Defined(t, "indexes") : \A f \in Defined(u, "fks") :
        i.unique /\ f.table = t => f.refs # i.columns

\* The queries after which this field of the table has been read.
After(field) ==
    CASE field = "columns"    -> TableSteps \ {"columns"}
      [] field = "pk"         -> TableSteps \ {"columns", "pk"}
      [] field = "fks"        -> {"uniques", "checks", "exclusions", "indexes", "indexColumns",
                                  "triggers", "comment"}
      [] field = "uniques"    -> {"checks", "exclusions", "indexes", "indexColumns", "triggers", "comment"}
      [] field = "checks"     -> {"exclusions", "indexes", "indexColumns", "triggers", "comment"}
      [] field = "exclusions" -> {"indexes", "indexColumns", "triggers", "comment"}
      [] field = "indexes"    -> {"triggers", "comment"}
      [] field = "triggers"   -> {"comment"}
      [] OTHER                -> {}

\* The draft agrees with the catalog in every field that has been read, if nobody
\* changed the table; what is pending makes up for what is missing.
DraftInv ==
    /\ pc \in {"columns", "pk", "fks"} => draft.fks = {}
    /\ pc \in TableSteps \ {"indexColumns", "triggers", "comment"} => draft.indexes = {}
    /\ (pc \in TableSteps /\ Reading \notin touched) =>
          LET d == Exact(catalog[Reading]) IN
          /\ \A field \in Fields : pc \in After(field) => draft[field] = d[field]
          /\ pc \in {"fkColumns", "fkRefs"} =>
                draft.fks \cup {p.fk : p \in Range(pending)} = d.fks
          /\ pc = "indexColumns" =>
                /\ draft.indexes \cup {p.index : p \in Range(pending)} = d.indexes
                /\ \A p \in Range(pending) : p.own = oid[Reading]

\* A table nobody changed was read as it is.
ResultInv ==
    \A i \in DOMAIN result :
        result[i].table \notin touched => result[i].def = Exact(catalog[result[i].table])

ExactInv == DraftInv /\ ResultInv

\* What an exact reflection has of a definition.
LEMMA ExactIs ==
    ASSUME NEW d, IsDefinition(d)
    PROVE  /\ Exact(d) = [field \in Fields |-> Exact(d)[field]]
           /\ \A field \in Fields \ {"columns"} : Exact(d)[field] = d[field]
           /\ Exact(d).columns = [c \in DOMAIN d.columns |->
                 IF d.columns[c] \in DOMAIN Enums /\ ~Enums[d.columns[c]].onPath
                 THEN Enums[d.columns[c]].qualified ELSE d.columns[c]]
  BY FieldsAre DEF IsDefinition, Exact

\* The order of the queries.
LEMMA QueriesInOrder ==
    /\ \A field \in Fields : After(field) \subseteq TableSteps /\ "columns" \notin After(field)
    /\ \A field \in Fields \ {"comment"} : "comment" \in After(field)
    /\ \A field \in Fields : "pk" \in After(field) => field = "columns"
    /\ \A field \in Fields : "fks" \in After(field) => "pk" \in After(field) \/ field = "pk"
    /\ \A field \in Fields : "fkColumns" \in After(field) => "fks" \in After(field)
    /\ \A field \in Fields : "fkRefs" \in After(field) <=> "fkColumns" \in After(field)
    /\ \A field \in Fields : "uniques" \in After(field) => "fkColumns" \in After(field) \/ field = "fks"
    /\ \A field \in Fields : "checks" \in After(field) => "uniques" \in After(field) \/ field = "uniques"
    /\ \A field \in Fields : "exclusions" \in After(field) => "checks" \in After(field) \/ field = "checks"
    /\ \A field \in Fields : "indexes" \in After(field) => "exclusions" \in After(field) \/ field = "exclusions"
    /\ \A field \in Fields : "indexColumns" \in After(field) <=> "indexes" \in After(field)
    /\ \A field \in Fields : "triggers" \in After(field) => "indexes" \in After(field) \/ field = "indexes"
    /\ \A field \in Fields : "comment" \in After(field) => "triggers" \in After(field) \/ field = "triggers"
  <1> USE FieldsAre
  <1>1. /\ After("columns") = TableSteps \ {"columns"} /\ After("pk") = TableSteps \ {"columns", "pk"}
        /\ After("fks") = {"uniques", "checks", "exclusions", "indexes", "indexColumns", "triggers", "comment"}
        /\ After("uniques") = {"checks", "exclusions", "indexes", "indexColumns", "triggers", "comment"}
        /\ After("checks") = {"exclusions", "indexes", "indexColumns", "triggers", "comment"}
        /\ After("exclusions") = {"indexes", "indexColumns", "triggers", "comment"}
        /\ After("indexes") = {"triggers", "comment"} /\ After("triggers") = {"comment"}
        /\ After("comment") = {}
    BY DEF After
  <1>2. TableSteps = {"columns", "pk", "uniques", "indexes", "fks", "checks", "exclusions",
              "triggers", "comment", "fkColumns", "fkRefs", "indexColumns"}
    BY DEF TableSteps
  <1>3. ASSUME NEW field \in Fields
        PROVE  /\ After(field) \subseteq TableSteps /\ "columns" \notin After(field)
               /\ field # "comment" => "comment" \in After(field)
               /\ "pk" \in After(field) => field = "columns"
               /\ "fks" \in After(field) => "pk" \in After(field) \/ field = "pk"
               /\ "fkColumns" \in After(field) => "fks" \in After(field)
               /\ "fkRefs" \in After(field) <=> "fkColumns" \in After(field)
               /\ "uniques" \in After(field) => "fkColumns" \in After(field) \/ field = "fks"
               /\ "checks" \in After(field) => "uniques" \in After(field) \/ field = "uniques"
               /\ "exclusions" \in After(field) => "checks" \in After(field) \/ field = "checks"
               /\ "indexes" \in After(field) => "exclusions" \in After(field) \/ field = "exclusions"
               /\ "indexColumns" \in After(field) <=> "indexes" \in After(field)
               /\ "triggers" \in After(field) => "indexes" \in After(field) \/ field = "indexes"
               /\ "comment" \in After(field) => "triggers" \in After(field) \/ field = "triggers"
    <2>1. CASE field \in {"columns", "pk"}
      BY <1>1, <1>2, <2>1
    <2>2. CASE field \in {"fks", "uniques", "checks", "exclusions"}
      BY <1>1, <1>2, <2>2
    <2>3. CASE field \in {"indexes", "triggers", "comment"}
      BY <1>1, <1>2, <2>3
    <2>4. QED
      BY <2>1, <2>2, <2>3
  <1>4. QED
    BY <1>3

\* An untouched table that is being read is there.
LEMMA UntouchedIsThere ==
    ASSUME ReadInv, pc \in TableSteps, Reading \notin touched
    PROVE  /\ Reading \in Present /\ Reading \in Tables /\ Seen(Reading) = catalog[Reading]
           /\ IsDefinition(catalog[Reading])
           /\ \A e \in catalog[Reading].fks \cup catalog[Reading].indexes :
                 e.columns \subseteq ColumnNames(catalog[Reading])
           /\ \A f \in catalog[Reading].fks :
                 f.table \in Tables /\ f.table \in Present /\ f.refs \subseteq ColumnNames(catalog[f.table])
  <1>1. Reading \in Present /\ Reading \in Tables
    BY ReadingIs DEF ReadInv, TablesInv, Present
  <1>2. IsDefinition(catalog[Reading]) /\ Seen(Reading) = catalog[Reading] /\ WellFormed(catalog)
    BY <1>1 DEF ReadInv, CatalogInv, CatalogTypeOK, Present, Seen
  <1>3. ASSUME NEW f \in catalog[Reading].fks
        PROVE  f.table \in Tables /\ f.table \in Present /\ f.refs \subseteq ColumnNames(catalog[f.table])
    <2>1. f \in ForeignKeys
      BY <1>2, <1>3 DEF IsDefinition
    <2>2. f.table \in Tables
      BY <2>1 DEF ForeignKeys
    <2>3. catalog[f.table] # Gone /\ f.refs \in KeysOf(catalog[f.table])
      BY <1>1, <1>2, <1>3 DEF WellFormed, Present
    <2>4. \A key \in KeysOf(catalog[f.table]) : key \subseteq ColumnNames(catalog[f.table])
      BY <1>2, <2>2, <2>3 DEF WellFormed, KeysOf
    <2>5. QED
      BY <2>2, <2>3, <2>4 DEF Present
  <1>4. \A e \in catalog[Reading].fks \cup catalog[Reading].indexes :
             e.columns \subseteq ColumnNames(catalog[Reading])
    BY <1>1, <1>2 DEF WellFormed, Present
  <1>5. QED
    BY <1>1, <1>2, <1>3, <1>4

\* The statements of others do not change what is to be reflected.
LEMMA OthersExact ==
    ASSUME WalkingInv, ExactInv, Untouched, UNCHANGED <<reflectVars, pc>>, UNCHANGED pgVars
    PROVE  ExactInv'
  <1>1. UNCHANGED <<todo, draft, result, pc, pending>> /\ Reading' = Reading
    BY DEF reflectVars, pgVars, Reading
  <1>2. pc \in TableSteps /\ Reading \notin touched' =>
            Reading \notin touched /\ catalog'[Reading] = catalog[Reading] /\ oid'[Reading] = oid[Reading]
    BY ReadingIs DEF Untouched, WalkingInv
  <1>3. DraftInv'
    BY <1>1, <1>2 DEF ExactInv, DraftInv, Exact
  <1>4. ASSUME NEW i \in DOMAIN result', result'[i].table \notin touched'
        PROVE  result'[i].def = Exact(catalog'[result'[i].table])
    <2> DEFINE t == result[i].table
    <2>1. i \in DOMAIN result /\ result'[i] = result[i]
      BY <1>1, <1>4
    <2>2. t \in Tables
      BY <2>1 DEF WalkingInv, ReadInv, TablesInv
    <2>3. t \notin touched /\ catalog'[t] = catalog[t]
      BY <1>4, <2>1, <2>2 DEF Untouched
    <2>4. result[i].def = Exact(catalog[t])
      BY <2>1, <2>3 DEF ExactInv, ResultInv
    <2>5. QED
      BY <2>1, <2>3, <2>4
  <1>5. ResultInv'
    BY <1>4 DEF ResultInv, Exact
  <1>6. QED
    BY <1>3, <1>5 DEF ExactInv

\* No table is being read, or the next one is.
LEMMA NoDraft ==
    ASSUME ExactInv, pc' \notin TableSteps \/ (pc' = "columns" /\ draft' = Blank)
    PROVE  DraftInv'
  <1>1. CASE pc' \notin TableSteps
    <2>1. pc' \notin {"columns", "pk", "fks", "fkColumns", "fkRefs", "indexColumns"}
      BY <1>1, FieldsAre DEF TableSteps
    <2>2. QED
      BY <1>1, <2>1 DEF DraftInv
  <1>2. CASE pc' = "columns" /\ draft' = Blank
    BY <1>2, QueriesInOrder, BlankIs, FieldsAre DEF DraftInv
  <1>3. QED
    BY <1>1, <1>2

LEMMA ResultStays ==
    ASSUME ExactInv, UNCHANGED <<catalogVars, result>>
    PROVE  ResultInv'
  BY DEF ExactInv, ResultInv, Exact, catalogVars

\* One field of the table is read as it is.
LEMMA FieldExact ==
    ASSUME WalkingInv, ExactInv, NEW field \in Fields \ {"fks", "indexes"}, NEW answer, NEW next,
           Query(field, answer, next), next \in TableSteps \ {"fkColumns", "fkRefs", "indexColumns", "columns"},
           \A x \in Fields : next \in After(x) => field \in After(x) \/ x = field,
           next \in {"pk", "fks"} => field \in {"columns", "pk"},
           next \notin {"triggers", "comment"} => field \notin {"triggers", "comment"},
           Reading \notin touched => answer = Exact(catalog[Reading])[field]
    PROVE  ExactInv'
  <1>1. /\ pc = field /\ pc' = next /\ draft' = [draft EXCEPT ![field] = answer]
        /\ UNCHANGED <<todo, result, catalogVars>> /\ UNCHANGED <<catalog, touched, oid>>
        /\ Reading' = Reading
    BY DEF Query, Put, Unmoved, Reading, catalogVars
  <1>2. pc \in TableSteps /\ draft = [x \in Fields |-> draft[x]]
    BY <1>1, StepsApart, ReadingIs DEF WalkingInv
  <1>3. \A x \in Fields : draft'[x] = IF x = field THEN answer ELSE draft[x]
    BY <1>1, <1>2
  <1>4. DraftInv'
    <2>1. pc' \in {"columns", "pk", "fks"} => draft'.fks = {}
      BY <1>1, <1>3, FieldsAre DEF ExactInv, DraftInv
    <2>2. pc' \in TableSteps \ {"indexColumns", "triggers", "comment"} => draft'.indexes = {}
      BY <1>1, <1>2, <1>3, FieldsAre DEF ExactInv, DraftInv
    <2>3. ASSUME Reading \notin touched, NEW x \in Fields, next \in After(x)
          PROVE  draft'[x] = Exact(catalog[Reading])[x]
      BY <1>1, <1>2, <1>3, <2>3 DEF ExactInv, DraftInv
    <2>4. QED
      BY <1>1, <2>1, <2>2, <2>3 DEF DraftInv, Exact
  <1>5. QED
    BY <1>1, <1>4, ResultStays DEF ExactInv

\* The columns are read with their enum types.
LEMMA ColumnsExact ==
    ASSUME EnumsAtHome, WalkingInv, ExactInv, ReadColumns
    PROVE  ExactInv'
  <1> DEFINE answer == Categories(Seen(Reading).columns)
  <1>1. Query("columns", answer, "pk") /\ pc = "columns" /\ pc \in TableSteps
    BY FieldsAre DEF ReadColumns, Query, TableSteps
  <1>2. ASSUME Reading \notin touched PROVE answer = Exact(catalog[Reading]).columns
    <2>1. /\ Seen(Reading) = catalog[Reading] /\ IsDefinition(catalog[Reading])
          /\ Head(queue) = Home
      BY <1>1, <1>2, UntouchedIsThere, ReadingIs DEF WalkingInv
    <2> DEFINE columns == catalog[Reading].columns
    <2>2. \A kind : Category(kind) = IF kind \in DOMAIN Enums /\ ~Enums[kind].onPath
                                     THEN Enums[kind].qualified ELSE kind
      <3>1. \A e \in DOMAIN Enums : Enums[e].schema = Home =>
                Enums[e].name \in DOMAIN labels /\ labels[Enums[e].name] = e
        BY <1>1, <2>1 DEF WalkingInv, PgInv, LabelSteps
      <3>2. QED
        BY <3>1 DEF Category, EnumsAtHome
    <2>3. answer = [c \in DOMAIN columns |-> Category(columns[c])]
      BY <2>1 DEF Categories
    <2>4. Exact(catalog[Reading]).columns = [c \in DOMAIN columns |->
                 IF columns[c] \in DOMAIN Enums /\ ~Enums[columns[c]].onPath
                 THEN Enums[columns[c]].qualified ELSE columns[c]]
      BY <2>1, ExactIs
    <2> HIDE DEF answer, columns
    <2>5. QED
      BY <2>2, <2>3, <2>4
  <1> HIDE DEF answer
  <1>3. \A x \in Fields : "pk" \in After(x) => "columns" \in After(x) \/ x = "columns"
    BY QueriesInOrder
  <1>4. "columns" \in Fields \ {"fks", "indexes"} /\ "pk" \in TableSteps
    BY FieldsAre DEF TableSteps
  <1>5. QED
    BY <1>1, <1>2, <1>3, <1>4, FieldExact

\* Every other query whose answer is a field of the table.
LEMMA FieldsExact ==
    ASSUME WalkingInv, ExactInv,
           ReadPrimaryKey \/ ReadUniques \/ ReadChecks \/ ReadExclusions \/ ReadTriggers
    PROVE  ExactInv'
  <1>1. ASSUME NEW field \in {"pk", "uniques", "checks", "exclusions", "triggers"}, NEW next \in TableSteps,
               next \notin {"fkColumns", "fkRefs", "indexColumns", "columns", "pk"},
               Query(field, Seen(Reading)[field], next),
               next = "fks" => field = "pk", field = "triggers" => next = "comment",
               \A x \in Fields : next \in After(x) => field \in After(x) \/ x = field
        PROVE  ExactInv'
    <2> DEFINE answer == Seen(Reading)[field]
    <2>1. pc = field /\ pc \in TableSteps /\ field \in Fields \ {"fks", "indexes", "columns"}
      BY <1>1, FieldsAre, StepsApart DEF Query
    <2>2. ASSUME Reading \notin touched PROVE answer = Exact(catalog[Reading])[field]
      <3>1. IsDefinition(catalog[Reading]) /\ Seen(Reading) = catalog[Reading]
        BY <2>1, <2>2, UntouchedIsThere DEF WalkingInv
      <3>2. Exact(catalog[Reading])[field] = catalog[Reading][field]
        BY <2>1, <3>1, ExactIs
      <3>3. QED
        BY <3>1, <3>2
    <2> HIDE DEF answer
    <2>3. Query(field, answer, next)
      BY <1>1 DEF answer
    <2>4. QED
      BY <1>1, <2>1, <2>2, <2>3, FieldExact
  <1>2. {"fks", "checks", "exclusions", "indexes", "comment"} \subseteq TableSteps
    BY FieldsAre DEF TableSteps
  <1>3. CASE ReadPrimaryKey
    BY <1>1, <1>2, <1>3, QueriesInOrder DEF ReadPrimaryKey
  <1>4. CASE ReadUniques
    BY <1>1, <1>2, <1>4, QueriesInOrder DEF ReadUniques
  <1>5. CASE ReadChecks
    BY <1>1, <1>2, <1>5, QueriesInOrder DEF ReadChecks
  <1>6. CASE ReadExclusions
    BY <1>1, <1>2, <1>6, QueriesInOrder DEF ReadExclusions
  <1>7. CASE ReadTriggers
    BY <1>1, <1>2, <1>7, QueriesInOrder DEF ReadTriggers
  <1>8. QED
    BY <1>3, <1>4, <1>5, <1>6, <1>7

\* The foreign keys.
LEMMA ForeignKeysExact ==
    ASSUME WalkingInv, ExactInv, ReadForeignKeys \/ LookupColumns \/ LookupRefs
    PROVE  ExactInv'
  <1> DEFINE d == Exact(catalog[Reading])
  <1>1. ReadInv /\ PgInv /\ DraftInv /\ ResultInv
    BY DEF WalkingInv, ExactInv
  <1>2. pc \in TableSteps => draft = [x \in Fields |-> draft[x]]
    BY <1>1, ReadingIs
  <1>3. ASSUME pc \in TableSteps, Reading \notin touched
        PROVE  d.fks = Seen(Reading).fks /\ d.fks = catalog[Reading].fks
    <2>1. IsDefinition(catalog[Reading]) /\ Seen(Reading) = catalog[Reading]
      BY <1>1, <1>3, UntouchedIsThere
    <2>2. d["fks"] = catalog[Reading]["fks"]
      BY <2>1, ExactIs, FieldsAre
    <2>3. QED
      BY <2>1, <2>2
  <1>4. ASSUME ReadsTable PROVE ResultInv' /\ Reading' = Reading /\ UNCHANGED <<catalog, touched, oid>>
    BY <1>4, ResultStays DEF ReadsTable, Reading, catalogVars
  <1>5. CASE ReadForeignKeys
    <2>1. /\ ReadsTable /\ draft' = draft /\ pc = "fks"
          /\ Range(pending') = {[fk |-> f, own |-> oid[Reading], ref |-> oid[f.table]] : f \in Seen(Reading).fks}
          /\ pc' = IF Seen(Reading).fks = {} THEN "uniques" ELSE "fkColumns"
      BY <1>1, <1>5, ForeignKeysListed DEF ReadForeignKeys
    <2>2. pc \in TableSteps /\ draft.fks = {} /\ draft.indexes = {}
      BY <1>1, <2>1 DEF ReadsTable, DraftInv
    <2>3. {p.fk : p \in Range(pending')} = Seen(Reading).fks
      <3> DEFINE F == Seen(Reading).fks  e(f) == [fk |-> f, own |-> oid[Reading], ref |-> oid[f.table]]
      <3>1. Range(pending') = {e(f) : f \in F} /\ \A f \in F : e(f).fk = f
        BY <2>1
      <3> HIDE DEF e, F
      <3>2. {p.fk : p \in Range(pending')} = F
        BY <3>1
      <3>3. QED
        BY <3>2 DEF F
    <2>4. ASSUME Reading \notin touched, NEW x \in Fields, pc' \in After(x)
          PROVE  draft[x] = d[x]
      <3>1. CASE x = "fks"
        <4>1. "fkColumns" \notin After("fks")
          BY DEF After
        <4>2. QED
          BY <1>3, <2>1, <2>2, <2>4, <3>1, <4>1
      <3>2. CASE x # "fks"
        BY <1>1, <2>1, <2>2, <2>4, <3>2, QueriesInOrder DEF DraftInv
      <3>3. QED
        BY <3>1, <3>2
    <2>5. DraftInv'
      BY <1>3, <1>4, <2>1, <2>2, <2>3, <2>4 DEF DraftInv, Exact
    <2>6. QED
      BY <1>4, <2>1, <2>5 DEF ExactInv
  <1>6. CASE LookupColumns
    <2>1. /\ ReadsTable /\ draft' = draft /\ pc = "fkColumns" /\ pc' = "fkRefs"
          /\ Head(pending').fk = [Head(pending).fk EXCEPT !.columns = Names(Reading, @)]
          /\ Range(pending') = {Head(pending')} \cup Range(Tail(pending))
          /\ Head(pending) \in Lookup
          /\ Range(pending) = {Head(pending)} \cup Range(Tail(pending))
      BY <1>1, <1>6, ColumnsLooked DEF LookupColumns
    <2>2. pc \in TableSteps /\ draft.indexes = {}
      BY <1>1, <2>1 DEF ReadsTable, DraftInv
    <2>3. ASSUME Reading \notin touched PROVE Head(pending').fk = Head(pending).fk
      <3> DEFINE f == Head(pending).fk
      <3>1. f \in catalog[Reading].fks
        BY <1>1, <1>3, <2>1, <2>2, <2>3 DEF DraftInv
      <3>2. f.columns \subseteq ColumnNames(catalog[Reading])
        BY <1>1, <2>2, <2>3, <3>1, UntouchedIsThere
      <3>3. f.columns \in SUBSET (STRING \cup {DroppedName}) /\ f = [f EXCEPT !.columns = f.columns]
        BY <2>1 DEF Lookup
      <3>4. Names(Reading, f.columns) = f.columns
        BY <3>2, <3>3, NamesAre
      <3>5. QED
        BY <2>1, <3>3, <3>4
    <2>4. Reading \notin touched => {p.fk : p \in Range(pending')} = {p.fk : p \in Range(pending)}
      BY <2>1, <2>3
    <2>5. \A x \in Fields : pc' \in After(x) => pc \in After(x)
      BY <2>1, QueriesInOrder
    <2>6. DraftInv'
      BY <1>1, <1>4, <2>1, <2>2, <2>4, <2>5 DEF DraftInv, Exact
    <2>7. QED
      BY <1>4, <2>1, <2>6 DEF ExactInv
  <1>7. CASE LookupRefs
    <2> DEFINE f == Head(pending).fk  e == [f EXCEPT !.refs = Names(f.table, @)]
    <2>1. /\ ReadsTable /\ pc = "fkRefs" /\ pending' = Tail(pending)
          /\ draft' = [draft EXCEPT !.fks = @ \cup {e}]
          /\ Head(pending) \in Lookup
          /\ pc' = IF pending' = <<>> THEN "uniques" ELSE "fkColumns"
          /\ Range(pending) = {Head(pending)} \cup Range(pending')
      BY <1>1, <1>7, RefsLooked DEF LookupRefs
    <2>2. pc \in TableSteps /\ draft.indexes = {}
      BY <1>1, <2>1 DEF ReadsTable, DraftInv
    <2>3. ASSUME Reading \notin touched PROVE e = f
      <3>1. f \in catalog[Reading].fks
        BY <1>1, <1>3, <2>1, <2>2, <2>3 DEF DraftInv
      <3>2. f.refs \subseteq ColumnNames(catalog[f.table])
        BY <1>1, <2>2, <2>3, <3>1, UntouchedIsThere
      <3>3. f.refs \in SUBSET (STRING \cup {DroppedName}) /\ f = [f EXCEPT !.refs = f.refs]
        BY <2>1 DEF Lookup
      <3>4. Names(f.table, f.refs) = f.refs
        BY <3>2, <3>3, NamesAre
      <3>5. QED
        BY <3>3, <3>4
    <2> HIDE DEF e
    <2>4. /\ draft'.fks = draft.fks \cup {e}
          /\ \A x \in Fields \ {"fks"} : draft'[x] = draft[x]
      BY <1>2, <2>1, <2>2, FieldsAre
    <2>5. ASSUME Reading \notin touched
          PROVE  draft'.fks \cup {p.fk : p \in Range(pending')} = d.fks
      BY <1>1, <2>1, <2>2, <2>3, <2>4, <2>5 DEF DraftInv
    <2>6. ASSUME Reading \notin touched, NEW x \in Fields, pc' \in After(x)
          PROVE  draft'[x] = d[x]
      <3>1. CASE x = "fks"
        <4>1. "fkColumns" \notin After("fks")
          BY DEF After
        <4>2. pending' = <<>> /\ Range(pending') = {}
          BY <2>1, <2>6, <3>1, <4>1 DEF Range
        <4>3. QED
          BY <2>5, <2>6, <3>1, <4>2
      <3>2. CASE x # "fks"
        BY <1>1, <2>1, <2>2, <2>4, <2>6, <3>2, QueriesInOrder DEF DraftInv
      <3>3. QED
        BY <3>1, <3>2
    <2>7. DraftInv'
      BY <1>4, <2>1, <2>2, <2>4, <2>5, <2>6, FieldsAre DEF DraftInv, Exact
    <2>8. QED
      BY <1>4, <2>1, <2>7 DEF ExactInv
  <1>8. QED
    BY <1>5, <1>6, <1>7

\* The query for the indexes of a table leaves out those of constraints, and
\* nothing else.
LEMMA PlainAreIndexes ==
    ASSUME KeysAreConstraints, WalkingInv, pc \in TableSteps, Reading \notin touched
    PROVE  PlainIndexes(Reading) = catalog[Reading].indexes
  <1> DEFINE t == Reading  d == catalog[t]
             U == {[name |-> u.name, columns |-> u.columns, unique |-> TRUE] : u \in d.uniques}
  <1>1. /\ t \in Present /\ t \in Tables /\ Seen(t) = d /\ IsDefinition(d)
    BY UntouchedIsThere DEF WalkingInv
  <1>2. /\ d.uniques \subseteq Constraints /\ d.indexes \subseteq Indexes
        /\ \A i, j \in d.uniques \cup d.indexes : i.name = j.name => i = j
    BY <1>1 DEF IsDefinition
  <1>3. ServerIndexes(d) = d.indexes \cup U
    BY DEF ServerIndexes
  <1>4. \A i \in U : i.unique /\ i.name \in {u.name : u \in d.uniques}
    OBVIOUS
  <1>5. ASSUME NEW i \in d.indexes PROVE i.name \notin {u.name : u \in d.uniques}
    <2>1. SUFFICES ASSUME NEW u \in d.uniques, i.name = u.name PROVE FALSE
      OBVIOUS
    <2>2. u = i
      BY <1>2, <2>1
    <2>3. DOMAIN i = {"name", "columns", "unique"} /\ DOMAIN u = {"name", "columns"}
      BY <1>2 DEF Indexes, Constraints
    <2>4. QED
      BY <2>2, <2>3
  <1>6. ASSUME NEW i \in d.indexes, i.unique, NEW u \in Present, NEW f \in References(catalog[u], t)
        PROVE  f.refs # i.columns
    <2>1. f \in Defined(u, "fks") /\ f.table = t /\ u \in Tables
      BY <1>6 DEF References, WalkingInv, KnownInv, Present
    <2>2. i \in Defined(t, "indexes")
      BY <1>1, <1>6 DEF WalkingInv, KnownInv
    <2>3. QED
      BY <1>1, <1>6, <2>1, <2>2 DEF KeysAreConstraints
  <1> HIDE DEF U, t, d
  <1>7. \A i : i \in Supporting(t) <=> i \in ServerIndexes(d) /\ i.unique /\
            (i.name \in {u.name : u \in d.uniques}
             \/ \E u \in Present : \E f \in References(catalog[u], t) : f.refs = i.columns)
    BY <1>1 DEF Supporting
  <1>8. \A i \in U : i \in Supporting(t)
    BY <1>3, <1>4, <1>7
  <1>9. \A i \in d.indexes : i \notin Supporting(t)
    BY <1>5, <1>6, <1>7
  <1>10. PlainIndexes(t) = ServerIndexes(d) \ Supporting(t)
    BY <1>1 DEF PlainIndexes
  <1>11. PlainIndexes(t) = d.indexes
    BY <1>3, <1>8, <1>9, <1>10
  <1>12. QED
    BY <1>11 DEF t, d

\* The indexes.
LEMMA IndexesExact ==
    ASSUME KeysAreConstraints, WalkingInv, ExactInv, ReadIndexes \/ ReadIndexColumns
    PROVE  ExactInv'
  <1> DEFINE d == Exact(catalog[Reading])
  <1>1. ReadInv /\ PgInv /\ DraftInv /\ ResultInv
    BY DEF WalkingInv, ExactInv
  <1>2. pc \in TableSteps => draft = [x \in Fields |-> draft[x]]
    BY <1>1, ReadingIs
  <1>3. ASSUME pc \in TableSteps, Reading \notin touched
        PROVE  d.indexes = PlainIndexes(Reading) /\ d.indexes = catalog[Reading].indexes
    BY <1>1, <1>3, UntouchedIsThere, ExactIs, FieldsAre, PlainAreIndexes
  <1>4. ASSUME ReadsTable PROVE ResultInv' /\ Reading' = Reading /\ UNCHANGED <<catalog, touched, oid>>
    BY <1>4, ResultStays DEF ReadsTable, Reading, catalogVars
  <1>5. CASE ReadIndexes
    <2> DEFINE F == PlainIndexes(Reading)
    <2>1. /\ ReadsTable /\ draft' = draft /\ pc = "indexes"
          /\ Range(pending') = {[index |-> i, own |-> oid[Reading]] : i \in F}
          /\ pc' = IF F = {} THEN "triggers" ELSE "indexColumns"
      BY <1>1, <1>5, IndexesListed DEF ReadIndexes
    <2>2. pc \in TableSteps /\ draft.indexes = {}
      BY <1>1, <2>1 DEF ReadsTable, DraftInv
    <2>3. {p.index : p \in Range(pending')} = F /\ \A p \in Range(pending') : p.own = oid[Reading]
      <3> DEFINE e(i) == [index |-> i, own |-> oid[Reading]]
      <3>1. Range(pending') = {e(i) : i \in F} /\ \A i \in F : e(i).index = i /\ e(i).own = oid[Reading]
        BY <2>1
      <3> HIDE DEF e, F
      <3>2. QED
        BY <3>1
    <2>4. ASSUME Reading \notin touched, NEW x \in Fields, pc' \in After(x)
          PROVE  draft[x] = d[x]
      <3>1. CASE x = "indexes"
        <4>1. "indexColumns" \notin After("indexes")
          BY DEF After
        <4>2. QED
          BY <1>3, <2>1, <2>2, <2>4, <3>1, <4>1
      <3>2. CASE x # "indexes"
        BY <1>1, <2>1, <2>2, <2>4, <3>2, QueriesInOrder DEF DraftInv
      <3>3. QED
        BY <3>1, <3>2
    <2>5. DraftInv'
      <3>1. Reading \notin touched /\ pc' = "indexColumns" =>
                draft'.indexes \cup {p.index : p \in Range(pending')} = d.indexes
        BY <1>3, <2>1, <2>2, <2>3
      <3> HIDE DEF F
      <3>2. QED
        BY <1>4, <2>1, <2>2, <2>3, <2>4, <3>1, FieldsAre DEF DraftInv, Exact
    <2>6. QED
      BY <1>4, <2>1, <2>5 DEF ExactInv
  <1>6. CASE ReadIndexColumns
    <2> DEFINE p == Head(pending)  e == IndexRead(p)
    <2>1. /\ ReadsTable /\ pc = "indexColumns" /\ pending' = Tail(pending)
          /\ draft' = [draft EXCEPT !.indexes = @ \cup {e}]
          /\ pc' = IF pending' = <<>> THEN "triggers" ELSE "indexColumns"
          /\ Range(pending) = {p} \cup Range(pending')
      BY <1>1, <1>6, IndexColumnsRead DEF ReadIndexColumns
    <2>2. pc \in TableSteps
      BY <2>1 DEF ReadsTable
    <2>3. ASSUME Reading \notin touched PROVE e = p.index
      <3>1. p.index \in catalog[Reading].indexes /\ p.own = oid[Reading]
        BY <1>1, <1>3, <2>1, <2>2, <2>3 DEF DraftInv
      <3>2. Exists(Reading, p.own) /\ p.index \in ServerIndexes(catalog[Reading])
        BY <1>1, <2>2, <2>3, <3>1, UntouchedIsThere DEF Exists, ServerIndexes
      <3>3. QED
        BY <3>2 DEF IndexRead
    <2> HIDE DEF e
    <2>4. /\ draft'.indexes = draft.indexes \cup {e}
          /\ \A x \in Fields \ {"indexes"} : draft'[x] = draft[x]
      BY <1>2, <2>1, <2>2, FieldsAre
    <2>5. ASSUME Reading \notin touched
          PROVE  /\ draft'.indexes \cup {q.index : q \in Range(pending')} = d.indexes
                 /\ \A q \in Range(pending') : q.own = oid[Reading]
      BY <1>1, <2>1, <2>2, <2>3, <2>4, <2>5 DEF DraftInv
    <2>6. ASSUME Reading \notin touched, NEW x \in Fields, pc' \in After(x)
          PROVE  draft'[x] = d[x]
      <3>1. CASE x = "indexes"
        <4>1. "indexColumns" \notin After("indexes")
          BY DEF After
        <4>2. pending' = <<>> /\ Range(pending') = {}
          BY <2>1, <2>6, <3>1, <4>1 DEF Range
        <4>3. QED
          BY <2>5, <2>6, <3>1, <4>2
      <3>2. CASE x # "indexes"
        BY <1>1, <2>1, <2>2, <2>4, <2>6, <3>2, QueriesInOrder DEF DraftInv
      <3>3. QED
        BY <3>1, <3>2
    <2>7. DraftInv'
      BY <1>4, <2>1, <2>2, <2>4, <2>5, <2>6, FieldsAre DEF DraftInv, Exact
    <2>8. QED
      BY <1>4, <2>1, <2>7 DEF ExactInv
  <1>7. QED
    BY <1>5, <1>6

\* The last query about a table: it goes into the result.
LEMMA CommentExact ==
    ASSUME WalkingInv, ExactInv, ReadComment
    PROVE  ExactInv'
  <1> DEFINE table == [draft EXCEPT !.comment = catalog[Reading].comment]
             r == [table |-> Reading, def |-> table]
  <1>1. /\ pc = "comment" /\ pc \in TableSteps /\ Complete(Reading, table, Tail(todo))
    BY FieldsAre DEF ReadComment, TableSteps
  <1>2. draft = [x \in Fields |-> draft[x]] /\ ReadInv
    BY <1>1, ReadingIs DEF WalkingInv
  <1>3. DOMAIN table = Fields
    BY <1>2
  <1>4. ASSUME Reading \notin touched PROVE table = Exact(catalog[Reading])
    <2> DEFINE d == Exact(catalog[Reading])
    <2>1. \A x \in Fields \ {"comment"} : draft[x] = d[x]
      BY <1>1, <1>4, QueriesInOrder DEF ExactInv, DraftInv
    <2>2. d = [x \in Fields |-> d[x]] /\ d.comment = catalog[Reading].comment
      BY <1>1, <1>2, <1>4, UntouchedIsThere, ExactIs, FieldsAre
    <2>3. table = [x \in Fields |-> IF x = "comment" THEN catalog[Reading].comment ELSE draft[x]]
      BY <1>2
    <2> HIDE DEF d, table
    <2>4. QED
      BY <2>1, <2>2, <2>3 DEF d
  <1> HIDE DEF table
  <1>5. \A i \in DOMAIN result' :
            result'[i] = [table |-> Reading, def |-> table]
            \/ (i \in DOMAIN result /\ result'[i] = result[i])
    BY <1>1, <1>2, <1>3, TableRead
  <1>6. UNCHANGED <<catalog, touched>> /\ pc' \in {"columns", AfterTables} /\ draft' = Blank
    BY <1>1 DEF Complete, Unmoved, catalogVars
  <1>7. ResultInv'
    <2>1. ASSUME NEW i \in DOMAIN result', result'[i].table \notin touched
          PROVE  result'[i].def = Exact(catalog[result'[i].table])
      <3>1. CASE result'[i] = [table |-> Reading, def |-> table]
        BY <1>4, <2>1, <3>1
      <3>2. CASE i \in DOMAIN result /\ result'[i] = result[i]
        BY <2>1, <3>2 DEF ExactInv, ResultInv
      <3>3. QED
        BY <1>5, <3>1, <3>2
    <2>2. QED
      BY <1>6, <2>1 DEF ResultInv, Exact
  <1>8. DraftInv'
    <2>1. pc' = "columns" \/ pc' \in {"done", "views"}
      BY <1>6 DEF AfterTables
    <2>2. "done" \notin TableSteps /\ "views" \notin TableSteps
      BY StepsApart DEF AfterReflection, ObjectSteps
    <2>3. QED
      BY <1>6, <2>1, <2>2, NoDraft
  <1>9. QED
    BY <1>7, <1>8 DEF ExactInv

\* Every step keeps what was read of untouched tables exact.
LEMMA NextExact ==
    EnumsAtHome /\ KeysAreConstraints /\ WalkingInv /\ ExactInv /\ [Next]_vars => ExactInv'
  <1> SUFFICES ASSUME EnumsAtHome, KeysAreConstraints, WalkingInv, ExactInv, [Next]_vars
               PROVE  ExactInv'
    OBVIOUS
  <1>1. \A p \in {"schemas", "enums", "list", "failed", "missing", "views", "viewColumns", "sequences",
                  "functions", "done", "copying", "copied", "refused"} : p \notin TableSteps
    BY FieldsAre DEF TableSteps
  <1>2. ASSUME UNCHANGED <<catalogVars, result>>, pc' \notin TableSteps \/ (pc' = "columns" /\ draft' = Blank)
        PROVE  ExactInv'
    BY <1>2, NoDraft, ResultStays DEF ExactInv
  <1>3. CASE UNCHANGED vars
    <2>1. Untouched /\ UNCHANGED <<reflectVars, pc>> /\ UNCHANGED pgVars
      BY <1>3 DEF vars, catalogVars, Untouched
    <2>2. QED
      BY <2>1, OthersExact
  <1>4. CASE Ddl
    <2>1. Untouched /\ UNCHANGED <<reflectVars, pc>> /\ UNCHANGED pgVars
      BY <1>4, OthersWalking DEF Ddl
    <2>2. QED
      BY <2>1, OthersExact
  <1>5. CASE Fail
    BY <1>1, <1>2, <1>5 DEF Fail, GiveUp, Unmoved
  <1>6. CASE Copy
    <2>1. UNCHANGED <<catalogVars, result>> /\ pc' \in {"copying", "copied", "refused"}
      BY <1>6 DEF Copy, StartCopy, Execute, Refuse, Copied, reflectVars
    <2>2. QED
      BY <1>1, <1>2, <2>1
  <1>7. CASE ListSchemasPg \/ LoadEnumTypes \/ LookupFailed \/ NoComment \/ ReadViews \/ ReadSequences
             \/ ReadFunctionsPg
    <2>1. /\ UNCHANGED <<catalogVars, result>>
          /\ pc' \in {"enums", "list", "missing", "sequences", "viewColumns", "functions", "done"}
      BY <1>7 DEF ListSchemasPg, ListSchemas, LoadEnumTypes, LookupFailed, NoComment, GiveUp, ReadViews,
                 ListViews, ReadViewColumns, ReadSequences, ReadFunctionsPg, ReadFunctions, ToObjects, Unmoved
    <2>2. QED
      BY <1>1, <1>2, <2>1
  <1>8. CASE ReadTables
    <2>1. /\ UNCHANGED <<catalogVars, result, draft>> /\ pc = "list"
          /\ pc' \in {"columns", "missing", "views"}
      BY <1>8 DEF ReadTables, ListTables, Unmoved
    <2>2. draft = Blank
      BY <1>1, <2>1 DEF WalkingInv, ReadInv, WalkInv, Failures
    <2>3. QED
      BY <1>1, <1>2, <2>1, <2>2
  <1>9. QED
    BY <1>3, <1>4, <1>5, <1>6, <1>7, <1>8, ColumnsExact, FieldsExact, ForeignKeysExact, IndexesExact,
       CommentExact DEF Next, Reflect

\* Nothing has been read at the beginning.
LEMMA InitExact == Init => ExactInv
  <1> SUFFICES ASSUME Init PROVE ExactInv
    OBVIOUS
  <1>1. result = <<>> /\ pc \in {"schemas", "enums"}
    BY DEF Init, ReflectionInit
  <1>2. pc \notin TableSteps
    BY <1>1, FieldsAre DEF TableSteps
  <1>3. QED
    BY <1>1, <1>2, FieldsAre DEF ExactInv, DraftInv, ResultInv, TableSteps

\* What has been read is exact.
LEMMA ExactlyRead == WalkingInv /\ ExactInv => UntouchedIsExact
  BY TablesOnce, ObjectsOnce DEF WalkingInv, AllCovered, ExactInv, ResultInv, UntouchedIsExact

\* Reflection without a transaction is exact where nobody interferes, if the
\* enum types in the search path are those of the schema and no foreign key
\* references a mere unique index (reflect.rs 37-47, 81-149, 406-411).
THEOREM ReflectionIsExact == EnumsAtHome /\ KeysAreConstraints => (Spec => []UntouchedIsExact)
  <1> SUFFICES ASSUME EnumsAtHome, KeysAreConstraints PROVE Spec => []UntouchedIsExact
    OBVIOUS
  <1>1. WalkingInv /\ FiniteInv /\ ExactInv /\ [Next]_vars => WalkingInv' /\ FiniteInv' /\ ExactInv'
    BY NextWalks, NextExact
  <1>2. QED
    BY InitExact, ExactlyRead, <1>1, InitWalking, InitFinite, PTL DEF Spec

-----------------------------------------------------------------------------
(* The copy.                                                               *)

\* The copy of a table nobody changed has what its statements have made so far.
CopyingInv ==
    /\ DefinedInv
    /\ pc \notin CopyStates => target = Gone
    /\ pc \in CopyStates /\ subject \notin touched \cup {Every} =>
          /\ subject \in Present /\ pc # "refused" /\ (pc = "copied" => script = <<>>)
          /\ \E b : b = Created(Exact(catalog[subject])) /\ Making(b, Elements)

\* What is copied of a table: an enum type in the search path becomes text.
LEMMA CopiedIs ==
    ASSUME CatalogInv, DefinedInv, NEW t \in Present \ touched
    PROVE  LET c == catalog[t]  b == Created(Exact(c)) IN
           /\ t \in Tables /\ IsDefinition(c) /\ c \in Definitions[t] \ {Gone}
           /\ \A field \in Fields \ {"columns"} : b[field] = c[field]
           /\ b.columns = [x \in ColumnNames(c) |->
                             IF c.columns[x] \in DOMAIN Enums /\ Enums[c.columns[x]].onPath
                             THEN "plain" ELSE c.columns[x]]
  <1> DEFINE c == catalog[t]  e == Exact(c)  b == Created(e)
  <1>1. t \in Tables /\ IsDefinition(c) /\ c \in Definitions[t] \ {Gone}
    BY DEF Present, CatalogInv, DefinedInv
  <1> HIDE DEF c
  <1>2. /\ e = [field \in Fields |-> e[field]]
        /\ \A field \in Fields \ {"columns"} : e[field] = c[field]
        /\ e.columns = [x \in DOMAIN c.columns |->
              IF c.columns[x] \in DOMAIN Enums /\ ~Enums[c.columns[x]].onPath
              THEN Enums[c.columns[x]].qualified ELSE c.columns[x]]
    BY <1>1, ExactIs
  <1> HIDE DEF e
  <1>3. /\ \A field \in Fields \ {"columns"} : b[field] = e[field]
        /\ b.columns = [x \in DOMAIN e.columns |-> Rendered(e.columns[x])]
    BY <1>2, CreatedFields
  <1> HIDE DEF b
  <1>4. ASSUME NEW x \in DOMAIN c.columns
        PROVE  Rendered(e.columns[x]) = IF c.columns[x] \in DOMAIN Enums /\ Enums[c.columns[x]].onPath
                                        THEN "plain" ELSE c.columns[x]
    <2> DEFINE k == c.columns[x]
    <2>1. k \in ColumnKinds
      BY <1>1, EnumAssumption DEF ColumnNames
    <2>2. e.columns[x] = IF k \in DOMAIN Enums /\ ~Enums[k].onPath THEN Enums[k].qualified ELSE k
      BY <1>2
    <2> HIDE DEF k
    <2>3. CASE k \in DOMAIN Enums /\ ~Enums[k].onPath
      <3> DEFINE q == Enums[k].qualified
      <3>1. e.columns[x] = q /\ q \notin DOMAIN Enums
        BY <2>2, <2>3, EnumAssumption DEF ColumnKinds
      <3>2. \A g \in DOMAIN Enums : Enums[g].qualified = q => g = k
        BY <2>3, EnumAssumption
      <3>3. Rendered(q) = k
        BY <2>3, <3>1, <3>2 DEF Rendered
      <3>4. QED
        BY <2>3, <3>1, <3>3 DEF k
    <2>4. CASE k \in DOMAIN Enums /\ Enums[k].onPath
      BY <2>2, <2>4 DEF Rendered, k
    <2>5. CASE k \notin DOMAIN Enums
      <3>1. \A g \in DOMAIN Enums : Enums[g].qualified # k
        BY <2>1, EnumAssumption
      <3>2. QED
        BY <2>2, <2>5, <3>1 DEF Rendered, k
    <2>6. QED
      BY <2>3, <2>4, <2>5
  <1>5. DOMAIN e.columns = DOMAIN c.columns
    BY <1>2
  <1>6. b.columns = [x \in ColumnNames(c) |->
                       IF c.columns[x] \in DOMAIN Enums /\ Enums[c.columns[x]].onPath
                       THEN "plain" ELSE c.columns[x]]
    BY <1>3, <1>4, <1>5 DEF ColumnNames
  <1>7. QED
    BY <1>1, <1>2, <1>3, <1>6 DEF c, e, b

\* It can be copied.
LEMMA CopyableIs ==
    ASSUME KeysAreConstraints, IdentitiesInKey, CatalogInv, DefinedInv, subject \in Present \ touched
    PROVE  Copyable(Created(Exact(catalog[subject])), Elements)
  <1> DEFINE c == catalog[subject]  b == Created(Exact(c))
  <1>1. /\ subject \in Tables /\ IsDefinition(c) /\ c \in Definitions[subject] \ {Gone}
        /\ \A field \in Fields \ {"columns"} : b[field] = c[field]
        /\ b.columns = [x \in ColumnNames(c) |->
                          IF c.columns[x] \in DOMAIN Enums /\ Enums[c.columns[x]].onPath
                          THEN "plain" ELSE c.columns[x]]
    BY CopiedIs
  <1>2. /\ \A e \in c.uniques \cup c.indexes \cup c.fks \cup c.checks \cup c.exclusions :
               e.columns \subseteq ColumnNames(c)
        /\ \A f \in c.fks : catalog[f.table] # Gone /\ f.refs \in KeysOf(catalog[f.table])
    BY <1>1 DEF CatalogInv, CatalogTypeOK, WellFormed, Present
  <1>3. /\ c.uniques \subseteq Constraints /\ c.checks \subseteq Constraints
        /\ c.exclusions \subseteq Constraints /\ c.indexes \subseteq Indexes /\ c.fks \subseteq ForeignKeys
        /\ \A i, j \in c.uniques \cup c.indexes : i.name = j.name => i = j
    BY <1>1 DEF IsDefinition
  <1>4. c.indexes \subseteq Defined(subject, "indexes") /\ c.fks \subseteq Defined(subject, "fks")
    BY <1>1, DefinitionsKeep, FieldsAre
  <1> HIDE DEF b
  <1>5. ColumnNames(b) = ColumnNames(c) /\ b.pk = c.pk /\ b.uniques = c.uniques /\ b.indexes = c.indexes
        /\ b.fks = c.fks /\ b.checks = c.checks /\ b.exclusions = c.exclusions
    BY <1>1, FieldsAre DEF ColumnNames
  <1>6. \A f \in c.fks : f.table = subject => f.refs \in KeysOf(c)
    BY <1>2
  <1> HIDE DEF c
  <1>7. \A kind \in Elements : \A e \in b[kind] : e.columns # {} /\ e.columns \subseteq ColumnNames(b)
    <2>1. \A e \in c.uniques \cup c.indexes \cup c.fks \cup c.checks \cup c.exclusions :
              e.columns # {} /\ e.columns \subseteq ColumnNames(b)
      BY <1>2, <1>3, <1>5 DEF Constraints, Indexes, ForeignKeys, ColumnSets
    <2>2. QED
      BY <1>5, <2>1 DEF Elements
  <1>8. b.uniques \cap b.indexes = {}
    BY <1>3, <1>5 DEF Constraints, Indexes
  <1>9. \A i, j \in b.uniques \cup b.indexes : i.name = j.name => i = j
    BY <1>3, <1>5
  <1>10. ASSUME NEW f \in c.fks, f.table = subject
         PROVE  f.refs \in ({c.pk} \ {{}}) \cup {u.columns : u \in c.uniques}
    <2>1. \A i \in c.indexes : i.unique => f.refs # i.columns
      BY <1>1, <1>4, <1>10 DEF KeysAreConstraints
    <2>2. QED
      BY <1>6, <1>10, <2>1 DEF KeysOf
  <1>11. ASSUME KeyedIdentity, NEW x \in ColumnNames(b), b.columns[x] = "identity"
         PROVE  x \in b.pk
    <2>1. x \in ColumnNames(c) /\ c.columns[x] = "identity"
      BY <1>1, <1>5, <1>11
    <2>2. QED
      BY <1>1, <1>5, <1>11, <2>1 DEF IdentitiesInKey
  <1>12. QED
    BY <1>5, <1>7, <1>8, <1>9, <1>10, <1>11 DEF Copyable, b, c

\* Nobody but the caller that makes the copy has anything to do with it.
LEMMA OthersCopy ==
    ASSUME Ddl \/ Reflect \/ Fail
    PROVE  pc \notin CopyStates /\ pc' \notin CopyStates /\ UNCHANGED copyVars
  <1>1. CASE Ddl \/ Fail
    BY <1>1 DEF Ddl, Fail, Ended, GiveUp, Unmoved, CopyStates, copyVars
  <1>2. CASE Reflect
    <2>1. CASE ListSchemasPg \/ LoadEnumTypes \/ ReadTables \/ ReadColumns \/ ReadPrimaryKey
      BY <2>1 DEF ListSchemasPg, ListSchemas, LoadEnumTypes, ReadTables, ListTables, ReadColumns,
                 ReadPrimaryKey, Query, Unmoved, CopyStates
    <2>2. CASE ReadForeignKeys \/ LookupFailed \/ LookupColumns \/ LookupRefs
      BY <2>2 DEF ReadForeignKeys, NextLookup, LookupFailed, LookupColumns, LookupRefs, GiveUp, Unmoved, CopyStates
    <2>3. CASE ReadUniques \/ ReadChecks \/ ReadExclusions \/ ReadIndexes \/ ReadIndexColumns \/ ReadTriggers
      BY <2>3 DEF ReadUniques, ReadChecks, ReadExclusions, ReadIndexes, ReadIndexColumns, ReadTriggers, Query,
                 Unmoved, CopyStates
    <2>4. CASE ReadComment \/ NoComment
      BY <2>4 DEF ReadComment, NoComment, Complete, AfterTables, GiveUp, Unmoved, CopyStates
    <2>5. CASE ReadViews \/ ReadSequences \/ ReadFunctionsPg
      BY <2>5 DEF ReadViews, ListViews, ReadViewColumns, ReadSequences, ReadFunctionsPg, ReadFunctions,
                 ToObjects, Unmoved, CopyStates
    <2>6. QED
      BY <1>2, <2>1, <2>2, <2>3, <2>4, <2>5 DEF Reflect
  <1>3. QED
    BY <1>1, <1>2

\* Reading changes nothing in the schema.
LEMMA ReadsNoMore == ASSUME Reflect \/ Fail PROVE UNCHANGED <<catalog, touched>>
  BY DEF Reflect, Fail, ListSchemasPg, ListSchemas, LoadEnumTypes, ReadTables, ListTables, ReadColumns,
         ReadPrimaryKey, ReadForeignKeys, LookupFailed, LookupColumns, LookupRefs, ReadUniques, ReadChecks,
         ReadExclusions, ReadIndexes, ReadIndexColumns, ReadTriggers, Query, ReadComment, NoComment, Complete,
         GiveUp, ReadViews, ListViews, ReadViewColumns, ReadSequences, ReadFunctionsPg, ReadFunctions,
         ToObjects, Unmoved, catalogVars

\* The copy begins,
LEMMA CopyBegins ==
    ASSUME WalkingInv, FiniteInv, ResultInv, CopyingInv, StartCopy
    PROVE  CopyingInv'
  <1>1. PICK i \in DOMAIN result : subject' = result[i].table /\ script' = RenderDdl(result[i].def)
    BY DEF StartCopy
  <1>2. /\ pc = "done" /\ pc' = "copying" /\ UNCHANGED <<catalog, touched, target>>
    BY DEF StartCopy, catalogVars
  <1>3. target = Gone /\ DefinedInv'
    BY <1>2 DEF CopyingInv, CopyStates, DefinedInv
  <1> SUFFICES ASSUME subject' \notin touched' \cup {Every}
               PROVE  /\ (subject \in Present)'
                      /\ \E b : b = Created(Exact(catalog[subject]))' /\ Making(b, Elements)'
    BY <1>2, <1>3 DEF CopyingInv, CopyStates
  <1> DEFINE t == result[i].table
  <1>4. /\ t \in Tables /\ DOMAIN result[i].def = Fields /\ FiniteParts(result[i].def)
        /\ result[i].def = Exact(catalog[t])
    BY <1>1, <1>2 DEF WalkingInv, ReadInv, TablesInv, FiniteInv, ResultInv
  <1>5. t \in Present
    <2>1. DOMAIN Exact(catalog[t]) = DOMAIN catalog[t]
      BY DEF Exact
    <2>2. QED
      BY <1>4, <2>1, CatalogAssumption DEF Present
  <1>6. PICK b : b = Created(result[i].def)
    OBVIOUS
  <1>7. b = Created(Exact(catalog[subject]))' /\ (subject \in Present)'
    <2>1. subject' = t /\ catalog' = catalog
      BY <1>1, <1>2
    <2> HIDE DEF t
    <2>2. Exact(catalog[subject])' = Exact(catalog[t])
      BY <2>1 DEF Exact
    <2>3. Created(Exact(catalog[subject]))' = Created(Exact(catalog[t]))
      BY <2>1, <2>2 DEF Created
    <2>4. (subject \in Present)'
      BY <1>5, <2>1 DEF Present
    <2>5. QED
      BY <1>4, <1>6, <2>3, <2>4
  <1>8. Making(b, Elements)'
    BY <1>1, <1>2, <1>3, <1>4, <1>6, RenderedAre DEF Making
  <1>9. QED
    BY <1>7, <1>8

\* and goes on.
LEMMA CopyingGoesOn ==
    ASSUME KeysAreConstraints, IdentitiesInKey, WalkingInv, CopyingInv, Execute \/ Refuse \/ Copied
    PROVE  CopyingInv'
  <1>1. /\ pc = "copying" /\ pc' \in CopyStates /\ UNCHANGED <<catalog, touched, subject>>
    BY DEF Execute, Refuse, Copied, CopyStates, catalogVars, copyVars
  <1> SUFFICES ASSUME subject' \notin touched' \cup {Every}
               PROVE  /\ (subject \in Present)' /\ pc' # "refused" /\ (pc' = "copied" => script' = <<>>)
                      /\ \E b : b = Created(Exact(catalog[subject]))' /\ Making(b, Elements)'
    BY <1>1 DEF CopyingInv, DefinedInv
  <1>2. subject \in Present \ touched
    BY <1>1 DEF CopyingInv, CopyStates
  <1>3. PICK b : b = Created(Exact(catalog[subject])) /\ Making(b, Elements)
    BY <1>1 DEF CopyingInv, CopyStates
  <1>4. b = Created(Exact(catalog[subject]))' /\ (subject \in Present)'
    BY <1>1, <1>2, <1>3 DEF Created, Exact, Present
  <1>5. ElementKinds(Elements)
    BY DEF ElementKinds, Elements
  <1>6. script # <<>> => Accepts(Head(script)[1], Head(script)[2])
    BY <1>2, <1>3, <1>5, CopyableIs, NextAccepted DEF WalkingInv, ReadInv, CopyingInv
  <1>7. ~Refuse
    BY <1>6 DEF Refuse
  <1>8. CASE Execute
    BY <1>1, <1>3, <1>4, <1>5, <1>8, MakingGoesOn DEF Execute
  <1>9. CASE Copied
    BY <1>3, <1>4, <1>9, MakingStays DEF Copied, copyVars
  <1>10. QED
    BY <1>7, <1>8, <1>9

\* Every step keeps the copy on its way.
LEMMA NextCopying ==
    KeysAreConstraints /\ IdentitiesInKey /\ WalkingInv /\ FiniteInv /\ ExactInv /\ CopyingInv /\ [Next]_vars
        => CopyingInv'
  <1> SUFFICES ASSUME KeysAreConstraints, IdentitiesInKey, WalkingInv, FiniteInv, ExactInv, CopyingInv, [Next]_vars
               PROVE  CopyingInv'
    OBVIOUS
  <1>1. CASE Ddl \/ Reflect \/ Fail
    <2>1. DefinedInv'
      <3>1. CASE Ddl
        BY <3>1, OthersWalking, DefinedStays DEF CopyingInv
      <3>2. CASE Reflect \/ Fail
        <4>1. UNCHANGED <<catalog, touched>>
          BY <3>2, ReadsNoMore
        <4>2. QED
          BY <4>1 DEF CopyingInv, DefinedInv
      <3>3. QED
        BY <1>1, <3>1, <3>2
    <2>2. QED
      BY <1>1, <2>1, OthersCopy DEF CopyingInv, copyVars
  <1>2. CASE Copy
    BY <1>2, CopyBegins, CopyingGoesOn DEF Copy, ExactInv
  <1>3. CASE UNCHANGED vars
    <2>1. UNCHANGED <<catalog, touched, pc, subject, script, target>>
      BY <1>3 DEF vars, catalogVars, copyVars
    <2>2. \A b : b = Created(Exact(catalog[subject])) /\ Making(b, Elements)
                     => b = Created(Exact(catalog[subject]))' /\ Making(b, Elements)'
      BY <2>1, MakingStays DEF Created, Exact
    <2>3. Present' = Present /\ DefinedInv'
      BY <2>1 DEF Present, CopyingInv, DefinedInv
    <2>4. QED
      BY <2>1, <2>2, <2>3 DEF CopyingInv
  <1>4. QED
    BY <1>1, <1>2, <1>3 DEF Next

\* No copy is made at the beginning.
LEMMA InitCopying == Init => CopyingInv
  BY DEF Init, ReflectionInit, CatalogInit, CopyingInv, DefinedInv, CopyStates

\* A copy that is made has everything.
LEMMA IdenticallyCopied == WalkingInv /\ CopyingInv => CopyIsIdentical
  <1> SUFFICES ASSUME WalkingInv, CopyingInv, subject \notin touched \cup {Every}, pc \in CopyStates
               PROVE  /\ pc # "refused"
                      /\ pc = "copied" =>
                            /\ \A field \in CopiedFields \ {"columns"} :
                                  target[field] = catalog[subject][field]
                            /\ target.columns = [c \in ColumnNames(catalog[subject]) |->
                                                   LET kind == catalog[subject].columns[c] IN
                                                   IF kind \in DOMAIN Enums /\ Enums[kind].onPath
                                                   THEN "plain" ELSE kind]
    BY DEF CopyIsIdentical, CopyStates
  <1>1. pc # "refused"
    BY DEF CopyingInv
  <1>2. ASSUME pc = "copied"
        PROVE  /\ \A field \in CopiedFields \ {"columns"} : target[field] = catalog[subject][field]
               /\ target.columns = [c \in ColumnNames(catalog[subject]) |->
                                      LET kind == catalog[subject].columns[c] IN
                                      IF kind \in DOMAIN Enums /\ Enums[kind].onPath THEN "plain" ELSE kind]
    <2>1. PICK b : b = Created(Exact(catalog[subject])) /\ Making(b, Elements)
      BY DEF CopyingInv
    <2>2. script = <<>> /\ subject \in Present \ touched
      BY <1>2 DEF CopyingInv
    <2>3. target.columns = b.columns /\ target.pk = b.pk /\ \A kind \in Elements : target[kind] = b[kind]
      BY <2>1, <2>2, MadeInTheEnd
    <2>4. CopiedFields \ {"columns"} = {"pk"} \cup Elements
      BY FieldsAre DEF CopiedFields, Elements
    <2>5. \A field \in CopiedFields \ {"columns"} : field \in Fields /\ field # "columns"
      BY DEF CopiedFields
    <2>6. QED
      BY <2>1, <2>2, <2>3, <2>4, <2>5, CopiedIs DEF WalkingInv, ReadInv, CopyingInv
  <1>3. QED
    BY <1>1, <1>2

\* The statements of render_ddl are accepted in the order they come in, and make
\* the table that was reflected, but for enum columns that become text; if the
\* server wants identity columns in a key, that is the primary key (ddl.rs 59-62,
\* 105-193).
THEOREM CopiesAreIdentical ==
    EnumsAtHome /\ KeysAreConstraints /\ IdentitiesInKey => (Spec => []CopyIsIdentical)
  <1> SUFFICES ASSUME EnumsAtHome, KeysAreConstraints, IdentitiesInKey PROVE Spec => []CopyIsIdentical
    OBVIOUS
  <1>1. WalkingInv /\ FiniteInv /\ ExactInv /\ CopyingInv /\ [Next]_vars
            => WalkingInv' /\ FiniteInv' /\ ExactInv' /\ CopyingInv'
    BY NextWalks, NextExact, NextCopying
  <1>2. QED
    BY <1>1, IdenticallyCopied, InitWalking, InitFinite, InitExact, InitCopying, PTL DEF Spec

-----------------------------------------------------------------------------
(* Either engine.                                                          *)

\* A definition is one on both engines.
LEMMA MyDefinition == \A d : MyP!IsDefinition(d) <=> IsDefinition(d)
  BY Zenon DEF MyP!IsDefinition, IsDefinition, MyP!Fields, Fields, MyP!Blank, Blank, MyP!ColumnNames, ColumnNames,
         MyP!Constraints, Constraints, MyP!Indexes, Indexes, MyP!ForeignKeys, ForeignKeys,
         MyP!ColumnSets, ColumnSets, IsFiniteSet, MyP!IsFiniteSet

\* The reflection proved about is the one of the pair: both are instances of the
\* same module.
LEMMA MyInit == My!Init <=> MyP!Init
  BY Zenon
  DEF My!Init, MyP!Init, My!ReflectionInit, MyP!ReflectionInit, My!CatalogInit, MyP!CatalogInit,
      My!Blank, MyP!Blank, My!ColumnNames, MyP!ColumnNames, My!WellFormed, MyP!WellFormed,
      My!IdentityAllowed, MyP!IdentityAllowed, My!KeysOf, MyP!KeysOf

\* So are the statements of others,
LEMMA MyDdl == My!Ddl <=> MyP!Ddl
  BY Zenon
  DEF My!Ddl, MyP!Ddl, My!Ended, MyP!Ended, My!Ends, MyP!Ends, My!CopyStates, MyP!CopyStates,
      My!reflectVars, MyP!reflectVars, My!objectVars, MyP!objectVars, My!copyVars, MyP!copyVars,
      My!CommonDdl, MyP!CommonDdl, My!CreateTable, MyP!CreateTable, My!CreateIndex,
      MyP!CreateIndex, My!AddColumn, MyP!AddColumn, My!AddConstraint, MyP!AddConstraint,
      My!DropConstraint, MyP!DropConstraint, My!DropIndex, MyP!DropIndex, My!ChangeObject,
      MyP!ChangeObject, My!Define, MyP!Define, My!Kinds, MyP!Kinds, My!Present, MyP!Present,
      My!Missing, MyP!Missing, My!Defined, MyP!Defined, My!UsedNames, MyP!UsedNames, My!With,
      MyP!With, My!WithKey, MyP!WithKey, My!DropColumn, MyP!DropColumn, My!Reduced, MyP!Reduced,
      My!AlterColumnType, MyP!AlterColumnType, My!DropTable, MyP!DropTable, My!Blank, MyP!Blank,
      My!ColumnNames, MyP!ColumnNames, My!WellFormed, MyP!WellFormed, My!IdentityAllowed,
      MyP!IdentityAllowed, My!KeysOf, MyP!KeysOf

\* the queries of a reflection,
LEMMA MyReflect == My!Reflect <=> MyP!Reflect
  BY Zenon
  DEF My!Reflect, MyP!Reflect, My!Same, MyP!Same, My!Unmoved, MyP!Unmoved, My!catalogVars,
      MyP!catalogVars, My!copyVars, MyP!copyVars, My!objectVars, MyP!objectVars, My!ListSchemasMy,
      MyP!ListSchemasMy, My!ListSchemas, MyP!ListSchemas, My!ReadTables, MyP!ReadTables,
      My!ListTables, MyP!ListTables, My!AtHome, MyP!AtHome, My!SetToSeq, MyP!SetToSeq,
      My!Cardinality, MyP!Cardinality, My!IsInjective, MyP!IsInjective, My!Present, MyP!Present,
      My!Reading, MyP!Reading, My!Query, MyP!Query, My!Put, MyP!Put, My!Seen, MyP!Seen, My!Blank,
      MyP!Blank, My!ReadColumns, MyP!ReadColumns, My!ReadPrimaryKey, MyP!ReadPrimaryKey,
      My!ReadForeignKeys, MyP!ReadForeignKeys, My!ReadUniques, MyP!ReadUniques, My!ReadChecks,
      MyP!ReadChecks, My!ChecksUnreadable, MyP!ChecksUnreadable, My!ReadIndexes, MyP!ReadIndexes,
      My!PlainIndexes, MyP!PlainIndexes, My!ServerIndexes, MyP!ServerIndexes, My!Implicit,
      MyP!Implicit, My!ReadTriggers, MyP!ReadTriggers, My!CommentOf, MyP!CommentOf, My!Complete,
      MyP!Complete, My!AfterTables, MyP!AfterTables, My!ReadViews, MyP!ReadViews, My!ListViews,
      MyP!ListViews, My!ReadViewColumns, MyP!ReadViewColumns, My!Entries, MyP!Entries, My!Entry,
      MyP!Entry, My!ToObjects, MyP!ToObjects, My!ToSequences, MyP!ToSequences, My!ListSequences,
      MyP!ListSequences, My!SequencesUnlisted, MyP!SequencesUnlisted, My!ReadSequence,
      MyP!ReadSequence, My!NoSequence, MyP!NoSequence, My!GiveUp, MyP!GiveUp, My!ReadFunctionsMy,
      MyP!ReadFunctionsMy, My!ReadFunctions, MyP!ReadFunctions

\* its failures,
LEMMA MyFail == My!Fail <=> MyP!Fail
  BY Zenon
  DEF My!Fail, MyP!Fail, My!Ended, MyP!Ended, My!Ends, MyP!Ends, My!CopyStates, MyP!CopyStates,
      My!GiveUp, MyP!GiveUp, My!Same, MyP!Same, My!Unmoved, MyP!Unmoved, My!catalogVars,
      MyP!catalogVars, My!copyVars, MyP!copyVars, My!objectVars, MyP!objectVars

\* and the copy.
LEMMA MyCopy == My!Copy <=> MyP!Copy
  BY Zenon
  DEF My!Copy, MyP!Copy, My!StartCopy, MyP!StartCopy, My!Execute, MyP!Execute, My!Refuse,
      MyP!Refuse, My!Copied, MyP!Copied, My!Same, MyP!Same, My!catalogVars, MyP!catalogVars,
      My!reflectVars, MyP!reflectVars, My!objectVars, MyP!objectVars, My!copyVars, MyP!copyVars,
      My!RenderDdl, MyP!RenderDdl, My!Statements, MyP!Statements, My!SetToSeq, MyP!SetToSeq,
      My!Cardinality, MyP!Cardinality, My!IsInjective, MyP!IsInjective, My!Applied, MyP!Applied,
      My!Accepts, MyP!Accepts, My!UsedNames, MyP!UsedNames, My!Blank, MyP!Blank, My!ColumnNames,
      MyP!ColumnNames, My!IdentityAllowed, MyP!IdentityAllowed, My!KeysOf, MyP!KeysOf

\* The assumptions MySqlSchemaProofs makes about its constants hold here.
LEMMA MyAssumptions ==
    /\ MaxDdl \in Nat /\ TRUE \in BOOLEAN
    /\ MyP!IsFiniteSet(Tables) /\ DOMAIN MyDefinitions = Tables /\ DOMAIN Gone # MyP!Fields
    /\ \A t \in Tables : \A d \in MyDefinitions[t] \ {Gone} : MyP!IsDefinition(d)
    /\ DOMAIN Objects = MyP!Kinds /\ MyP!ObjectNames \cap Tables = {}
    /\ \A k \in MyP!Kinds : MyP!IsFiniteSet(Objects[k])
    /\ \A k, l \in MyP!Kinds : k # l => Objects[k] \cap Objects[l] = {}
    /\ Schemas \in Seq(MyP!Range(Schemas)) /\ MyP!IsInjective(Schemas)
    /\ Home \in MyP!Range(Schemas)
    /\ {Every, Whole} \cap Tables = {} /\ Every # Whole
  <1>1. \A S : MyP!IsFiniteSet(S) <=> IsFiniteSet(S)
    BY Zenon DEF MyP!IsFiniteSet, IsFiniteSet
  <1>2. /\ MyP!Range(Schemas) = Range(Schemas)
        /\ MyP!IsInjective(Schemas) <=> IsInjective(Schemas)
    BY Zenon DEF MyP!Range, Range, MyP!IsInjective, IsInjective
  <1>3. MyP!Fields = Fields /\ MyP!Kinds = Kinds
    BY Zenon DEF MyP!Fields, Fields, MyP!Blank, Blank, MyP!Kinds, Kinds
  <1>4. MyP!ObjectNames = ObjectNames
    BY Zenon, <1>3 DEF MyP!ObjectNames, ObjectNames
  <1>5. QED
    BY <1>1, <1>2, <1>3, <1>4, MyDefinition, MyDefinitionsAssumption, CatalogAssumption, SchemasAssumption


\* What is promised of the reflection proved about is promised of that of the pair.
LEMMA MyPromises ==
    /\ MyP!TypeOK => My!TypeOK
    /\ MyP!UntouchedIsExact => My!UntouchedIsExact
    /\ MyP!CopyIsIdentical => My!CopyIsIdentical
  <1>1. MyP!TypeOK => My!TypeOK
    BY Zenon
    DEF My!TypeOK, MyP!TypeOK, My!ReflectionTypeOK, MyP!ReflectionTypeOK, My!CatalogTypeOK,
        MyP!CatalogTypeOK, My!Fields, MyP!Fields, My!Kinds, MyP!Kinds, My!ObjectNames,
        MyP!ObjectNames, My!Range, MyP!Range, My!Ends, MyP!Ends, My!CopyStates, MyP!CopyStates,
        My!AfterReflection, MyP!AfterReflection, My!Blank, MyP!Blank, My!ColumnNames,
        MyP!ColumnNames, My!WellFormed, MyP!WellFormed, My!IdentityAllowed, MyP!IdentityAllowed,
        My!KeysOf, MyP!KeysOf
  <1>2. MyP!UntouchedIsExact => My!UntouchedIsExact
    BY Zenon
    DEF My!UntouchedIsExact, MyP!UntouchedIsExact, My!ReadOnce, MyP!ReadOnce, My!ObjectsExact,
        MyP!ObjectsExact, My!NoSequences, MyP!NoSequences, My!Exact, MyP!Exact, My!Implicit,
        MyP!Implicit, My!Entry, MyP!Entry, My!Range, MyP!Range, My!Present, MyP!Present,
        My!Cardinality, MyP!Cardinality, My!AfterReflection, MyP!AfterReflection, My!CopyStates,
        MyP!CopyStates
  <1>3. MyP!CopyIsIdentical => My!CopyIsIdentical
    BY Zenon
    DEF My!CopyIsIdentical, MyP!CopyIsIdentical, My!ServerIndexes, MyP!ServerIndexes, My!Implicit, MyP!Implicit
  <1>4. QED
    BY <1>1, <1>2, <1>3

-----------------------------------------------------------------------------

\* What is kept by the engine behind the connection.
EnginesInv ==
    /\ engine = "pg" => WalkingInv /\ FiniteInv
    /\ engine = "my" => MyP!WalkingInv

\* What was read exactly by it.
EnginesExactInv ==
    /\ engine = "pg" => ExactInv
    /\ engine = "my" => MyP!ExactInv

\* What it makes of a copy.
EnginesCopyingInv ==
    /\ engine = "pg" => CopyingInv
    /\ engine = "my" => MyP!CopyingInv

\* A step of the pair is a step of the reflection of its engine.
LEMMA EngineStep ==
    ASSUME [EnginesNext]_engineVars
    PROVE  /\ engine' = engine
           /\ engine = "pg" => [Next]_vars
           /\ engine = "my" => [MyP!Next]_MyP!vars
  <1>1. CASE OnPg /\ Next
    BY <1>1 DEF OnPg
  <1>2. CASE OnMy /\ My!Next
    <2>1. MyP!Next
      BY <1>2, MyDdl, MyReflect, MyFail, MyCopy DEF My!Next, MyP!Next
    <2>2. QED
      BY <1>2, <2>1 DEF OnMy
  <1>3. CASE UNCHANGED engineVars
    <2>1. engine' = engine /\ UNCHANGED vars
      BY <1>3 DEF engineVars
    <2>2. UNCHANGED MyP!vars
      BY <1>3 DEF engineVars, vars, MyP!vars, catalogVars, MyP!catalogVars, reflectVars, MyP!reflectVars,
             objectVars, MyP!objectVars, copyVars, MyP!copyVars
    <2>3. QED
      BY <2>1, <2>2
  <1>4. QED
    BY <1>1, <1>2, <1>3 DEF EnginesNext

\* The invariant holds before the first query,
LEMMA EnginesInitially == EnginesInit => EnginesInv
  BY InitWalking, InitFinite, MyP!InitWalking, MyAssumptions, MyInit DEF EnginesInit, EnginesInv

\* and every step keeps it.
LEMMA EnginesWalk == EnginesInv /\ [EnginesNext]_engineVars => EnginesInv'
  <1>1. MyP!WalkingInv /\ [MyP!Next]_MyP!vars => MyP!WalkingInv'
    BY MyP!NextWalks, MyAssumptions
  <1>2. QED
    BY <1>1, EngineStep, NextWalks DEF EnginesInv

\* Whichever engine is behind the connection, what the call has read is well
\* formed throughout (reflect.rs 81-149; MySQL reflect.rs 54-101).
THEOREM EnginesTypeCorrectness == EnginesSpec => []EnginesTypeOK
  <1>1. EnginesInv => EnginesTypeOK
    <2>1. WalkingInv => TypeOK
      BY WalkingTypes
    <2>2. MyP!WalkingInv => MyP!TypeOK
      BY MyP!WalkingTypes, MyAssumptions
    <2>3. QED
      BY <2>1, <2>2, MyPromises DEF EnginesInv, EnginesTypeOK
  <1>2. QED
    BY <1>1, EnginesInitially, EnginesWalk, PTL DEF EnginesSpec

\* What was read exactly stays so.
LEMMA EnginesReadExactly ==
    ASSUME EnumsAtHome, KeysAreConstraints, MyP!MySqlDefinitions
    PROVE  /\ EnginesInit => EnginesExactInv
           /\ EnginesInv /\ EnginesExactInv /\ [EnginesNext]_engineVars => EnginesExactInv'
  <1>1. EnginesInit => EnginesExactInv
    BY InitExact, MyP!InitExact, MyAssumptions, MyInit DEF EnginesInit, EnginesExactInv
  <1>2. MyP!WalkingInv /\ MyP!ExactInv /\ [MyP!Next]_MyP!vars => MyP!ExactInv'
    BY MyP!NextExact, MyAssumptions
  <1>3. QED
    BY <1>1, <1>2, EngineStep, NextExact DEF EnginesInv, EnginesExactInv

\* Whichever engine is behind the connection: a table, view, sequence or function
\* nobody changes during the call is in its result once and exactly.
THEOREM EitherReflectsExactly ==
    EnumsAtHome /\ KeysAreConstraints /\ MyP!MySqlDefinitions => (EnginesSpec => []EitherIsExact)
  <1> SUFFICES ASSUME EnumsAtHome, KeysAreConstraints, MyP!MySqlDefinitions
               PROVE  EnginesSpec => []EitherIsExact
    OBVIOUS
  <1>1. EnginesInv /\ EnginesExactInv => EitherIsExact
    <2>1. MyP!WalkingInv /\ MyP!ExactInv => MyP!UntouchedIsExact
      BY MyP!ExactlyRead, MyAssumptions
    <2>2. QED
      BY <2>1, ExactlyRead, MyPromises DEF EnginesInv, EnginesExactInv, EitherIsExact
  <1>2. QED
    BY <1>1, EnginesReadExactly, EnginesInitially, EnginesWalk, PTL DEF EnginesSpec

\* Whichever engine is behind the connection: the rendered statements are accepted
\* by it and make the table that was reflected, where every identity column is in
\* the primary key.
THEOREM EitherCopiesIdentically ==
    EnumsAtHome /\ KeysAreConstraints /\ IdentitiesInKey /\ MyP!MySqlDefinitions /\ MyP!IdentitiesInKey
        => (EnginesSpec => []EitherCopyIsIdentical)
  <1> SUFFICES ASSUME EnumsAtHome, KeysAreConstraints, IdentitiesInKey,
                      MyP!MySqlDefinitions, MyP!IdentitiesInKey
               PROVE  EnginesSpec => []EitherCopyIsIdentical
    OBVIOUS
  <1>1. EnginesInit => EnginesCopyingInv
    BY InitCopying, MyP!InitCopying, MyAssumptions, MyInit DEF EnginesInit, EnginesCopyingInv
  <1>2. EnginesInv /\ EnginesExactInv /\ EnginesCopyingInv /\ [EnginesNext]_engineVars => EnginesCopyingInv'
    <2>1. MyP!WalkingInv /\ MyP!ExactInv /\ MyP!CopyingInv /\ [MyP!Next]_MyP!vars => MyP!CopyingInv'
      BY MyP!NextCopying, MyAssumptions
    <2>2. QED
      BY <2>1, EngineStep, NextCopying DEF EnginesInv, EnginesExactInv, EnginesCopyingInv
  <1>3. EnginesInv /\ EnginesExactInv /\ EnginesCopyingInv => EitherCopyIsIdentical
    <2>1. MyP!WalkingInv /\ MyP!ExactInv /\ MyP!CopyingInv => MyP!CopyIsIdentical
      BY MyP!IdenticallyCopied, MyAssumptions
    <2>2. QED
      BY <2>1, IdenticallyCopied, MyPromises
         DEF EnginesInv, EnginesExactInv, EnginesCopyingInv, EitherCopyIsIdentical
  <1>4. QED
    BY <1>1, <1>2, <1>3, EnginesReadExactly, EnginesInitially, EnginesWalk, PTL DEF EnginesSpec
=============================================================================
