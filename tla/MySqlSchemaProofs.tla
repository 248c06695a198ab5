------------------------- MODULE MySqlSchemaProofs -------------------------
(***************************************************************************)
(* Theorems about MySqlSchema, for every schema and every number of        *)
(* statements of others.                                                   *)
(***************************************************************************)
EXTENDS MySqlSchema, ReflectionProofs

-----------------------------------------------------------------------------
(* The statements of others.                                               *)

\* What is left of elements without a column.
LEMMA ReducedAre ==
    ASSUME NEW S, IsFiniteSet(S), NEW c,
           S \subseteq Constraints \/ S \subseteq Indexes
    PROVE  /\ IsFiniteSet(Reduced(S, c))
           /\ S \subseteq Constraints => Reduced(S, c) \subseteq Constraints
           /\ S \subseteq Indexes => Reduced(S, c) \subseteq Indexes
           /\ \A i \in Reduced(S, c) : \E x \in S : i = [x EXCEPT !.columns = @ \ {c}] /\ i.name = x.name
  <1> DEFINE K == {x \in S : x.columns # {c}}  g == [x \in K |-> [x EXCEPT !.columns = @ \ {c}]]
             R == {g[x] : x \in K}
  <1>1. Reduced(S, c) = R
    BY DEF Reduced
  <1>2. IsFiniteSet(K) /\ g \in Surjection(K, R)
    BY FS_Subset DEF Surjection
  <1>3. ASSUME NEW x \in K
        PROVE  /\ x.columns \ {c} \in ColumnSets
               /\ g[x].name = x.name /\ g[x] = [x EXCEPT !.columns = @ \ {c}]
               /\ S \subseteq Constraints => g[x] \in Constraints
               /\ S \subseteq Indexes => g[x] \in Indexes
    <2>1. x.columns \in ColumnSets
      BY DEF Constraints, Indexes
    <2>2. x.columns \ {c} \in ColumnSets
      BY <2>1 DEF ColumnSets
    <2>3. CASE S \subseteq Constraints
      BY <2>2, <2>3 DEF Constraints, Indexes
    <2>4. CASE S \subseteq Indexes
      BY <2>2, <2>4 DEF Constraints, Indexes
    <2>5. QED
      BY <2>2, <2>3, <2>4
  <1>4. K \subseteq S
    OBVIOUS
  <1> HIDE DEF g, K
  <1>5. IsFiniteSet(R)
    <2> HIDE DEF R
    <2> QED BY <1>2, FS_Surjection
  <1>6. ASSUME NEW i \in R
        PROVE  \E x \in S : i = [x EXCEPT !.columns = @ \ {c}] /\ i.name = x.name
    <2>1. PICK x \in K : i = g[x]
      OBVIOUS
    <2>2. x \in S /\ i = [x EXCEPT !.columns = @ \ {c}] /\ i.name = x.name
      BY <1>3, <1>4, <2>1
    <2>3. QED
      BY <2>2
  <1>7. (S \subseteq Constraints => R \subseteq Constraints) /\ (S \subseteq Indexes => R \subseteq Indexes)
    BY <1>3
  <1> HIDE DEF R
  <1>8. QED
    BY <1>1, <1>5, <1>6, <1>7

\* DropColumn makes a definition.
LEMMA DropColumnKeeps ==
    ASSUME CatalogInv, NEW t \in Tables, DropColumn(t)
    PROVE  CatalogInv' /\ Untouched
  <1> DEFINE d == catalog[t]
  <1>1. PICK c \in ColumnNames(d) :
            Define(t, [d EXCEPT !.columns = [x \in DOMAIN @ \ {c} |-> @[x]],
                                !.pk = @ \ {c},
                                !.uniques = Reduced(@, c),
                                !.indexes = Reduced(@, c)])
    BY DEF DropColumn
  <1> DEFINE columns == [x \in DOMAIN d.columns \ {c} |-> d.columns[x]]
             e == [d EXCEPT !.columns = columns, !.pk = d.pk \ {c},
                            !.uniques = Reduced(d.uniques, c), !.indexes = Reduced(d.indexes, c)]
  <1>2. Define(t, e) /\ UNCHANGED oid
    BY <1>1 DEF DropColumn
  <1>3. IsDefinition(d)
    BY DEF DropColumn, CatalogInv, Present
  <1>4. /\ IsFiniteSet(Reduced(d.uniques, c)) /\ Reduced(d.uniques, c) \subseteq Constraints
        /\ IsFiniteSet(Reduced(d.indexes, c)) /\ Reduced(d.indexes, c) \subseteq Indexes
        /\ \A i \in Reduced(d.uniques, c) : \E x \in d.uniques : i = [x EXCEPT !.columns = @ \ {c}] /\ i.name = x.name
        /\ \A i \in Reduced(d.indexes, c) : \E x \in d.indexes : i = [x EXCEPT !.columns = @ \ {c}] /\ i.name = x.name
    BY <1>3, ReducedAre, FieldsAre DEF IsDefinition
  <1>5. columns = [x \in DOMAIN columns |-> columns[x]]
    OBVIOUS
  <1>6. IsFiniteSet(d.pk \ {c})
    BY <1>3, FieldsAre, FS_Subset DEF IsDefinition
  <1> HIDE DEF columns
  <1>7. /\ e = [x \in Fields |-> e[x]] /\ e.columns = columns /\ e.pk = d.pk \ {c}
        /\ e.uniques = Reduced(d.uniques, c) /\ e.indexes = Reduced(d.indexes, c)
        /\ \A x \in {"fks", "checks", "exclusions", "triggers", "comment"} : e[x] = d[x]
    BY <1>3, FieldsAre DEF IsDefinition
  <1> HIDE DEF e, d
  <1>8. \A i, j \in e.uniques \cup e.indexes : i.name = j.name => i = j
    <2>1. \A i \in e.uniques \cup e.indexes : \E x \in d.uniques \cup d.indexes :
              i = [x EXCEPT !.columns = @ \ {c}] /\ i.name = x.name
      BY <1>4, <1>7
    <2>2. \A x, y \in d.uniques \cup d.indexes : x.name = y.name => x = y
      BY <1>3 DEF IsDefinition
    <2>3. ASSUME NEW i \in e.uniques \cup e.indexes, NEW j \in e.uniques \cup e.indexes, i.name = j.name
          PROVE  i = j
      <3>1. PICK x \in d.uniques \cup d.indexes : i = [x EXCEPT !.columns = @ \ {c}] /\ i.name = x.name
        BY <2>1
      <3>2. PICK y \in d.uniques \cup d.indexes : j = [y EXCEPT !.columns = @ \ {c}] /\ j.name = y.name
        BY <2>1
      <3>3. x = y
        BY <2>2, <2>3, <3>1, <3>2
      <3>4. QED
        BY <3>1, <3>2, <3>3
    <2>4. QED
      BY <2>3
  <1>9. \A x \in Fields \ {"columns"} : IsFiniteSet(e[x])
    BY <1>3, <1>4, <1>6, <1>7, FieldsAre DEF IsDefinition
  <1>10. IsDefinition(e)
    BY <1>3, <1>4, <1>5, <1>7, <1>8, <1>9 DEF IsDefinition, ColumnNames
  <1>11. QED
    BY <1>2, <1>10, DefineStays

\* The statements of others on MySQL.
LEMMA DdlKeeps == ASSUME CatalogInv, Ddl PROVE CatalogInv' /\ Untouched
  <1>1. ASSUME NEW t \in Tables, AlterColumnType(t)
        PROVE  CatalogInv' /\ Untouched
    <2>1. t \in Present /\ UNCHANGED oid
      BY <1>1 DEF AlterColumnType
    <2>2. PICK c \in ColumnNames(catalog[t]) :
              Define(t, [catalog[t] EXCEPT !.columns[c] = IF c \in catalog[t].pk THEN "required" ELSE "plain"])
      BY <1>1 DEF AlterColumnType
    <2> DEFINE columns == [catalog[t].columns EXCEPT ![c] = IF c \in catalog[t].pk THEN "required" ELSE "plain"]
    <2>3. Define(t, [catalog[t] EXCEPT !.columns = columns])
      BY <2>2
    <2>4. columns = [x \in DOMAIN columns |-> columns[x]]
      OBVIOUS
    <2> HIDE DEF columns
    <2>5. IsDefinition([catalog[t] EXCEPT !.columns = columns])
      BY <2>1, <2>4, ChangedColumns DEF CatalogInv
    <2>6. QED
      BY <2>1, <2>3, <2>5, DefineStays
  <1>2. ASSUME NEW t \in Tables, DropTable(t)
        PROVE  CatalogInv' /\ Untouched
    BY <1>2, DefineStays DEF DropTable
  <1>3. QED
    BY <1>1, <1>2, CommonDdlKeeps, DropColumnKeeps DEF Ddl

-----------------------------------------------------------------------------
(* The invariant of the walk.                                              *)

\* The queries that are made on this engine, and the comments of the tables.
MyInv ==
    /\ pc \notin {"enums", "exclusions", "comment", "fkColumns", "fkRefs", "indexColumns"}
    /\ comments = [t \in Tables |-> comments[t]]
    /\ \A t \in Tables : IsFiniteSet(comments[t])

\* No sequence that nobody changed is forgotten, or none is read at all.
SequencesInv == Covered("sequences") \/ (NoSequences /\ pc # "sequence")

OthersCovered == Covered("views") /\ Covered("functions") /\ SequencesInv

WalkingInv == ReadInv /\ OthersCovered /\ MyInv /\ CopyInv /\ FiniteInv

\* Where the queries of this engine are.
MyPlaces == {"schemas", "list", "columns", "pk", "fks", "uniques", "checks", "indexes", "triggers",
             "views", "viewColumns", "sequences", "sequence", "functions"} \cup Ends \cup CopyStates

LEMMA MyPlacesAre ==
    /\ MyPlaces \cap {"enums", "exclusions", "comment", "fkColumns", "fkRefs", "indexColumns"} = {}
    /\ "list" \in SchemaSteps
    /\ {"columns", "pk", "fks", "uniques", "checks", "indexes", "triggers"} \subseteq Fields
    /\ {"columns", "pk", "fks", "uniques", "checks", "indexes", "triggers"} \subseteq TableSteps
  BY FieldsAre DEF MyPlaces, Ends, CopyStates, SchemaSteps, TableSteps

\* No sequence is read where nothing but others are found.
LEMMA NoSequencesStay ==
    ASSUME NoSequences,
           \A e \in Range(found') : e \in Range(found) \/ e.name \notin Objects["sequences"]
    PROVE  NoSequences'
  <1>1. \A e \in Range(found) : e.name \notin Objects["sequences"]
    BY DEF NoSequences, Range
  <1>2. \A i \in DOMAIN found' : found'[i] \in Range(found')
    BY DEF Range
  <1>3. QED
    BY <1>1, <1>2 DEF NoSequences

\* What is left to show of a step of the walk.
LEMMA WalksOn ==
    ASSUME WalkingInv, Walks, UNCHANGED <<copyVars, comments>>, FiniteInv',
           pc' \in MyPlaces \ {"copying"},
           \/ Covered("sequences")
           \/ NoSequences /\ pc # "sequence" => NoSequences' /\ pc' # "sequence"
    PROVE  WalkingInv'
  <1>1. MyInv'
    BY MyPlacesAre DEF WalkingInv, MyInv
  <1>2. CopyInv'
    BY CopyStays DEF WalkingInv
  <1>3. OthersCovered'
    BY DEF WalkingInv, Walks, OthersCovered, SequencesInv, Kinds
  <1>4. QED
    BY <1>1, <1>2, <1>3 DEF WalkingInv, Walks

\* The walk begins.
LEMMA InitWalking == Init => WalkingInv
  <1> SUFFICES ASSUME Init PROVE WalkingInv
    OBVIOUS
  <1>1. ReadInv /\ HomeAhead
    BY InitReads, MyPlacesAre DEF Init
  <1>2. OthersCovered
    BY <1>1 DEF OthersCovered, SequencesInv, Covered, Ahead
  <1>3. MyInv
    BY FS_EmptySet DEF Init, ReflectionInit, MyInv
  <1>4. CopyInv
    BY DEF Init, ReflectionInit, CopyInv
  <1>5. FiniteInv
    BY BlankIsDefinition DEF Init, ReflectionInit, FiniteInv, FiniteParts, IsDefinition
  <1>6. QED
    BY <1>1, <1>2, <1>3, <1>4, <1>5 DEF WalkingInv

\* Others change the schema, or nothing happens.
LEMMA OthersWalking ==
    ASSUME WalkingInv, CatalogInv', Untouched, UNCHANGED <<reflectVars, pc>>, UNCHANGED copyVars,
           UNCHANGED comments
    PROVE  WalkingInv'
  <1>1. Walks
    BY OthersRead DEF WalkingInv
  <1>2. UNCHANGED <<found, draft, result>>
    BY DEF reflectVars, objectVars
  <1>3. OthersCovered'
    BY <1>1, <1>2 DEF WalkingInv, Walks, OthersCovered, SequencesInv, Kinds, NoSequences
  <1>4. MyInv' /\ CopyInv'
    BY DEF WalkingInv, MyInv, CopyInv, copyVars
  <1>5. FiniteInv'
    BY <1>2, FiniteStays DEF WalkingInv
  <1>6. QED
    BY <1>1, <1>3, <1>4, <1>5 DEF WalkingInv, Walks

LEMMA DdlWalks == WalkingInv /\ Ddl => WalkingInv' /\ Untouched
  <1> SUFFICES ASSUME WalkingInv, Ddl PROVE WalkingInv' /\ Untouched
    OBVIOUS
  <1>1. CatalogInv' /\ Untouched
    BY DdlKeeps DEF WalkingInv, ReadInv
  <1>2. UNCHANGED <<reflectVars, pc>> /\ UNCHANGED copyVars /\ UNCHANGED comments
    BY DEF Ddl
  <1>3. QED
    BY <1>1, <1>2, OthersWalking

-----------------------------------------------------------------------------
(* Every step keeps the invariant of the walk.                             *)

\* A query whose answer becomes a field of the table.
LEMMA QueryWalks ==
    ASSUME WalkingInv, NEW field \in Fields, NEW answer, field # "columns" => IsFiniteSet(answer),
           NEW next \in MyPlaces \cap Fields, Query(field, answer, next), Same
    PROVE  WalkingInv'
  <1>1. ReadsTable /\ draft' = [draft EXCEPT ![field] = answer] /\ UNCHANGED <<result, found, copyVars>>
    BY StepsApart, FieldQuery DEF WalkingInv, Query, Put, Unmoved, objectVars
  <1>2. Walks
    BY <1>1, TableStepReads DEF WalkingInv
  <1>3. FiniteInv'
    BY <1>1, FieldFinite DEF WalkingInv
  <1>4. pc' = next /\ next \notin {"copying", "sequence"}
    BY FieldsAre DEF Query
  <1>5. NoSequences => NoSequences'
    BY <1>1 DEF NoSequences
  <1>6. QED
    BY <1>1, <1>2, <1>3, <1>4, <1>5, WalksOn DEF Same

\* What is read of a table is finite.
LEMMA AnswersAreFinite ==
    ASSUME WalkingInv, pc \in TableSteps
    PROVE  /\ Reading \in Tables /\ IsDefinition(Seen(Reading)) /\ FiniteParts(Seen(Reading))
           /\ IsFiniteSet(PlainIndexes(Seen(Reading)))
  <1> DEFINE d == Seen(Reading)
  <1>1. Reading \in Tables /\ IsDefinition(d) /\ FiniteParts(d)
    BY ReadingIs, SeenIsFinite DEF WalkingInv, ReadInv
  <1> HIDE DEF d
  <1>2. IsFiniteSet(Implicit(d))
    <2> DEFINE F == {g \in d.fks : \A e \in d.indexes \cup d.uniques : e.columns # g.columns /\ d.pk # g.columns}
               h == [f \in F |-> [name |-> f.name, columns |-> f.columns, unique |-> FALSE]]
               I == {h[f] : f \in F}
    <2>1. Implicit(d) = I
      BY DEF Implicit
    <2>2. IsFiniteSet(F)
      BY <1>1, FS_Subset, FieldsAre DEF FiniteParts
    <2>3. h \in Surjection(F, I)
      BY DEF Surjection
    <2> HIDE DEF F, h, I
    <2>4. QED
      BY <2>1, <2>2, <2>3, FS_Surjection
  <1>3. IsFiniteSet({[name |-> u.name, columns |-> u.columns, unique |-> TRUE] : u \in d.uniques})
    <2> DEFINE h == [u \in d.uniques |-> [name |-> u.name, columns |-> u.columns, unique |-> TRUE]]
               I == {h[u] : u \in d.uniques}
    <2>1. I = {[name |-> u.name, columns |-> u.columns, unique |-> TRUE] : u \in d.uniques}
      OBVIOUS
    <2>2. h \in Surjection(d.uniques, I) /\ IsFiniteSet(d.uniques)
      BY <1>1, FieldsAre DEF Surjection, FiniteParts
    <2> HIDE DEF h
    <2>3. IsFiniteSet(I)
      <3> HIDE DEF I
      <3> QED BY <2>2, FS_Surjection
    <2>4. QED
      BY <2>1, <2>3
  <1>4. IsFiniteSet(d.indexes)
    BY <1>1, FieldsAre DEF FiniteParts
  <1>5. IsFiniteSet(ServerIndexes(d))
    BY <1>2, <1>3, <1>4, FS_Union DEF ServerIndexes
  <1>6. IsFiniteSet(PlainIndexes(d))
    BY <1>5, FS_Subset DEF PlainIndexes
  <1>7. QED
    BY <1>1, <1>6 DEF d

\* The queries about one table but the last.
LEMMA FieldsWalk ==
    ASSUME WalkingInv,
           ReadColumns \/ ReadPrimaryKey \/ ReadForeignKeys \/ ReadUniques \/ ReadChecks
           \/ ChecksUnreadable \/ ReadIndexes
    PROVE  WalkingInv'
  <1>1. ASSUME NEW field \in Fields, NEW answer, NEW next,
               field # "columns" => IsFiniteSet(answer), next \in MyPlaces \cap Fields,
               Query(field, answer, next), Same
        PROVE  WalkingInv'
    BY <1>1, QueryWalks
  <1>2. /\ pc \in {"columns", "pk", "fks", "uniques", "checks", "indexes"}
        /\ {"pk", "fks", "uniques", "checks", "indexes", "triggers"} \subseteq MyPlaces \cap Fields
    BY FieldsAre DEF ReadColumns, ReadPrimaryKey, ReadForeignKeys, ReadUniques, ReadChecks,
                     ChecksUnreadable, ReadIndexes, Query, MyPlaces
  <1>3. /\ \A x \in Fields \ {"columns"} : IsFiniteSet(Seen(Reading)[x])
        /\ IsFiniteSet(PlainIndexes(Seen(Reading))) /\ IsFiniteSet({})
    BY <1>2, AnswersAreFinite, MyPlacesAre, FS_EmptySet DEF FiniteParts
  <1>4. CASE ReadColumns
    BY <1>1, <1>2, <1>4, FieldsAre DEF ReadColumns
  <1>5. CASE ReadPrimaryKey \/ ReadForeignKeys \/ ReadUniques
    BY <1>1, <1>2, <1>3, <1>5, FieldsAre DEF ReadPrimaryKey, ReadForeignKeys, ReadUniques
  <1>6. CASE ReadChecks \/ ChecksUnreadable \/ ReadIndexes
    BY <1>1, <1>2, <1>3, <1>6, FieldsAre DEF ReadChecks, ChecksUnreadable, ReadIndexes
  <1>7. QED
    BY <1>4, <1>5, <1>6

\* What the last query about a table makes of it.
TableOf(d) == [d EXCEPT !.triggers = Seen(Reading).triggers, !.comment = CommentOf(Reading)]

LEMMA TriggersWalk == WalkingInv /\ ReadTriggers => WalkingInv'
  <1> SUFFICES ASSUME WalkingInv, ReadTriggers PROVE WalkingInv'
    OBVIOUS
  <1> DEFINE table == TableOf(draft)
  <1>1. pc = "triggers" /\ Complete(Reading, table, Tail(todo)) /\ UNCHANGED comments
    BY DEF ReadTriggers, Same, TableOf
  <1>2. pc \in TableSteps /\ ReadInv
    BY <1>1, MyPlacesAre DEF WalkingInv
  <1>3. /\ draft = [x \in Fields |-> draft[x]] /\ Reading \in Tables
        /\ IsFiniteSet(Seen(Reading).triggers) /\ IsFiniteSet(CommentOf(Reading))
    BY <1>2, ReadingIs, AnswersAreFinite, FieldsAre DEF FiniteParts, CommentOf, WalkingInv, MyInv
  <1>4. /\ DOMAIN table = Fields
        /\ \A x \in Fields : table[x] = IF x = "triggers" THEN Seen(Reading).triggers
                                        ELSE IF x = "comment" THEN CommentOf(Reading) ELSE draft[x]
    BY <1>3, FieldsAre DEF TableOf
  <1> HIDE DEF table
  <1>5. Walks
    BY <1>1, <1>2, <1>4, TableRead
  <1>6. FiniteParts(table)
    BY <1>3, <1>4 DEF FiniteParts, WalkingInv, FiniteInv
  <1>7. FiniteInv'
    BY <1>1, <1>2, <1>6, CompleteFinite DEF WalkingInv
  <1>8. /\ pc' \in {"columns", "done", "views"} /\ UNCHANGED <<found, copyVars>>
    BY <1>1 DEF Complete, AfterTables, Unmoved, objectVars
  <1>9. pc' \in MyPlaces \ {"copying", "sequence"} /\ (NoSequences => NoSequences')
    BY <1>8 DEF MyPlaces, Ends, NoSequences
  <1>10. QED
    BY <1>1, <1>5, <1>7, <1>8, <1>9, WalksOn

\* A query that ends the call.
LEMMA GivingUpWalks ==
    ASSUME WalkingInv, NEW how \in Failures, GiveUp(how), Same
    PROVE  WalkingInv'
  <1>1. Walks
    BY GivesUp DEF WalkingInv
  <1>2. UNCHANGED <<found, draft, result, copyVars>> /\ pc' = how
    BY DEF GiveUp, Unmoved, objectVars
  <1>3. pc' \in MyPlaces \ {"copying", "sequence"} /\ (NoSequences => NoSequences')
    BY <1>2 DEF MyPlaces, Ends, Failures, NoSequences
  <1>4. QED
    BY <1>1, <1>2, <1>3, FiniteStays, WalksOn DEF Same, WalkingInv

\* The schemas are listed, and the tables.
LEMMA ListsWalk == WalkingInv /\ (ListSchemasMy \/ ReadTables) => WalkingInv'
  <1>1. ASSUME WalkingInv, ListSchemasMy PROVE WalkingInv'
    <2>1. Walks
      BY <1>1, SchemasRead, MyPlacesAre DEF WalkingInv, ListSchemasMy
    <2>2. UNCHANGED <<found, draft, result, copyVars, comments>> /\ pc' = "list"
      BY <1>1 DEF ListSchemasMy, ListSchemas, Unmoved, objectVars, Same
    <2>3. pc' \in MyPlaces \ {"copying", "sequence"} /\ (NoSequences => NoSequences')
      BY <2>2 DEF MyPlaces, NoSequences
    <2>4. QED
      BY <1>1, <2>1, <2>2, <2>3, FiniteStays, WalksOn DEF WalkingInv
  <1>2. ASSUME WalkingInv, ReadTables PROVE WalkingInv'
    <2>1. Walks
      BY <1>2, TablesListed DEF WalkingInv, ReadTables
    <2>2. /\ UNCHANGED <<found, draft, result, copyVars>> /\ pc' \in {"columns", "missing", "views"}
          /\ comments' = [t \in Tables |-> Seen(t).comment]
      BY <1>2 DEF ReadTables, ListTables, Unmoved, objectVars
    <2>3. FiniteInv' /\ CopyInv' /\ (NoSequences => NoSequences') /\ pc' # "sequence"
      BY <1>2, <2>2, FiniteStays, CopyStays DEF WalkingInv, NoSequences
    <2>4. \A t \in Tables : IsFiniteSet(Seen(t).comment)
      BY <1>2, SeenIsFinite, FieldsAre DEF WalkingInv, ReadInv, FiniteParts
    <2>5. MyInv'
      BY <2>2, <2>4 DEF MyInv
    <2>6. OthersCovered'
      BY <1>2, <2>1, <2>3 DEF WalkingInv, Walks, OthersCovered, SequencesInv, Kinds
    <2>7. QED
      BY <2>1, <2>3, <2>5, <2>6 DEF WalkingInv, Walks
  <1>3. QED
    BY <1>1, <1>2

\* The views, and the functions.
LEMMA ViewsWalk == WalkingInv /\ (ReadViews \/ ReadFunctionsMy) => WalkingInv'
  <1> USE DEF Same, ToObjects, Unmoved
  <1>1. ASSUME WalkingInv, ListViews, Same PROVE WalkingInv'
    <2>1. "views" \in OneByOne /\ ListOf("views") = "viewColumns" /\ NextOf("views") = "sequences"
      BY DEF OneByOne, ListOf, NextOf
    <2>2. /\ listed' = Entries("views") /\ pc = "views" /\ UNCHANGED found
          /\ ToObjects(IF listed' = <<>> THEN "sequences" ELSE "viewColumns")
      BY <1>1 DEF ListViews
    <2> HIDE DEF ToObjects
    <2>3. Walks
      BY <1>1, <2>1, <2>2, ObjectsListed DEF WalkingInv, Walks
    <2> USE DEF ToObjects
    <2>4. /\ UNCHANGED <<found, draft, result, copyVars, comments>>
          /\ pc' \in MyPlaces \ {"copying", "sequence"} /\ (NoSequences => NoSequences')
      BY <1>1, <2>2 DEF MyPlaces, NoSequences
    <2>5. QED
      BY <1>1, <2>3, <2>4, FiniteStays, WalksOn DEF WalkingInv
  <1>2. ASSUME WalkingInv, ReadViewColumns, Same PROVE WalkingInv'
    <2> DEFINE full == Head(listed).name \in others["views"]
    <2>1. "views" \in OneByOne /\ ListOf("views") = "viewColumns" /\ NextOf("views") = "sequences"
      BY DEF OneByOne, ListOf, NextOf
    <2>2. /\ pc = "viewColumns" /\ found' = Append(found, Entry(Head(listed).name, full))
          /\ listed' = Tail(listed)
          /\ ToObjects(IF listed' = <<>> THEN "sequences" ELSE "viewColumns")
      BY <1>2 DEF ReadViewColumns
    <2>3. /\ listed \in Seq([name : Objects["views"], full : BOOLEAN]) /\ listed # <<>>
          /\ \A l \in Range(listed) : l.name \notin touched => l.name \in others["views"]
      BY <1>2, <2>2 DEF WalkingInv, ReadInv, ObjectsInv, WalkInv, ListSteps, ListedKind
    <2>4. Head(listed) \in Range(listed) /\ Head(listed).name \in Objects["views"]
      <3> DEFINE T == [name : Objects["views"], full : BOOLEAN]
      <3>1. listed \in Seq(T) /\ listed # <<>>
        BY <2>3
      <3> HIDE DEF T
      <3>2. Head(listed) \in Range(listed) /\ Head(listed) \in T
        BY <3>1, RestOf
      <3>3. QED
        BY <3>2 DEF T
    <2>5. Head(listed).name \notin touched => full
      BY <2>3, <2>4
    <2>6. full \in BOOLEAN
      OBVIOUS
    <2> HIDE DEF ToObjects, full
    <2>7. Walks
      BY <1>2, <2>1, <2>2, <2>5, <2>6, ObjectRead DEF WalkingInv
    <2>8. NoSequences => NoSequences'
      <3> DEFINE e == Entry(Head(listed).name, full)
      <3>1. found \in Seq([name : ObjectNames, full : BOOLEAN])
        BY <1>2 DEF WalkingInv, ReadInv, ObjectsInv
      <3>2. e.name \notin Objects["sequences"]
        BY <2>4, CatalogAssumption DEF Entry, Kinds
      <3> HIDE DEF e
      <3>3. found' = Append(found, e)
        BY <2>2 DEF e
      <3>4. \A i \in DOMAIN found' : found'[i] = e \/ (i \in DOMAIN found /\ found'[i] = found[i])
        BY <3>1, <3>3
      <3>5. QED
        BY <3>2, <3>4 DEF NoSequences
    <2> USE DEF ToObjects
    <2>9. UNCHANGED <<draft, result, copyVars, comments>> /\ pc' \in MyPlaces \ {"copying", "sequence"}
      BY <1>2, <2>2 DEF MyPlaces
    <2>10. QED
      BY <1>2, <2>7, <2>8, <2>9, FiniteStays, WalksOn DEF WalkingInv
  <1>3. ASSUME WalkingInv, ReadFunctionsMy PROVE WalkingInv'
    <2>1. Walks
      BY <1>3, FunctionsRead, MyPlacesAre DEF WalkingInv, ReadFunctionsMy
    <2>2. /\ pc = "functions" /\ found' = found \o Entries("functions") /\ pc' \in {"done", "list"}
          /\ UNCHANGED <<draft, result, copyVars, comments>>
      BY <1>3 DEF ReadFunctionsMy, ReadFunctions
    <2>3. "functions" \in Kinds /\ "functions" \in ObjectSteps \ ListSteps /\ "functions" \in Before("functions")
      BY DEF Kinds, ObjectSteps, ListSteps, Before
    <2>4. /\ Range(found') = Range(found) \cup {Entry(o, TRUE) : o \in AtHome(others["functions"])}
          /\ AtHome(others["functions"]) \subseteq Objects["functions"]
      BY <1>3, <2>2, <2>3, FoundMore DEF WalkingInv
    <2>5. NoSequences => NoSequences'
      <3>1. ASSUME NEW e \in Range(found') PROVE e \in Range(found) \/ e.name \notin Objects["sequences"]
        BY <2>4, <3>1, CatalogAssumption DEF Entry, Kinds
      <3>2. QED
        BY <3>1, NoSequencesStay
    <2>6. pc' \in MyPlaces \ {"copying", "sequence"}
      BY <2>2 DEF MyPlaces, Ends
    <2>7. QED
      BY <1>3, <2>1, <2>2, <2>5, <2>6, FiniteStays, WalksOn DEF WalkingInv
  <1>4. QED
    BY <1>1, <1>2, <1>3 DEF ReadViews

\* The sequences.
LEMMA SequencesWalk ==
    WalkingInv /\ (ListSequences \/ SequencesUnlisted \/ ReadSequence) => WalkingInv'
  <1>1. "sequences" \in OneByOne /\ ListOf("sequences") = "sequence" /\ NextOf("sequences") = "functions"
    BY DEF OneByOne, ListOf, NextOf
  <1>2. ASSUME WalkingInv, NEW list, list = Entries("sequences") \/ list = <<>>, ToSequences(list)
        PROVE  /\ ReadInv' /\ \A k \in Kinds \ {"sequences"} : Covered(k) => Covered(k)'
               /\ list = Entries("sequences") => Walks
               /\ UNCHANGED <<found, draft, result, copyVars, comments>>
               /\ pc = "sequences" /\ pc' = IF list = <<>> THEN "functions" ELSE "sequence"
               /\ pc' \in MyPlaces \ {"copying"} /\ (NoSequences => NoSequences')
    <2>1. /\ pc = "sequences" /\ listed' = list /\ UNCHANGED found
          /\ ToObjects(IF list = <<>> THEN "functions" ELSE "sequence")
          /\ UNCHANGED <<found, draft, result, copyVars, comments>>
          /\ pc' = IF list = <<>> THEN "functions" ELSE "sequence"
      BY <1>2 DEF ToSequences, Same, ToObjects, Unmoved
    <2>2. /\ ReadInv'
          /\ \A k \in Kinds : (k # "sequences" \/ list = Entries("sequences")) /\ Covered(k) => Covered(k)'
      BY <1>1, <1>2, <2>1, ObjectsListed DEF WalkingInv
    <2>3. pc' \in MyPlaces \ {"copying"} /\ (NoSequences => NoSequences')
      BY <2>1 DEF MyPlaces, NoSequences
    <2>4. QED
      BY <2>1, <2>2, <2>3 DEF Walks
  <1>3. ASSUME WalkingInv, pc = "sequences", ~Ahead("sequences")
        PROVE  Entries("sequences") = <<>>
    <2>1. queue # <<>> /\ queue \in Seq(Range(Schemas)) /\ "sequences" \in Before("sequences")
          /\ "sequences" \in Kinds
      BY <1>3 DEF WalkingInv, ReadInv, WalkInv, ObjectSteps, Before, Kinds
    <2>2. Head(queue) # Home
      BY <1>3, <2>1, RestOf DEF Ahead, AtHomeIn
    <2>3. AtHome(others["sequences"]) = {}
      BY <2>2 DEF AtHome
    <2>4. QED
      BY <1>3, <2>1, <2>3, EntriesAre DEF WalkingInv, ReadInv
  <1>4. ASSUME WalkingInv, ListSequences PROVE WalkingInv'
    <2>1. /\ Walks /\ UNCHANGED <<found, draft, result, copyVars, comments>>
          /\ pc = "sequences" /\ pc' = IF Entries("sequences") = <<>> THEN "functions" ELSE "sequence"
          /\ pc' \in MyPlaces \ {"copying"} /\ (NoSequences => NoSequences')
      BY <1>2, <1>4 DEF ListSequences
    <2>2. Covered("sequences") \/ pc' # "sequence"
      BY <1>3, <1>4, <2>1 DEF Covered
    <2>3. QED
      BY <1>4, <2>1, <2>2, FiniteStays, WalksOn DEF WalkingInv
  <1>5. ASSUME WalkingInv, SequencesUnlisted PROVE WalkingInv'
    <2>1. /\ ReadInv' /\ \A k \in Kinds \ {"sequences"} : Covered(k) => Covered(k)'
          /\ <<>> = Entries("sequences") => Walks
          /\ UNCHANGED <<found, draft, result, copyVars, comments>>
          /\ pc = "sequences" /\ pc' = "functions"
          /\ pc' \in MyPlaces \ {"copying"} /\ (NoSequences => NoSequences')
      BY <1>2, <1>5 DEF SequencesUnlisted
    <2>2. CASE <<>> = Entries("sequences")
      BY <1>5, <2>1, <2>2, FiniteStays, WalksOn DEF WalkingInv
    <2>3. CASE <<>> # Entries("sequences")
      <3>1. Ahead("sequences")
        BY <1>3, <1>5, <2>1, <2>3
      <3>2. NoSequences
        BY <1>5, <3>1 DEF WalkingInv, ReadInv, ObjectsInv, NoSequences, Kinds, Range
      <3>3. OthersCovered'
        BY <1>5, <2>1, <3>2 DEF WalkingInv, OthersCovered, SequencesInv, Kinds
      <3>4. MyInv' /\ CopyInv' /\ FiniteInv'
        BY <1>5, <2>1, CopyStays, FiniteStays DEF WalkingInv, MyInv
      <3>5. QED
        BY <2>1, <3>3, <3>4 DEF WalkingInv
    <2>4. QED
      BY <2>2, <2>3
  <1>6. ASSUME WalkingInv, ReadSequence PROVE WalkingInv'
    <2>1. /\ pc = "sequence" /\ found' = Append(found, Entry(Head(listed).name, TRUE))
          /\ listed' = Tail(listed)
          /\ ToObjects(IF listed' = <<>> THEN "functions" ELSE "sequence")
      BY <1>6 DEF ReadSequence
    <2>2. Walks
      BY <1>1, <1>6, <2>1, ObjectRead DEF WalkingInv
    <2>3. UNCHANGED <<draft, result, copyVars, comments>> /\ pc' \in MyPlaces \ {"copying"}
      BY <1>6, <2>1 DEF ToObjects, Unmoved, MyPlaces, ReadSequence, Same
    <2>4. Covered("sequences")
      BY <1>6, <2>1 DEF WalkingInv, OthersCovered, SequencesInv
    <2>5. QED
      BY <1>6, <2>2, <2>3, <2>4, FiniteStays, WalksOn DEF WalkingInv
  <1>7. QED
    BY <1>4, <1>5, <1>6

\* What has a statement of its own on this engine.
Elements == {"uniques", "checks", "fks", "indexes"}

\* The statements of render_ddl: the table first, then one per element.
LEMMA RenderedAre ==
    ASSUME NEW d, FiniteParts(d)
    PROVE  /\ RenderDdl(d) \in Seq(AllStatements(d, Elements))
           /\ Range(RenderDdl(d)) = AllStatements(d, Elements)
           /\ RenderDdl(d) # <<>> /\ Head(RenderDdl(d)) = <<"table", d>> /\ Arranged(RenderDdl(d))
  <1> DEFINE T == AllStatements(d, Elements)  t0 == <<<<"table", d>>>>
             t1 == t0 \o Statements("uniques", d.uniques)  t2 == t1 \o Statements("checks", d.checks)
             t3 == t2 \o Statements("fks", d.fks)  t4 == t3 \o Statements("indexes", d.indexes)
  <1>1. /\ IsFiniteSet(d.uniques) /\ IsFiniteSet(d.checks) /\ IsFiniteSet(d.fks)
        /\ IsFiniteSet(d.indexes)
    BY FieldsAre DEF FiniteParts
  <1>2. T = {<<"table", d>>} \cup ({"uniques"} \X d.uniques) \cup ({"checks"} \X d.checks)
            \cup ({"fks"} \X d.fks) \cup ({"indexes"} \X d.indexes)
    BY DEF AllStatements, Elements
  <1>3. RenderDdl(d) = t4
    BY DEF RenderDdl
  <1>4. /\ t0 \in Seq(T) /\ t0 # <<>> /\ Head(t0) = <<"table", d>> /\ Range(t0) = {<<"table", d>>}
        /\ Arranged(t0)
    BY <1>2, OneArranged DEF Range
  <1> HIDE DEF t0, T
  <1>5. /\ t1 \in Seq(T) /\ t1 # <<>> /\ Head(t1) = <<"table", d>> /\ Arranged(t1)
        /\ Range(t1) = Range(t0) \cup ({"uniques"} \X d.uniques)
    <2>1. \A x \in Range(t0) : x[1] # "uniques" /\ x[1] # "fks"
      BY <1>4
    <2>2. QED
      BY <1>1, <1>2, <1>4, <2>1, StatementsAfter
  <1> HIDE DEF t1
  <1>6. /\ t2 \in Seq(T) /\ t2 # <<>> /\ Head(t2) = <<"table", d>> /\ Arranged(t2)
        /\ Range(t2) = Range(t1) \cup ({"checks"} \X d.checks)
    <2>1. \A x \in Range(t1) : x[1] # "checks"
      BY <1>4, <1>5
    <2>2. QED
      BY <1>1, <1>2, <1>5, <2>1, StatementsAfter
  <1> HIDE DEF t2
  <1>7. /\ t3 \in Seq(T) /\ t3 # <<>> /\ Head(t3) = <<"table", d>> /\ Arranged(t3)
        /\ Range(t3) = Range(t2) \cup ({"fks"} \X d.fks)
    <2>1. \A x \in Range(t2) : x[1] # "fks"
      BY <1>4, <1>5, <1>6
    <2>2. QED
      BY <1>1, <1>2, <1>6, <2>1, StatementsAfter
  <1> HIDE DEF t3
  <1>8. /\ t4 \in Seq(T) /\ t4 # <<>> /\ Head(t4) = <<"table", d>> /\ Arranged(t4)
        /\ Range(t4) = Range(t3) \cup ({"indexes"} \X d.indexes)
    <2>1. \A x \in Range(t3) : x[1] # "indexes"
      BY <1>4, <1>5, <1>6, <1>7
    <2>2. QED
      BY <1>1, <1>2, <1>7, <2>1, StatementsAfter
  <1> HIDE DEF t4
  <1>9. Range(t4) = T
    BY <1>2, <1>4, <1>5, <1>6, <1>7, <1>8
  <1>10. QED
    BY <1>3, <1>8, <1>9 DEF T

\* The copy.
LEMMA CopyWalks == WalkingInv /\ Copy => WalkingInv'
  <1>1. ASSUME WalkingInv, CopyInv', pc' \in CopyStates, pc \in AfterReflection,
               UNCHANGED <<catalogVars, reflectVars>>, Same
        PROVE  WalkingInv'
    <2>1. Walks
      BY <1>1, CopyReads DEF WalkingInv
    <2>2. UNCHANGED <<found, draft, result>>
      BY <1>1 DEF reflectVars, objectVars
    <2>3. pc' \in MyPlaces /\ pc' # "sequence"
      BY <1>1 DEF MyPlaces, CopyStates
    <2>4. MyInv'
      BY <1>1, <2>3, MyPlacesAre DEF WalkingInv, MyInv, Same
    <2>5. OthersCovered'
      BY <1>1, <2>1, <2>2, <2>3 DEF WalkingInv, Walks, OthersCovered, SequencesInv, Kinds, NoSequences
    <2>6. QED
      BY <1>1, <2>1, <2>2, <2>4, <2>5, FiniteStays DEF WalkingInv, Walks
  <1>2. ASSUME WalkingInv, StartCopy PROVE WalkingInv'
    <2>1. PICK i \in DOMAIN result : subject' = result[i].table /\ script' = RenderDdl(result[i].def)
      BY <1>2 DEF StartCopy
    <2>2. pc = "done" /\ pc' = "copying" /\ UNCHANGED <<catalogVars, reflectVars, target>> /\ Same
      BY <1>2 DEF StartCopy, Same
    <2> DEFINE d == result[i].def
    <2>3. FiniteParts(d) /\ subject' \in Tables
      BY <1>2, <2>1 DEF FiniteInv, WalkingInv, ReadInv, TablesInv
    <2>4. /\ script' \in Seq(Range(script'))
          /\ script' # <<>> /\ Head(script')[1] = "table"
      <3> HIDE DEF d
      <3> QED BY <2>1, <2>3, RenderedAre DEF d
    <2>5. CopyInv'
      BY <1>2, <2>2, <2>3, <2>4 DEF CopyInv, WalkingInv
    <2>6. QED
      BY <1>1, <1>2, <2>2, <2>5 DEF AfterReflection, CopyStates
  <1>3. ASSUME WalkingInv, Execute \/ Refuse \/ Copied, Same PROVE WalkingInv'
    <2>1. pc = "copying"
      BY <1>3 DEF Execute, Refuse, Copied
    <2>2. CopyInv' /\ pc' \in CopyStates /\ UNCHANGED <<catalogVars, reflectVars>>
      BY <1>3, <2>1, CopyGoesOn DEF WalkingInv
    <2>3. QED
      BY <1>1, <1>3, <2>1, <2>2 DEF AfterReflection, CopyStates
  <1>4. QED
    BY <1>2, <1>3 DEF Copy

\* Every step keeps the invariant.
LEMMA NextWalks == WalkingInv /\ [Next]_vars => WalkingInv'
  <1> SUFFICES ASSUME WalkingInv, [Next]_vars PROVE WalkingInv'
    OBVIOUS
  <1>1. CASE UNCHANGED vars
    <2>1. /\ UNCHANGED <<reflectVars, pc>> /\ UNCHANGED copyVars /\ UNCHANGED comments
          /\ UNCHANGED catalogVars
      BY <1>1 DEF vars
    <2>2. CatalogInv' /\ Untouched
      BY <2>1, CatalogStays DEF WalkingInv, ReadInv, Untouched, catalogVars
    <2>3. QED
      BY <2>1, <2>2, OthersWalking
  <1>2. CASE Fail \/ NoSequence
    <2>1. Same /\ \E how \in Failures : GiveUp(how)
      BY <1>2 DEF Fail, NoSequence, Failures
    <2>2. QED
      BY <2>1, GivingUpWalks
  <1>3. CASE Reflect
    BY <1>2, <1>3, ListsWalk, FieldsWalk, TriggersWalk, ViewsWalk, SequencesWalk DEF Reflect
  <1>4. QED
    BY <1>1, <1>2, <1>3, DdlWalks, CopyWalks DEF Next

\* A reflection that is kept going is well formed.
LEMMA WalkingTypes == WalkingInv => TypeOK
  <1> SUFFICES ASSUME WalkingInv PROVE TypeOK
    OBVIOUS
  <1>1. ReflectionTypeOK
    BY WalkTypes DEF WalkingInv, CopyInv
  <1>2. pc \in (Fields \ {"exclusions", "comment"}) \cup Ends \cup CopyStates
           \cup {"schemas", "list", "views", "viewColumns", "sequences", "sequence", "functions"}
    BY DEF WalkingInv, MyInv, ReadInv, WalkInv, SchemaSteps, TableSteps, ObjectSteps, ListSteps
  <1>3. DOMAIN comments = Tables
    BY DEF WalkingInv, MyInv
  <1>4. QED
    BY <1>1, <1>2, <1>3 DEF TypeOK

\* The state of a reflection and a copy has its type, and the catalog stays
\* well-formed, whatever others do to the schema (reflect.rs 37-101, ddl.rs
\* 103-153).
THEOREM TypeCorrectness == Spec => []TypeOK
  BY WalkingTypes, InitWalking, NextWalks, PTL DEF Spec

-----------------------------------------------------------------------------
(* The table being read.                                                   *)

\* What the server can have of a table on this engine: no exclusion
\* constraints, no unique index that is not a constraint, and no two indexes of
\* one name, those of foreign keys included.
MySqlDefinitions ==
    \A t \in Tables : \A d \in Definitions[t] \ {Gone} :
        /\ d.exclusions = {}
        /\ \A i \in d.indexes : ~i.unique
        /\ \A i, j \in ServerIndexes(d) : i.name = j.name => i = j

\* The queries after which this field of the table has been read.
After(field) ==
    CASE field = "columns" -> {"pk", "fks", "uniques", "checks", "indexes", "triggers"}
      [] field = "pk"      -> {"fks", "uniques", "checks", "indexes", "triggers"}
      [] field = "fks"     -> {"uniques", "checks", "indexes", "triggers"}
      [] field = "uniques" -> {"checks", "indexes", "triggers"}
      [] field = "checks"  -> {"indexes", "triggers"}
      [] field = "indexes" -> {"triggers"}
      [] OTHER             -> {}

\* What may be read of a field: the checks, or none of them.
Read(field, answer, t) == answer = Exact(t)[field] \/ (field = "checks" /\ answer = {})

\* The draft agrees with the catalog in every field that has been read, if nobody
\* changed the table.
DraftInv ==
    pc \in TableSteps =>
        /\ draft.exclusions = {}
        /\ Reading \notin touched =>
              \A field \in Fields : pc \in After(field) => Read(field, draft[field], Reading)

\* The comments that were read with the list are those of the catalog.
CommentsInv == pc \in TableSteps => \A t \in Tables \ touched : comments[t] = Seen(t).comment

\* What was read of a table nobody changed.
ReadExactly(d, t) == d = Exact(t) \/ d = [Exact(t) EXCEPT !.checks = {}]

ResultInv ==
    \A i \in DOMAIN result :
        result[i].table \notin touched => ReadExactly(result[i].def, result[i].table)

ExactInv == DefinedInv /\ DraftInv /\ CommentsInv /\ ResultInv

\* The order of the queries.
LEMMA QueriesInOrder ==
    /\ \A field \in Fields : "columns" \notin After(field)
    /\ \A field \in Fields \ {"comment", "triggers", "exclusions"} : "triggers" \in After(field)
    /\ \A field \in Fields : "pk" \in After(field) => "columns" \in After(field) \/ field = "columns"
    /\ \A field \in Fields : "fks" \in After(field) => "pk" \in After(field) \/ field = "pk"
    /\ \A field \in Fields : "uniques" \in After(field) => "fks" \in After(field) \/ field = "fks"
    /\ \A field \in Fields : "checks" \in After(field) => "uniques" \in After(field) \/ field = "uniques"
    /\ \A field \in Fields : "indexes" \in After(field) => "checks" \in After(field) \/ field = "checks"
    /\ \A field \in Fields : "triggers" \in After(field) => "indexes" \in After(field) \/ field = "indexes"
  <1>1. ASSUME NEW field \in Fields
        PROVE  /\ "columns" \notin After(field)
               /\ field \notin {"comment", "triggers", "exclusions"} => "triggers" \in After(field)
               /\ "pk" \in After(field) => "columns" \in After(field) \/ field = "columns"
               /\ "fks" \in After(field) => "pk" \in After(field) \/ field = "pk"
               /\ "uniques" \in After(field) => "fks" \in After(field) \/ field = "fks"
               /\ "checks" \in After(field) => "uniques" \in After(field) \/ field = "uniques"
               /\ "indexes" \in After(field) => "checks" \in After(field) \/ field = "checks"
               /\ "triggers" \in After(field) => "indexes" \in After(field) \/ field = "indexes"
    <2>1. CASE field \in {"columns", "pk", "fks"}
      BY <2>1 DEF After
    <2>2. CASE field \in {"uniques", "checks", "indexes"}
      BY <2>2 DEF After
    <2>3. CASE field \in {"exclusions", "triggers", "comment"}
      BY <2>3 DEF After
    <2>4. QED
      BY <2>1, <2>2, <2>3, FieldsAre
  <1>2. QED
    BY <1>1

\* What is to be read of an untouched table.
LEMMA ExactOf ==
    ASSUME MySqlDefinitions, CatalogInv, DefinedInv, NEW t \in Present \ touched
    PROVE  LET d == catalog[t] IN
           /\ Seen(t) = d /\ IsDefinition(d) /\ d \in Definitions[t] \ {Gone} /\ d.exclusions = {}
           /\ \A i \in d.indexes : ~i.unique
           /\ \A i, j \in ServerIndexes(d) : i.name = j.name => i = j
           /\ Exact(t) = [field \in Fields |-> Exact(t)[field]]
           /\ \A field \in Fields \ {"indexes"} : Exact(t)[field] = d[field]
           /\ Exact(t).indexes = PlainIndexes(d) /\ Exact(t).indexes = d.indexes \cup Implicit(d)
  <1> DEFINE d == catalog[t]
             U == {[name |-> u.name, columns |-> u.columns, unique |-> TRUE] : u \in d.uniques}
             F == {g \in d.fks : \A e \in d.indexes \cup d.uniques : e.columns # g.columns /\ d.pk # g.columns}
  <1>1. t \in Tables
    BY DEF Present
  <1>2. /\ Seen(t) = d /\ IsDefinition(d) /\ d \in Definitions[t] \ {Gone}
    BY <1>1 DEF CatalogInv, Present, Seen, DefinedInv
  <1>3. /\ d.exclusions = {} /\ \A i, j \in ServerIndexes(d) : i.name = j.name => i = j
        /\ \A i \in d.indexes : ~i.unique
    BY <1>1, <1>2 DEF MySqlDefinitions
  <1>4. /\ d.uniques \subseteq Constraints /\ d.indexes \subseteq Indexes
        /\ \A i, j \in d.uniques \cup d.indexes : i.name = j.name => i = j
    BY <1>2 DEF IsDefinition
  <1>5. ServerIndexes(d) = d.indexes \cup Implicit(d) \cup U
    BY DEF ServerIndexes
  <1>6. \A i \in U : i.name \in {u.name : u \in d.uniques}
    OBVIOUS
  <1>7. ASSUME NEW i \in d.indexes PROVE i.name \notin {u.name : u \in d.uniques}
    <2>1. SUFFICES ASSUME NEW u \in d.uniques, i.name = u.name PROVE FALSE
      OBVIOUS
    <2>2. u = i
      BY <1>4, <2>1
    <2>3. DOMAIN i = {"name", "columns", "unique"} /\ DOMAIN u = {"name", "columns"}
      BY <1>4 DEF Indexes, Constraints
    <2>4. QED
      BY <2>2, <2>3
  <1>8. ASSUME NEW i \in Implicit(d) PROVE i.name \notin {u.name : u \in d.uniques}
    <2>1. ~i.unique
      BY <1>8 DEF Implicit
    <2>2. SUFFICES ASSUME NEW u \in d.uniques, i.name = u.name PROVE FALSE
      OBVIOUS
    <2> DEFINE j == [name |-> u.name, columns |-> u.columns, unique |-> TRUE]
    <2>3. j \in U /\ j.name = u.name /\ j.unique
      OBVIOUS
    <2> HIDE DEF U, j
    <2>4. i = j
      BY <1>3, <1>5, <1>8, <2>2, <2>3
    <2>5. QED
      BY <2>1, <2>3, <2>4
  <1> HIDE DEF U, F, d
  <1>9. PlainIndexes(d) = d.indexes \cup Implicit(d)
    BY <1>5, <1>6, <1>7, <1>8 DEF PlainIndexes
  <1>10. Exact(t) = [d EXCEPT !.indexes = d.indexes \cup Implicit(d)]
    BY DEF Exact, d
  <1>11. d = [x \in Fields |-> d[x]]
    BY <1>2 DEF IsDefinition
  <1>12. /\ Exact(t) = [x \in Fields |-> Exact(t)[x]]
         /\ \A x \in Fields \ {"indexes"} : Exact(t)[x] = d[x]
         /\ Exact(t).indexes = d.indexes \cup Implicit(d)
    BY <1>10, <1>11, FieldsAre
  <1>13. QED
    BY <1>2, <1>3, <1>9, <1>12 DEF d

\* So of the table being read.
LEMMA ExactIs ==
    ASSUME MySqlDefinitions, WalkingInv, DefinedInv, pc \in TableSteps, Reading \notin touched
    PROVE  /\ Reading \in Present /\ Seen(Reading) = catalog[Reading]
           /\ catalog[Reading].exclusions = {}
           /\ Exact(Reading) = [field \in Fields |-> Exact(Reading)[field]]
           /\ \A field \in Fields \ {"indexes"} : Exact(Reading)[field] = catalog[Reading][field]
           /\ Exact(Reading).indexes = PlainIndexes(catalog[Reading])
  <1>1. Reading \in Present \ touched
    BY ReadingIs DEF WalkingInv, ReadInv, TablesInv
  <1>2. QED
    BY <1>1, ExactOf DEF WalkingInv, ReadInv

\* The statements of others do not change what is to be reflected.
LEMMA OthersExact ==
    ASSUME WalkingInv, ExactInv, Untouched, UNCHANGED <<reflectVars, pc>>, UNCHANGED comments
    PROVE  ExactInv'
  <1>1. UNCHANGED <<todo, draft, result, pc, comments>> /\ Reading' = Reading
    BY DEF reflectVars, Reading
  <1>2. pc \in TableSteps /\ Reading \notin touched' =>
            Reading \notin touched /\ catalog'[Reading] = catalog[Reading]
    BY ReadingIs DEF Untouched, WalkingInv
  <1>3. DraftInv'
    BY <1>1, <1>2 DEF ExactInv, DraftInv, Read, Exact
  <1>4. ResultInv'
    BY <1>1 DEF WalkingInv, ReadInv, TablesInv, ExactInv, ResultInv, ReadExactly, Exact, Untouched
  <1>5. CommentsInv'
    BY <1>1 DEF ExactInv, CommentsInv, Untouched, Seen
  <1>6. QED
    BY <1>3, <1>4, <1>5, DefinedStays DEF ExactInv

\* Where no table is read, or the next one is about to be.
LEMMA NoDraft ==
    ASSUME ExactInv, UNCHANGED <<catalogVars, result>>,
           pc' \notin TableSteps \/ (pc' = "columns" /\ draft' = Blank /\ CommentsInv')
    PROVE  ExactInv'
  <1>1. UNCHANGED <<catalog, touched>>
    BY DEF catalogVars
  <1>2. DefinedInv' /\ ResultInv'
    BY <1>1 DEF ExactInv, DefinedInv, ResultInv, ReadExactly, Exact
  <1>3. DraftInv'
    BY QueriesInOrder, BlankIs, FieldsAre DEF DraftInv
  <1>4. CommentsInv'
    BY DEF CommentsInv
  <1>5. QED
    BY <1>2, <1>3, <1>4 DEF ExactInv

\* One field of the table is read as it is.
LEMMA FieldExact ==
    ASSUME WalkingInv, ExactInv, NEW field \in Fields \ {"exclusions"}, NEW answer,
           NEW next \in TableSteps, Query(field, answer, next), Same,
           \A x \in Fields : next \in After(x) => field \in After(x) \/ x = field,
           Reading \notin touched => Read(field, answer, Reading)
    PROVE  ExactInv'
  <1>1. /\ pc = field /\ pc' = next /\ draft' = [draft EXCEPT ![field] = answer]
        /\ UNCHANGED <<todo, result, catalog, touched, comments>> /\ Reading' = Reading
    BY DEF Query, Put, Unmoved, Reading, catalogVars, Same
  <1>2. pc \in TableSteps /\ draft = [x \in Fields |-> draft[x]]
    BY <1>1, StepsApart, ReadingIs DEF WalkingInv
  <1>3. \A x \in Fields : draft'[x] = IF x = field THEN answer ELSE draft[x]
    BY <1>1, <1>2
  <1>4. draft'.exclusions = {}
    BY <1>2, <1>3, FieldsAre DEF ExactInv, DraftInv
  <1>5. ASSUME Reading \notin touched, NEW x \in Fields, next \in After(x)
        PROVE  Read(x, draft'[x], Reading)
    BY <1>1, <1>2, <1>3, <1>5 DEF ExactInv, DraftInv
  <1>6. DraftInv'
    BY <1>1, <1>4, <1>5 DEF DraftInv, Read, Exact
  <1>7. DefinedInv' /\ ResultInv' /\ CommentsInv'
    BY <1>1, <1>2 DEF ExactInv, DefinedInv, ResultInv, ReadExactly, Exact, CommentsInv, Seen
  <1>8. QED
    BY <1>6, <1>7 DEF ExactInv

\* The queries about one table but the last.
LEMMA FieldsExact ==
    ASSUME MySqlDefinitions, WalkingInv, ExactInv,
           ReadColumns \/ ReadPrimaryKey \/ ReadForeignKeys \/ ReadUniques \/ ReadChecks
           \/ ChecksUnreadable \/ ReadIndexes
    PROVE  ExactInv'
  <1>1. ASSUME NEW field \in {"columns", "pk", "fks", "uniques", "checks", "indexes"}, NEW answer,
               NEW next \in TableSteps, Query(field, answer, next), Same,
               \/ field = "indexes" /\ answer = PlainIndexes(Seen(Reading))
               \/ field = "checks" /\ answer = {}
               \/ field # "indexes" /\ answer = Seen(Reading)[field],
               \A x \in Fields : next \in After(x) => field \in After(x) \/ x = field
        PROVE  ExactInv'
    <2>1. pc = field /\ pc \in TableSteps /\ field \in Fields \ {"exclusions"}
      BY <1>1, FieldsAre, StepsApart DEF Query
    <2>2. ASSUME Reading \notin touched PROVE Read(field, answer, Reading)
      <3>1. /\ Seen(Reading) = catalog[Reading]
            /\ \A x \in Fields \ {"indexes"} : Exact(Reading)[x] = catalog[Reading][x]
            /\ Exact(Reading).indexes = PlainIndexes(catalog[Reading])
        BY <2>1, <2>2, ExactIs DEF ExactInv
      <3> DEFINE s == Seen(Reading)  e == Exact(Reading)  c == catalog[Reading]  p == PlainIndexes(s)
      <3>2. \/ field = "indexes" /\ answer = p
            \/ field = "checks" /\ answer = {}
            \/ field # "indexes" /\ answer = s[field]
        BY <1>1
      <3>3. s = c /\ e["indexes"] = p /\ \A x \in Fields \ {"indexes"} : e[x] = c[x]
        BY <3>1
      <3> HIDE DEF s, e, c, p
      <3>4. field \in Fields
        BY <2>1
      <3>5. answer = e[field] \/ (field = "checks" /\ answer = {})
        BY <3>2, <3>3, <3>4
      <3>6. answer = Exact(Reading)[field] \/ (field = "checks" /\ answer = {})
        BY <3>5 DEF e
      <3>7. QED
        BY <3>6 DEF Read
    <2>3. QED
      BY <1>1, <2>1, <2>2, FieldExact
  <1>2. {"pk", "fks", "uniques", "checks", "indexes", "triggers"} \subseteq TableSteps
    BY FieldsAre DEF TableSteps
  <1>3. CASE ReadColumns
    BY <1>1, <1>2, <1>3, QueriesInOrder DEF ReadColumns
  <1>4. CASE ReadPrimaryKey
    BY <1>1, <1>2, <1>4, QueriesInOrder DEF ReadPrimaryKey
  <1>5. CASE ReadForeignKeys
    BY <1>1, <1>2, <1>5, QueriesInOrder DEF ReadForeignKeys
  <1>6. CASE ReadUniques
    BY <1>1, <1>2, <1>6, QueriesInOrder DEF ReadUniques
  <1>7. CASE ReadChecks
    BY <1>1, <1>2, <1>7, QueriesInOrder DEF ReadChecks
  <1>8. CASE ChecksUnreadable
    BY <1>1, <1>2, <1>8, QueriesInOrder DEF ChecksUnreadable
  <1>9. CASE ReadIndexes
    BY <1>1, <1>2, <1>9, QueriesInOrder DEF ReadIndexes
  <1>10. QED
    BY <1>3, <1>4, <1>5, <1>6, <1>7, <1>8, <1>9

\* The last query about a table: it goes into the result.
LEMMA TriggersExact ==
    ASSUME MySqlDefinitions, WalkingInv, ExactInv, ReadTriggers
    PROVE  ExactInv'
  <1> DEFINE table == TableOf(draft)
  <1>1. /\ pc = "triggers" /\ pc \in TableSteps /\ Complete(Reading, table, Tail(todo))
        /\ UNCHANGED comments
    BY MyPlacesAre DEF ReadTriggers, TableOf, Same
  <1>2. draft = [x \in Fields |-> draft[x]] /\ ReadInv /\ Reading \in Tables
    BY <1>1, ReadingIs DEF WalkingInv
  <1>3. /\ table = [x \in Fields |-> table[x]]
        /\ \A x \in Fields : table[x] = IF x = "triggers" THEN Seen(Reading).triggers
                                        ELSE IF x = "comment" THEN CommentOf(Reading) ELSE draft[x]
    BY <1>2, FieldsAre DEF TableOf
  <1>4. ASSUME Reading \notin touched PROVE ReadExactly(table, Reading)
    <2> DEFINE d == Exact(Reading)
    <2>1. \A x \in Fields \ {"comment", "triggers", "exclusions"} : Read(x, draft[x], Reading)
      BY <1>1, <1>4, QueriesInOrder DEF ExactInv, DraftInv
    <2>2. /\ Seen(Reading) = catalog[Reading] /\ catalog[Reading].exclusions = {}
          /\ d = [x \in Fields |-> d[x]]
          /\ \A x \in Fields \ {"indexes"} : d[x] = catalog[Reading][x]
      BY <1>1, <1>4, ExactIs DEF ExactInv
    <2>3. draft.exclusions = {} /\ CommentOf(Reading) = Seen(Reading).comment
      BY <1>1, <1>2, <1>4 DEF ExactInv, DraftInv, CommentsInv, CommentOf
    <2> HIDE DEF table, d
    <2>4. \A x \in Fields \ {"checks"} : table[x] = d[x]
      BY <1>3, <2>1, <2>2, <2>3, FieldsAre DEF Read, d
    <2>5. table.checks = d.checks \/ table.checks = {}
      BY <1>3, <2>1, FieldsAre DEF Read, d
    <2>6. CASE table.checks = d.checks
      <3>1. \A x \in Fields : table[x] = d[x]
        BY <2>4, <2>6
      <3>2. table = d
        BY <1>3, <2>2, <3>1
      <3>3. QED
        BY <3>2 DEF ReadExactly, d
    <2>7. CASE table.checks = {}
      <3> DEFINE e == [d EXCEPT !.checks = {}]
      <3>1. e = [x \in Fields |-> IF x = "checks" THEN {} ELSE d[x]]
        BY <2>2
      <3>2. \A x \in Fields : table[x] = IF x = "checks" THEN {} ELSE d[x]
        BY <2>4, <2>7
      <3>3. table = e
        BY <1>3, <3>1, <3>2
      <3>4. QED
        BY <3>3 DEF ReadExactly, d
    <2>8. QED
      BY <2>5, <2>6, <2>7
  <1>5. DOMAIN table = Fields
    BY <1>3
  <1> HIDE DEF table
  <1>6. \A i \in DOMAIN result' :
            result'[i] = [table |-> Reading, def |-> table]
            \/ (i \in DOMAIN result /\ result'[i] = result[i])
    BY <1>1, <1>2, <1>5, TableRead
  <1>7. UNCHANGED <<catalog, touched>> /\ pc' \in {"columns", AfterTables} /\ draft' = Blank
    BY <1>1 DEF Complete, Unmoved, catalogVars
  <1>8. ResultInv'
    <2>1. ASSUME NEW i \in DOMAIN result', result'[i].table \notin touched
          PROVE  ReadExactly(result'[i].def, result'[i].table)
      <3>1. CASE result'[i] = [table |-> Reading, def |-> table]
        BY <1>4, <2>1, <3>1
      <3>2. CASE i \in DOMAIN result /\ result'[i] = result[i]
        BY <2>1, <3>2 DEF ExactInv, ResultInv
      <3>3. QED
        BY <1>6, <3>1, <3>2
    <2>2. QED
      BY <1>7, <2>1 DEF ResultInv, ReadExactly, Exact
  <1>9. DraftInv' /\ CommentsInv' /\ DefinedInv'
    <2>1. pc' = "columns" \/ pc' \in {"done", "views"}
      BY <1>7 DEF AfterTables
    <2>2. "done" \notin TableSteps /\ "views" \notin TableSteps
      BY StepsApart DEF AfterReflection, ObjectSteps
    <2>3. DraftInv'
      BY <1>7, <2>1, <2>2, QueriesInOrder, BlankIs, FieldsAre DEF DraftInv
    <2>4. CommentsInv' /\ DefinedInv'
      BY <1>1, <1>7 DEF ExactInv, CommentsInv, DefinedInv, Seen
    <2>5. QED
      BY <2>3, <2>4
  <1>10. QED
    BY <1>8, <1>9 DEF ExactInv

\* Every step keeps what was read of untouched tables exact.
LEMMA NextExact ==
    MySqlDefinitions /\ WalkingInv /\ ExactInv /\ [Next]_vars => ExactInv'
  <1> SUFFICES ASSUME MySqlDefinitions, WalkingInv, ExactInv, [Next]_vars
               PROVE  ExactInv'
    OBVIOUS
  <1>1. \A p \in {"schemas", "list", "failed", "missing", "views", "viewColumns", "sequences", "sequence",
                  "functions", "done", "copying", "copied", "refused"} : p \notin TableSteps
    BY FieldsAre DEF TableSteps
  <1>2. CASE UNCHANGED vars
    <2>1. Untouched /\ UNCHANGED <<reflectVars, pc>> /\ UNCHANGED comments
      BY <1>2 DEF vars, catalogVars, Untouched
    <2>2. QED
      BY <2>1, OthersExact
  <1>3. CASE Ddl
    <2>1. Untouched /\ UNCHANGED <<reflectVars, pc>> /\ UNCHANGED comments
      BY <1>3, DdlWalks DEF Ddl
    <2>2. QED
      BY <2>1, OthersExact
  <1>4. CASE Fail
    BY <1>1, <1>4, NoDraft DEF Fail, GiveUp, Unmoved
  <1>5. CASE Copy
    <2>1. UNCHANGED <<catalogVars, result>> /\ pc' \in {"copying", "copied", "refused"}
      BY <1>5 DEF Copy, StartCopy, Execute, Refuse, Copied, reflectVars
    <2>2. QED
      BY <1>1, <2>1, NoDraft
  <1>6. CASE ListSchemasMy \/ NoSequence \/ ReadViews \/ ListSequences \/ SequencesUnlisted \/ ReadSequence
             \/ ReadFunctionsMy
    <2>1. /\ UNCHANGED <<catalogVars, result>>
          /\ pc' \in {"list", "missing", "sequences", "viewColumns", "sequence", "functions", "done"}
      BY <1>6 DEF ListSchemasMy, ListSchemas, NoSequence, GiveUp, ReadViews, ListViews, ReadViewColumns,
                 ListSequences, SequencesUnlisted, ToSequences, ReadSequence, ReadFunctionsMy, ReadFunctions,
                 ToObjects, Unmoved
    <2>2. QED
      BY <1>1, <2>1, NoDraft
  <1>7. CASE ReadTables
    <2>1. /\ UNCHANGED <<catalogVars, result, draft>> /\ pc = "list"
          /\ pc' \in {"columns", "missing", "views"} /\ UNCHANGED catalog
          /\ comments' = [t \in Tables |-> Seen(t).comment]
      BY <1>7 DEF ReadTables, ListTables, Unmoved, catalogVars
    <2>2. draft = Blank
      BY <1>1, <2>1 DEF WalkingInv, ReadInv, WalkInv, Failures
    <2>3. CommentsInv'
      BY <2>1 DEF CommentsInv, Seen
    <2>4. QED
      BY <1>1, <2>1, <2>2, <2>3, NoDraft
  <1>8. QED
    BY <1>2, <1>3, <1>4, <1>5, <1>6, <1>7, FieldsExact, TriggersExact DEF Next, Reflect

\* Nothing has been read at the beginning.
LEMMA InitExact == Init => ExactInv
  <1> SUFFICES ASSUME Init PROVE ExactInv
    OBVIOUS
  <1>1. result = <<>> /\ pc \in {"schemas", "list"} /\ CatalogInit
    BY DEF Init, ReflectionInit
  <1>2. pc \notin TableSteps
    BY <1>1, FieldsAre DEF TableSteps
  <1>3. QED
    BY <1>1, <1>2 DEF ExactInv, DraftInv, ResultInv, CommentsInv, DefinedInv, CatalogInit

\* What has been read is exact.
LEMMA ExactlyRead == WalkingInv /\ ExactInv => UntouchedIsExact
  <1> SUFFICES ASSUME WalkingInv, ExactInv PROVE UntouchedIsExact
    OBVIOUS
  <1>1. ReadOnce /\ ObjectsExact("views") /\ ObjectsExact("functions")
    BY TablesOnce, ObjectsOnce DEF WalkingInv, OthersCovered, Kinds
  <1>2. NoSequences \/ ObjectsExact("sequences")
    BY ObjectsOnce DEF WalkingInv, OthersCovered, SequencesInv, Kinds
  <1>3. QED
    BY <1>1, <1>2 DEF ExactInv, ResultInv, ReadExactly, UntouchedIsExact

\* Reflection without a transaction is exact where nobody interferes, but for
\* checks and sequences that could not be read (reflect.rs 37-44, 54-101,
\* 271-296, 389-396).
THEOREM ReflectionIsExact == MySqlDefinitions => (Spec => []UntouchedIsExact)
  <1> SUFFICES ASSUME MySqlDefinitions PROVE Spec => []UntouchedIsExact
    OBVIOUS
  <1>1. QED
    BY InitExact, ExactlyRead, InitWalking, NextWalks, NextExact, PTL DEF Spec

-----------------------------------------------------------------------------
(* The copy.                                                               *)

\* The copy of a table nobody changed has what its statements have made so far.
CopyingInv ==
    /\ pc \notin CopyStates => target = Gone
    /\ pc \in CopyStates /\ subject \notin touched \cup {Every} =>
          /\ subject \in Present /\ pc # "refused" /\ (pc = "copied" => script = <<>>)
          /\ \E d : ReadExactly(d, subject) /\ Making(d, Elements)

\* A table in the result that nobody changed is there.
LEMMA ResultIsThere ==
    ASSUME WalkingInv, ResultInv, NEW i \in DOMAIN result, result[i].table \notin touched
    PROVE  result[i].table \in Present
  <1> DEFINE t == result[i].table  d == result[i].def
  <1>1. t \in Tables /\ DOMAIN d = Fields /\ ReadExactly(d, t)
    BY DEF WalkingInv, ReadInv, TablesInv, ResultInv
  <1>2. DOMAIN Exact(t) = DOMAIN catalog[t] /\ DOMAIN d = DOMAIN Exact(t)
    BY <1>1 DEF ReadExactly, Exact
  <1>3. QED
    BY <1>1, <1>2, CatalogAssumption DEF Present

\* What was read of it.
LEMMA ReadIs ==
    ASSUME MySqlDefinitions, CatalogInv, DefinedInv, NEW t \in Present \ touched,
           NEW d, ReadExactly(d, t)
    PROVE  /\ \A field \in {"columns", "pk", "uniques", "fks"} : d[field] = catalog[t][field]
           /\ d.checks \in {catalog[t].checks, {}}
           /\ d.indexes = catalog[t].indexes \cup Implicit(catalog[t])
  <1> DEFINE e == Exact(t)
  <1>1. /\ e = [field \in Fields |-> e[field]]
        /\ \A field \in Fields \ {"indexes"} : e[field] = catalog[t][field]
        /\ e.indexes = catalog[t].indexes \cup Implicit(catalog[t])
    BY ExactOf
  <1>2. d = e \/ d = [e EXCEPT !.checks = {}]
    BY DEF ReadExactly
  <1> HIDE DEF e
  <1>3. \A field \in Fields \ {"checks"} : d[field] = e[field]
    BY <1>1, <1>2
  <1>4. d.checks = e.checks \/ d.checks = {}
    BY <1>1, <1>2, FieldsAre
  <1>5. QED
    BY <1>1, <1>3, <1>4, FieldsAre

\* It can be copied.
LEMMA CopyableIs ==
    ASSUME MySqlDefinitions, IdentitiesInKey, CatalogInv, DefinedInv, subject \in Present \ touched,
           NEW d, ReadExactly(d, subject)
    PROVE  Copyable(d, Elements)
  <1> DEFINE c == catalog[subject]
  <1>1. /\ subject \in Tables /\ IsDefinition(c) /\ c \in Definitions[subject] \ {Gone}
        /\ \A i \in c.indexes : ~i.unique
        /\ \A i, j \in ServerIndexes(c) : i.name = j.name => i = j
    BY ExactOf DEF Present
  <1>2. /\ d.columns = c.columns /\ d.pk = c.pk /\ d.uniques = c.uniques /\ d.fks = c.fks
        /\ d.checks \subseteq c.checks /\ d.indexes = c.indexes \cup Implicit(c)
    BY ReadIs
  <1>3. /\ \A e \in c.uniques \cup c.indexes \cup c.fks \cup c.checks : e.columns \subseteq ColumnNames(c)
        /\ \A f \in c.fks : catalog[f.table] # Gone /\ f.refs \in KeysOf(catalog[f.table])
    BY <1>1 DEF CatalogInv, CatalogTypeOK, WellFormed, Present
  <1>4. /\ c.uniques \subseteq Constraints /\ c.checks \subseteq Constraints
        /\ c.indexes \subseteq Indexes /\ c.fks \subseteq ForeignKeys
        /\ \A i, j \in c.uniques : i.name = j.name => i = j
    BY <1>1 DEF IsDefinition
  <1> HIDE DEF c
  <1>5. ASSUME NEW i \in Implicit(c)
        PROVE  ~i.unique /\ DOMAIN i = {"name", "columns", "unique"} /\ \E f \in c.fks : i.columns = f.columns
    BY DEF Implicit
  <1>6. \A e \in c.uniques \cup c.indexes \cup c.fks \cup c.checks : e.columns # {}
    BY <1>4 DEF Constraints, Indexes, ForeignKeys, ColumnSets
  <1>7. \A kind \in Elements : \A e \in d[kind] : e.columns # {} /\ e.columns \subseteq ColumnNames(d)
    <2>1. \A e \in c.uniques \cup c.indexes \cup c.fks \cup c.checks \cup Implicit(c) :
              e.columns # {} /\ e.columns \subseteq ColumnNames(d)
      BY <1>2, <1>3, <1>5, <1>6 DEF ColumnNames
    <2>2. QED
      BY <1>2, <2>1 DEF Elements
  <1>8. \A i \in d.indexes : ~i.unique /\ DOMAIN i = {"name", "columns", "unique"} /\ i \in ServerIndexes(c)
    BY <1>1, <1>2, <1>4, <1>5 DEF Indexes, ServerIndexes
  <1>9. d.uniques \cap d.indexes = {}
    BY <1>2, <1>4, <1>8 DEF Constraints
  <1>10. ASSUME NEW u \in d.uniques, NEW i \in d.indexes PROVE u.name # i.name
    <2> DEFINE j == [name |-> u.name, columns |-> u.columns, unique |-> TRUE]
    <2>1. j \in ServerIndexes(c) /\ j.name = u.name /\ j.unique
      BY <1>2, <1>10 DEF ServerIndexes
    <2> HIDE DEF j
    <2>2. QED
      BY <1>1, <1>8, <1>10, <2>1
  <1>11. \A i, j \in d.uniques \cup d.indexes : i.name = j.name => i = j
    BY <1>1, <1>2, <1>4, <1>8, <1>10
  <1>12. \A f \in d.fks : f.table = subject =>
             f.refs \in ({d.pk} \ {{}}) \cup {u.columns : u \in d.uniques}
    <2>1. KeysOf(c) = ({c.pk} \ {{}}) \cup {u.columns : u \in c.uniques}
      BY <1>1 DEF KeysOf
    <2>2. QED
      BY <1>2, <1>3, <2>1 DEF c
  <1>13. KeyedIdentity => \A x \in ColumnNames(d) : d.columns[x] = "identity" => x \in d.pk
    BY <1>1, <1>2 DEF IdentitiesInKey, ColumnNames
  <1>14. QED
    BY <1>7, <1>9, <1>11, <1>12, <1>13 DEF Copyable

\* Nobody but the caller that makes the copy has anything to do with it.
LEMMA OthersCopy ==
    ASSUME Ddl \/ Reflect \/ Fail
    PROVE  pc \notin CopyStates /\ pc' \notin CopyStates /\ UNCHANGED copyVars
  <1>1. CASE Ddl \/ Fail
    BY <1>1 DEF Ddl, Fail, Ended, GiveUp, Unmoved, CopyStates, copyVars
  <1>2. CASE Reflect
    <2>1. /\ pc \in {"schemas", "list", "columns", "pk", "fks", "uniques", "checks", "indexes", "triggers",
                     "views", "viewColumns", "sequences", "sequence", "functions"}
          /\ pc' \in {"list", "columns", "pk", "fks", "uniques", "checks", "indexes", "triggers", "views",
                      "viewColumns", "sequences", "sequence", "functions", "missing", "done"}
          /\ UNCHANGED copyVars
      BY <1>2 DEF Reflect, ListSchemasMy, ListSchemas, ReadTables, ListTables, ReadColumns, ReadPrimaryKey,
                 ReadForeignKeys, ReadUniques, ReadChecks, ChecksUnreadable, ReadIndexes, ReadTriggers, Query,
                 Complete, AfterTables, ReadViews, ListViews, ReadViewColumns, ToObjects, ListSequences,
                 SequencesUnlisted, ToSequences, ReadSequence, NoSequence, GiveUp, ReadFunctionsMy,
                 ReadFunctions, Unmoved
    <2>2. QED
      BY <2>1 DEF CopyStates
  <1>3. QED
    BY <1>1, <1>2

\* The copy begins,
LEMMA CopyBegins ==
    ASSUME WalkingInv, ResultInv, CopyingInv, StartCopy
    PROVE  CopyingInv'
  <1>1. PICK i \in DOMAIN result : subject' = result[i].table /\ script' = RenderDdl(result[i].def)
    BY DEF StartCopy
  <1>2. /\ pc = "done" /\ pc' = "copying" /\ UNCHANGED <<catalog, touched, target>>
    BY DEF StartCopy, catalogVars
  <1>3. target = Gone
    BY <1>2 DEF CopyingInv, CopyStates
  <1> SUFFICES ASSUME subject' \notin touched' \cup {Every}
               PROVE  /\ (subject \in Present)'
                      /\ \E d : ReadExactly(d, subject)' /\ Making(d, Elements)'
    BY <1>2 DEF CopyingInv, CopyStates
  <1>4. PICK d : d = result[i].def
    OBVIOUS
  <1>5. ReadExactly(d, result[i].table) /\ result[i].table \in Present /\ FiniteParts(d)
    BY <1>1, <1>2, <1>4, ResultIsThere DEF ResultInv, WalkingInv, FiniteInv
  <1>6. ReadExactly(d, subject)' /\ (subject \in Present)'
    BY <1>1, <1>2, <1>5 DEF ReadExactly, Exact, Implicit, Present
  <1>7. Making(d, Elements)'
    BY <1>1, <1>2, <1>3, <1>4, <1>5, RenderedAre DEF Making
  <1>8. QED
    BY <1>6, <1>7

\* and goes on.
LEMMA CopyingGoesOn ==
    ASSUME MySqlDefinitions, IdentitiesInKey, WalkingInv, DefinedInv, CopyingInv,
           Execute \/ Refuse \/ Copied
    PROVE  CopyingInv'
  <1>1. /\ pc = "copying" /\ pc' \in CopyStates /\ UNCHANGED <<catalog, touched, subject>>
    BY DEF Execute, Refuse, Copied, CopyStates, catalogVars, copyVars
  <1> SUFFICES ASSUME subject' \notin touched' \cup {Every}
               PROVE  /\ (subject \in Present)' /\ pc' # "refused" /\ (pc' = "copied" => script' = <<>>)
                      /\ \E d : ReadExactly(d, subject)' /\ Making(d, Elements)'
    BY <1>1 DEF CopyingInv
  <1>2. subject \in Present \ touched
    BY <1>1 DEF CopyingInv, CopyStates
  <1>3. PICK d : ReadExactly(d, subject) /\ Making(d, Elements)
    BY <1>1 DEF CopyingInv, CopyStates
  <1>4. ReadExactly(d, subject)' /\ (subject \in Present)'
    BY <1>1, <1>2, <1>3 DEF ReadExactly, Exact, Implicit, Present
  <1>5. ElementKinds(Elements)
    BY DEF ElementKinds, Elements
  <1>6. script # <<>> => Accepts(Head(script)[1], Head(script)[2])
    BY <1>2, <1>3, <1>5, CopyableIs, NextAccepted DEF WalkingInv, ReadInv
  <1>7. ~Refuse
    BY <1>6 DEF Refuse
  <1>8. CASE Execute
    BY <1>1, <1>3, <1>4, <1>5, <1>8, MakingGoesOn DEF Execute
  <1>9. CASE Copied
    BY <1>3, <1>4, <1>9, MakingStays DEF Copied, copyVars
  <1>10. QED
    BY <1>7, <1>8, <1>9

\* Every step keeps the copy on its way.
LEMMA NextCopying ==
    MySqlDefinitions /\ IdentitiesInKey /\ WalkingInv /\ ExactInv /\ CopyingInv /\ [Next]_vars => CopyingInv'
  <1> SUFFICES ASSUME MySqlDefinitions, IdentitiesInKey, WalkingInv, ExactInv, CopyingInv, [Next]_vars
               PROVE  CopyingInv'
    OBVIOUS
  <1>1. CASE Ddl \/ Reflect \/ Fail
    BY <1>1, OthersCopy DEF CopyingInv, copyVars
  <1>2. CASE Copy
    BY <1>2, CopyBegins, CopyingGoesOn DEF Copy, ExactInv
  <1>3. CASE UNCHANGED vars
    <2>1. UNCHANGED <<catalog, touched, pc, subject, script, target>>
      BY <1>3 DEF vars, catalogVars, copyVars
    <2>2. \A d : ReadExactly(d, subject) /\ Making(d, Elements)
                     => ReadExactly(d, subject)' /\ Making(d, Elements)'
      BY <2>1, MakingStays DEF ReadExactly, Exact, Implicit
    <2>3. Present' = Present
      BY <2>1 DEF Present
    <2>4. QED
      BY <2>1, <2>2, <2>3 DEF CopyingInv
  <1>4. QED
    BY <1>1, <1>2, <1>3 DEF Next

\* No copy is made at the beginning.
LEMMA InitCopying == Init => CopyingInv
  BY DEF Init, ReflectionInit, CopyingInv, CopyStates

\* A copy that is made has everything.
LEMMA IdenticallyCopied ==
    MySqlDefinitions /\ WalkingInv /\ ExactInv /\ CopyingInv => CopyIsIdentical
  <1> SUFFICES ASSUME MySqlDefinitions, WalkingInv, ExactInv, CopyingInv,
                      subject \notin touched \cup {Every}, pc \in CopyStates
               PROVE  /\ pc # "refused"
                      /\ pc = "copied" =>
                            /\ \A field \in {"columns", "pk", "uniques", "fks"} :
                                  target[field] = catalog[subject][field]
                            /\ target.checks \in {catalog[subject].checks, {}}
                            /\ ServerIndexes(target) = ServerIndexes(catalog[subject])
    BY DEF CopyIsIdentical, CopyStates
  <1>1. pc # "refused"
    BY DEF CopyingInv
  <1>2. ASSUME pc = "copied"
        PROVE  /\ \A field \in {"columns", "pk", "uniques", "fks"} :
                     target[field] = catalog[subject][field]
               /\ target.checks \in {catalog[subject].checks, {}}
               /\ ServerIndexes(target) = ServerIndexes(catalog[subject])
    <2> DEFINE c == catalog[subject]
    <2>1. PICK d : ReadExactly(d, subject) /\ Making(d, Elements)
      BY DEF CopyingInv
    <2>2. script = <<>> /\ subject \in Present \ touched
      BY <1>2 DEF CopyingInv
    <2>3. target.columns = d.columns /\ target.pk = d.pk /\ \A kind \in Elements : target[kind] = d[kind]
      BY <2>1, <2>2, MadeInTheEnd
    <2>4. /\ \A field \in {"columns", "pk", "uniques", "fks"} : target[field] = c[field]
          /\ target.checks \in {c.checks, {}}
          /\ target.indexes = c.indexes \cup Implicit(c)
      BY <2>1, <2>2, <2>3, ReadIs DEF Elements, WalkingInv, ReadInv, ExactInv
    <2> HIDE DEF c
    <2>5. Implicit(target) = {}
      <3>1. SUFFICES ASSUME NEW f \in c.fks,
                            \A e \in target.indexes \cup c.uniques : e.columns # f.columns /\ c.pk # f.columns
                     PROVE  FALSE
        BY <2>4 DEF Implicit
      <3>2. [name |-> f.name, columns |-> f.columns, unique |-> FALSE] \in Implicit(c)
        BY <2>4, <3>1 DEF Implicit
      <3>3. QED
        BY <2>4, <3>1, <3>2
    <2>6. ServerIndexes(target) = ServerIndexes(c)
      BY <2>4, <2>5 DEF ServerIndexes
    <2>7. QED
      BY <2>4, <2>6 DEF c
  <1>3. QED
    BY <1>1, <1>2

\* The statements of render_ddl are accepted in the order they come in, and make
\* the table that was reflected, if every identity column is in the primary key
\* (ddl.rs 103-153).
THEOREM CopiesAreIdentical == MySqlDefinitions /\ IdentitiesInKey => (Spec => []CopyIsIdentical)
  <1> SUFFICES ASSUME MySqlDefinitions, IdentitiesInKey PROVE Spec => []CopyIsIdentical
    OBVIOUS
  <1>1. WalkingInv /\ ExactInv /\ CopyingInv /\ [Next]_vars => WalkingInv' /\ ExactInv' /\ CopyingInv'
    BY NextWalks, NextExact, NextCopying
  <1>2. WalkingInv /\ ExactInv /\ CopyingInv => CopyIsIdentical
    BY IdenticallyCopied
  <1>3. QED
    BY <1>1, <1>2, InitWalking, InitExact, InitCopying, PTL DEF Spec
=============================================================================
