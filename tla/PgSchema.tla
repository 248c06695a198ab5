------------------------------ MODULE PgSchema ------------------------------
(***************************************************************************)
(* Postgres: reflection (reflect.rs) while callers of create_table,        *)
(* create_index and alter_table (ddl.rs) change the schema, and the copy   *)
(* of a reflected table by the statements of render_ddl.                   *)
(***************************************************************************)
EXTENDS Reflection

CONSTANTS
    DroppedName,  \* "........pg.dropped.N........", the name a dropped column keeps
    Enums         \* the enum types of columns

\* An enum type is in some schema under some name, and sessions have that
\* schema in their search path or not.
EnumInfo == [schema : Range(Schemas), name : STRING, onPath : BOOLEAN, qualified : STRING]

ColumnKinds == {"plain", "required", "identity"} \cup DOMAIN Enums

ASSUME EnumAssumption ==
    /\ \A e \in DOMAIN Enums : Enums[e] \in EnumInfo
    /\ \A e, g \in DOMAIN Enums :
          \/ Enums[e].schema = Enums[g].schema /\ Enums[e].name = Enums[g].name
          \/ Enums[e].qualified = Enums[g].qualified
          => e = g
    /\ \A e \in DOMAIN Enums : Enums[e].qualified \notin ColumnKinds
    /\ \A t \in Tables : \A d \in Definitions[t] \ {Gone} : \A c \in ColumnNames(d) :
          d.columns[c] \in ColumnKinds

VARIABLES
    labels,       \* load_enum_types: the enum type per name
    pending       \* elements whose column names are still to be looked up

pgVars == <<labels, pending>>
vars == <<catalogVars, reflectVars, pc, copyVars, pgVars>>

Init == ReflectionInit("enums") /\ labels = <<>> /\ pending = <<>>

Ended == pc \in Ends \cup CopyStates

-----------------------------------------------------------------------------
(* Other callers: DDL that Postgres does in its own way.                   *)

Without(d, c) ==
    [d EXCEPT !.columns = [x \in DOMAIN @ \ {c} |-> @[x]],
              !.pk = IF c \in @ THEN {} ELSE @,
              !.uniques = {u \in @ : c \notin u.columns},
              !.indexes = {i \in @ : c \notin i.columns},
              !.fks = {f \in @ : c \notin f.columns},
              !.checks = {k \in @ : c \notin k.columns},
              !.exclusions = {k \in @ : c \notin k.columns}]

\* DropColumn takes all that rests on the column with it, but not the foreign
\* keys that reference it.
DropColumn(t) ==
    /\ t \in Present
    /\ \E c \in ColumnNames(catalog[t]) : Define(t, Without(catalog[t], c))
    /\ UNCHANGED oid

\* AlterColumnType casts the values and keeps everything else of the column; of
\* the types only enums are told apart from others.
AlterColumnType(t) ==
    /\ t \in Present
    /\ \E c \in ColumnNames(catalog[t]) :
          /\ catalog[t].columns[c] \in DOMAIN Enums
          /\ Define(t, [catalog[t] EXCEPT !.columns[c] = "plain"])
    /\ UNCHANGED oid

\* drop_table_stmt, with the CASCADE of this dialect.
DropTable(t) ==
    LET left(u) == [catalog[u] EXCEPT !.fks = @ \ References(catalog[u], t)] IN
    /\ t \in Present /\ ddls < MaxDdl
    /\ catalog' = [u \in Tables |->
                      IF u \notin Present \/ u = t THEN Gone ELSE left(u)]
    /\ touched' = touched \cup {t}
                  \cup {u \in Present : References(catalog[u], t) # {}}
    /\ ddls' = ddls + 1
    /\ UNCHANGED <<oid, others>>

\* What others change after the reflection touches neither its result nor the
\* copy, and is left out.
Ddl ==
    /\ ~Ended
    /\ CommonDdl \/ \E t \in Tables : DropColumn(t) \/ AlterColumnType(t) \/ DropTable(t)
    /\ UNCHANGED <<reflectVars, pc, copyVars, pgVars>>

-----------------------------------------------------------------------------
(* reflect_schema, reflect_schema_named and reflect_table.                 *)

Same == UNCHANGED pgVars

ListSchemasPg == ListSchemas("enums") /\ Same

\* load_enum_types: the labels of the schema's enum types, by their bare names.
LoadEnumTypes ==
    LET own == {e \in DOMAIN Enums : Enums[e].schema = Head(queue)} IN
    /\ pc = "enums"
    /\ labels' = [n \in {Enums[e].name : e \in own} |-> CHOOSE e \in own : Enums[e].name = n]
    /\ pc' = "list"
    /\ UNCHANGED <<queue, todo, draft, result, objectVars, pending>> /\ Unmoved

\* map_pg_type of format_type: it qualifies the name of a type whose schema is
\* not in the search path, and no label set has a qualified name.
Category(kind) ==
    IF kind \notin DOMAIN Enums THEN kind
    ELSE IF ~Enums[kind].onPath THEN Enums[kind].qualified
    ELSE IF Enums[kind].name \in DOMAIN labels THEN labels[Enums[kind].name]
    ELSE Enums[kind].name

Categories(columns) == [c \in DOMAIN columns |-> Category(columns[c])]

ReadTables == ListTables /\ Same
ReadColumns == Query("columns", Categories(Seen(Reading).columns), "pk") /\ Same
ReadPrimaryKey == Query("pk", Seen(Reading).pk, "fks") /\ Same

\* Mutant: the last foreign key is looked up again.
LookupAgain(rest) == "fkColumns"

\* Column names are looked up foreign key by foreign key.
NextLookup(rest) == IF rest = <<>> THEN "uniques" ELSE "fkColumns"

\* The foreign keys come with table identities and column numbers.
ReadForeignKeys ==
    /\ pc = "fks"
    /\ pending' = SetToSeq({[fk |-> f, own |-> oid[Reading], ref |-> oid[f.table]] :
                            f \in Seen(Reading).fks})
    /\ pc' = NextLookup(pending')
    /\ UNCHANGED <<queue, todo, draft, result, objectVars, labels>> /\ Unmoved

Exists(t, id) == t \in Present /\ oid[t] = id

\* The names behind column numbers: a dropped column still has one.
Names(t, columns) ==
    {IF c \in ColumnNames(catalog[t]) THEN c ELSE DroppedName : c \in columns}

\* resolve_column_names fails when the table is not there any more.
LookupFailed ==
    /\ \/ pc = "fkColumns" /\ ~Exists(Reading, Head(pending).own)
       \/ pc = "fkRefs" /\ ~Exists(Head(pending).fk.table, Head(pending).ref)
    /\ GiveUp("missing") /\ Same

LookupColumns ==
    /\ pc = "fkColumns" /\ Exists(Reading, Head(pending).own)
    /\ pending' = [pending EXCEPT ![1].fk.columns = Names(Reading, @)]
    /\ pc' = "fkRefs"
    /\ UNCHANGED <<queue, todo, draft, result, objectVars, labels>> /\ Unmoved

LookupRefs ==
    LET f == Head(pending).fk IN
    /\ pc = "fkRefs" /\ Exists(f.table, Head(pending).ref)
    /\ Put("fks", draft.fks \cup {[f EXCEPT !.refs = Names(f.table, @)]})
    /\ pending' = Tail(pending)
    /\ pc' = NextLookup(pending')
    /\ UNCHANGED <<queue, todo, result, objectVars, labels>> /\ Unmoved

ReadUniques == Query("uniques", Seen(Reading).uniques, "checks") /\ Same
ReadChecks == Query("checks", Seen(Reading).checks, "exclusions") /\ Same
ReadExclusions == Query("exclusions", Seen(Reading).exclusions, "indexes") /\ Same

\* The indexes but the primary key's, as the server keeps them.
ServerIndexes(d) ==
    d.indexes \cup {[name |-> u.name, columns |-> u.columns, unique |-> TRUE] : u \in d.uniques}

\* The indexes that a constraint rests on (conindid): a unique constraint on its
\* own, a foreign key on the one of the table it references.
Supporting(t) ==
    {i \in ServerIndexes(Seen(t)) : i.unique /\
        \/ i.name \in {u.name : u \in Seen(t).uniques}
        \/ \E u \in Present : \E f \in References(catalog[u], t) : f.refs = i.columns}

\* Mutant: indexes are listed whether a constraint rests on them or not.
AnyIndex(t) == ServerIndexes(Seen(t))

\* The query leaves out every index that some constraint rests on.
PlainIndexes(t) == ServerIndexes(Seen(t)) \ Supporting(t)

ReadIndexes ==
    /\ pc = "indexes"
    /\ pending' = SetToSeq({[index |-> i, own |-> oid[Reading]] : i \in PlainIndexes(Reading)})
    /\ pc' = IF pending' = <<>> THEN "triggers" ELSE "indexColumns"
    /\ UNCHANGED <<queue, todo, draft, result, objectVars, labels>> /\ Unmoved

\* The columns of an index that was dropped meanwhile are none.
ReadIndexColumns ==
    LET p == Head(pending)
        there == Exists(Reading, p.own) /\ p.index \in ServerIndexes(catalog[Reading])
    IN
    /\ pc = "indexColumns"
    /\ Put("indexes", draft.indexes \cup
                      {IF there THEN p.index ELSE [p.index EXCEPT !.columns = {}]})
    /\ pending' = Tail(pending)
    /\ pc' = IF pending' = <<>> THEN "triggers" ELSE "indexColumns"
    /\ UNCHANGED <<queue, todo, result, objectVars, labels>> /\ Unmoved

ReadTriggers == Query("triggers", Seen(Reading).triggers, "comment") /\ Same

\* fetch_one: a table that is gone by now is an error.
ReadComment ==
    /\ pc = "comment" /\ Reading \in Present
    /\ Complete(Reading, [draft EXCEPT !.comment = catalog[Reading].comment], Tail(todo))
    /\ Same

\* Mutant: the query is repeated until it has an answer.
AskAgain == pc = "comment" /\ Reading \notin Present /\ UNCHANGED vars

NoComment ==
    /\ pc = "comment" /\ Reading \notin Present
    /\ GiveUp("missing") /\ Same

ReadViews == (ListViews \/ ReadViewColumns) /\ Same

\* One query has the sequences with all their attributes.
ReadSequences ==
    /\ pc = "sequences"
    /\ found' = found \o Entries("sequences")
    /\ ToObjects("functions") /\ UNCHANGED listed /\ Same

ReadFunctionsPg == ReadFunctions("enums") /\ Same

\* A session cannot be had, or it breaks.
Fail == ~Ended /\ GiveUp("failed") /\ Same

Reflect ==
    \/ ListSchemasPg \/ LoadEnumTypes \/ ReadTables \/ ReadColumns \/ ReadPrimaryKey \/ ReadForeignKeys
    \/ LookupFailed \/ LookupColumns \/ LookupRefs \/ ReadUniques \/ ReadChecks
    \/ ReadExclusions \/ ReadIndexes \/ ReadIndexColumns \/ ReadTriggers
    \/ ReadComment \/ NoComment \/ ReadViews \/ ReadSequences \/ ReadFunctionsPg

-----------------------------------------------------------------------------
(* render_ddl, and the copy.                                               *)

\* category_to_pg_type: an enum column becomes text, a type that was not
\* recognized is passed through.
Rendered(kind) ==
    IF kind \in DOMAIN Enums THEN "plain"
    ELSE IF \E e \in DOMAIN Enums : Enums[e].qualified = kind
         THEN CHOOSE e \in DOMAIN Enums : Enums[e].qualified = kind
    ELSE kind

RenderedTable(d) ==
    <<<<"table", [d EXCEPT !.columns = [c \in DOMAIN @ |-> Rendered(@[c])]]>>>>

\* Mutant: foreign keys are added before the keys they may reference.
ForeignKeysFirst(d) ==
    RenderedTable(d) \o Statements("fks", d.fks) \o Statements("uniques", d.uniques)
    \o Statements("checks", d.checks) \o Statements("exclusions", d.exclusions)
    \o Statements("indexes", d.indexes)

\* CREATE TABLE with the primary key, then one statement per element.
RenderDdl(d) ==
    RenderedTable(d) \o Statements("uniques", d.uniques)
    \o Statements("checks", d.checks) \o Statements("exclusions", d.exclusions)
    \o Statements("fks", d.fks) \o Statements("indexes", d.indexes)

StartCopy ==
    /\ pc = "done"
    /\ \E i \in DOMAIN result :
          /\ subject' = result[i].table
          /\ script' = RenderDdl(result[i].def)
    /\ pc' = "copying"
    /\ UNCHANGED <<catalogVars, reflectVars, target, pgVars>>

Copy ==
    \/ StartCopy
    \/ Execute /\ Same
    \/ Refuse /\ Same
    \/ Copied /\ Same

Next == Ddl \/ Reflect \/ Fail \/ Copy

Spec == Init /\ [][Next]_vars

-----------------------------------------------------------------------------

TypeOK ==
    /\ ReflectionTypeOK
    /\ pc \in Fields \cup {"schemas", "enums", "list", "fkColumns", "fkRefs", "indexColumns",
                         "views", "viewColumns", "sequences", "functions"} \cup Ends \cup CopyStates
    /\ \A n \in DOMAIN labels : labels[n] \in DOMAIN Enums
    /\ pc \in {"fkColumns", "fkRefs", "indexColumns"} => pending # <<>>

\* What an exact reflection of the table has: an enum type that is not in the
\* search path is not recognized as one.
Exact(d) ==
    [d EXCEPT !.columns = [c \in DOMAIN @ |->
        IF @[c] \in DOMAIN Enums /\ ~Enums[@[c]].onPath THEN Enums[@[c]].qualified ELSE @[c]]]

\* Reflection without a transaction is exact where nobody interferes: a table,
\* view, sequence or function that is not changed during the call is in the
\* result once, with every column, constraint and index it has and with nothing
\* twice, whatever is done to others meanwhile (reflect.rs 37-47, 81-149,
\* 406-411; adapter.rs 206-209).
UntouchedIsExact ==
    /\ ReadOnce
    /\ \A i \in DOMAIN result :
          result[i].table \notin touched => result[i].def = Exact(catalog[result[i].table])
    /\ \A kind \in Kinds : ObjectsExact(kind)

\* Nobody's tables but one's own matter: callers that create and drop tables of
\* their own can reflect the schema side by side (testkit lib.rs 10-12).
NobodyInTheWay == only \in {Every, Whole} => pc # "missing"

\* The statements of render_ddl are accepted in the order they come in, and
\* what they make is structurally the table that was reflected, but for enum
\* columns that become text (ddl.rs 59-62, 105-193; testkit lib.rs 232-236).
CopyIsIdentical ==
    subject \notin touched \cup {Every} =>
        /\ pc # "refused"
        /\ pc = "copied" =>
              /\ \A field \in CopiedFields \ {"columns"} :
                    target[field] = catalog[subject][field]
              /\ target.columns = [c \in ColumnNames(catalog[subject]) |->
                                     LET kind == catalog[subject].columns[c] IN
                                     IF kind \in DOMAIN Enums /\ Enums[kind].onPath
                                     THEN "plain" ELSE kind]
=============================================================================
