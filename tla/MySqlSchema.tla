---------------------------- MODULE MySqlSchema ----------------------------
(***************************************************************************)
(* MySQL: reflection (reflect.rs) while callers of create_table,           *)
(* create_index and alter_table (ddl.rs) change the schema, and the copy   *)
(* of a reflected table by the statements of render_ddl.  A unique index   *)
(* is a unique constraint here.                                            *)
(***************************************************************************)
EXTENDS Reflection

VARIABLE comments     \* the table comments, read with the list of tables

vars == <<catalogVars, reflectVars, pc, copyVars, comments>>

Init == ReflectionInit("list") /\ comments = [t \in Tables |-> {}]

Ended == pc \in Ends \cup CopyStates

-----------------------------------------------------------------------------
(* Other callers: DDL that MySQL does in its own way.                      *)

\* The elements without the column; one that has no other column goes.
Reduced(elements, c) ==
    {[e EXCEPT !.columns = @ \ {c}] : e \in {x \in elements : x.columns # {c}}}

\* DropColumn, unless a foreign key or a check rests on the column.
DropColumn(t) ==
    LET d == catalog[t] IN
    /\ t \in Present
    /\ \E c \in ColumnNames(d) :
          /\ \A e \in d.fks \cup d.checks : c \notin e.columns
          /\ Define(t, [d EXCEPT !.columns = [x \in DOMAIN @ \ {c} |-> @[x]],
                                 !.pk = @ \ {c},
                                 !.uniques = Reduced(@, c),
                                 !.indexes = Reduced(@, c)])
    /\ UNCHANGED oid

\* AlterColumnType is MODIFY COLUMN, which names the new type only: the column
\* loses NOT NULL and AUTO_INCREMENT, and keeps the former in a primary key.
AlterColumnType(t) ==
    /\ t \in Present
    /\ \E c \in ColumnNames(catalog[t]) :
          Define(t, [catalog[t] EXCEPT !.columns[c] =
                        IF c \in catalog[t].pk THEN "required" ELSE "plain"])
    /\ UNCHANGED oid

\* drop_table_stmt, which has no CASCADE in this dialect.
DropTable(t) == t \in Present /\ Define(t, Gone) /\ UNCHANGED oid

\* What others change after the reflection touches neither its result nor the
\* copy, and is left out.
Ddl ==
    /\ ~Ended
    /\ CommonDdl \/ \E t \in Tables : DropColumn(t) \/ AlterColumnType(t) \/ DropTable(t)
    /\ UNCHANGED <<reflectVars, pc, copyVars, comments>>

-----------------------------------------------------------------------------
(* reflect_schema, reflect_schema_named and reflect_table.                 *)

Same == UNCHANGED comments

ListSchemasMy == ListSchemas("list") /\ Same

\* The list of tables comes with their comments.
ReadTables == ListTables /\ comments' = [t \in Tables |-> Seen(t).comment]

ReadColumns == Query("columns", Seen(Reading).columns, "pk") /\ Same

\* Mutant: a table without a primary key is read from the start again.
PrimaryKeyOrAgain ==
    /\ Query("pk", Seen(Reading).pk, IF Seen(Reading).pk = {} THEN "columns" ELSE "fks")
    /\ Same

ReadPrimaryKey == Query("pk", Seen(Reading).pk, "fks") /\ Same
ReadForeignKeys == Query("fks", Seen(Reading).fks, "uniques") /\ Same
ReadUniques == Query("uniques", Seen(Reading).uniques, "checks") /\ Same

ReadChecks == Query("checks", Seen(Reading).checks, "indexes") /\ Same

\* Whatever goes wrong with this query, there are no checks.
ChecksUnreadable == Query("checks", {}, "indexes") /\ Same

\* A foreign key has an index of its name until another one serves it.
Implicit(d) ==
    {[name |-> f.name, columns |-> f.columns, unique |-> FALSE] :
        f \in {g \in d.fks : \A e \in d.indexes \cup d.uniques :
                               e.columns # g.columns /\ d.pk # g.columns}}

\* The indexes but the primary key's, as the server keeps them.
ServerIndexes(d) ==
    d.indexes \cup Implicit(d)
    \cup {[name |-> u.name, columns |-> u.columns, unique |-> TRUE] : u \in d.uniques}

\* Mutant: indexes are listed whether a constraint rests on them or not.
AnyIndex(d) == ServerIndexes(d)

\* The query leaves out the indexes that have a unique constraint's name.
PlainIndexes(d) == {i \in ServerIndexes(d) : i.name \notin {u.name : u \in d.uniques}}

ReadIndexes == Query("indexes", PlainIndexes(Seen(Reading)), "triggers") /\ Same

\* Mutant: the comment of the table that comes last is used for all.
LastComment(t) == comments[Last(todo)]

CommentOf(t) == comments[t]

ReadTriggers ==
    /\ pc = "triggers"
    /\ Complete(Reading, [draft EXCEPT !.triggers = Seen(Reading).triggers,
                                       !.comment = CommentOf(Reading)], Tail(todo))
    /\ Same

ReadViews == (ListViews \/ ReadViewColumns) /\ Same

ToSequences(list) ==
    /\ pc = "sequences"
    /\ listed' = list
    /\ ToObjects(IF list = <<>> THEN "functions" ELSE "sequence")
    /\ UNCHANGED found /\ Same

\* The names of the sequences; MySQL proper has none.
ListSequences == ToSequences(Entries("sequences"))

\* Whatever goes wrong with the list, there are no sequences.
SequencesUnlisted == ToSequences(<<>>)

\* The attributes are selected from the sequence itself, one at a time.
ReadSequence ==
    LET o == Head(listed).name IN
    /\ pc = "sequence" /\ o \in others["sequences"]
    /\ found' = Append(found, Entry(o, TRUE))
    /\ listed' = Tail(listed)
    /\ ToObjects(IF listed' = <<>> THEN "functions" ELSE "sequence") /\ Same

\* A sequence that is gone by now is an error.
NoSequence ==
    /\ pc = "sequence" /\ Head(listed).name \notin others["sequences"]
    /\ GiveUp("missing") /\ Same

ReadFunctionsMy == ReadFunctions("list") /\ Same

\* A session cannot be had, or it breaks; not in the queries for the checks and
\* for the list of sequences.
Fail == ~Ended /\ pc \notin {"checks", "sequences"} /\ GiveUp("failed") /\ Same

Reflect ==
    \/ ListSchemasMy \/ ReadTables \/ ReadColumns \/ ReadPrimaryKey \/ ReadForeignKeys \/ ReadUniques
    \/ ReadChecks \/ ChecksUnreadable \/ ReadIndexes \/ ReadTriggers
    \/ ReadViews \/ ListSequences \/ SequencesUnlisted \/ ReadSequence \/ NoSequence
    \/ ReadFunctionsMy

-----------------------------------------------------------------------------
(* render_ddl, and the copy.                                               *)

\* Mutant: foreign keys are added before the keys they may reference.
ForeignKeysFirst(d) ==
    <<<<"table", d>>>> \o Statements("fks", d.fks) \o Statements("uniques", d.uniques)
    \o Statements("checks", d.checks) \o Statements("indexes", d.indexes)

\* CREATE TABLE with the primary key, then one statement per element.
RenderDdl(d) ==
    <<<<"table", d>>>> \o Statements("uniques", d.uniques)
    \o Statements("checks", d.checks) \o Statements("fks", d.fks)
    \o Statements("indexes", d.indexes)

StartCopy ==
    /\ pc = "done"
    /\ \E i \in DOMAIN result :
          /\ subject' = result[i].table
          /\ script' = RenderDdl(result[i].def)
    /\ pc' = "copying"
    /\ UNCHANGED <<catalogVars, reflectVars, target, comments>>

Copy ==
    \/ StartCopy
    \/ Execute /\ Same
    \/ Refuse /\ Same
    \/ Copied /\ Same

Next == Ddl \/ Reflect \/ Fail \/ Copy

Spec == Init /\ [][Next]_vars

-----------------------------------------------------------------------------

TypeOK ==
    /\ ReflectionTypeOK
    /\ pc \in (Fields \ {"exclusions", "comment"}) \cup Ends \cup CopyStates
             \cup {"schemas", "list", "views", "viewColumns", "sequences", "sequence", "functions"}
    /\ DOMAIN comments = Tables

\* What an exact reflection of the table has.
Exact(t) == [catalog[t] EXCEPT !.indexes = @ \cup Implicit(catalog[t])]

\* No sequence was read.
NoSequences == \A i \in DOMAIN found : found[i].name \notin Objects["sequences"]

\* A table, view, sequence or function that is not changed during the call is in
\* the result once, exactly and with nothing twice, but for checks and sequences
\* that could not be read (all or none), whatever is done to others meanwhile
\* (reflect.rs 37-44, 54-101, 271-296, 389-396).
UntouchedIsExact ==
    /\ ReadOnce
    /\ \A i \in DOMAIN result :
          LET d == result[i].def  t == result[i].table IN
          t \notin touched =>
              d = Exact(t) \/ d = [Exact(t) EXCEPT !.checks = {}]
    /\ ObjectsExact("views") /\ ObjectsExact("functions")
    /\ NoSequences \/ ObjectsExact("sequences")

\* The statements of render_ddl are accepted in the order they come in, and
\* what they make is structurally the table that was reflected, but for checks
\* that could not be read, all or none (ddl.rs 103-153; testkit lib.rs 232-236).
CopyIsIdentical ==
    subject \notin touched \cup {Every} =>
        /\ pc # "refused"
        /\ pc = "copied" =>
              /\ \A field \in {"columns", "pk", "uniques", "fks"} :
                    target[field] = catalog[subject][field]
              /\ target.checks \in {catalog[subject].checks, {}}
              /\ ServerIndexes(target) = ServerIndexes(catalog[subject])
=============================================================================
