----------------------------- MODULE Reflection -----------------------------
(***************************************************************************)
(* What the reflection of both engines has in common.  A catalog is walked *)
(* schema by schema, a schema by its tables, views, sequences and          *)
(* functions, and each table by a fixed sequence of catalog queries, every *)
(* one on some pooled session and none in a transaction with the next.     *)
(* The caller may then render a reflected table as DDL and execute the     *)
(* statements, one at a time, where no such table exists yet.              *)
(***************************************************************************)
EXTENDS Catalog

CONSTANTS
    Every,        \* the schema is asked for: reflect_schema_named
    Whole,        \* the catalog is asked for: reflect_schema
    Schemas,      \* the names of the schemas, in order
    Home          \* the one of them whose contents are modelled

ASSUME SchemasAssumption ==
    /\ Schemas \in Seq(Range(Schemas)) /\ IsInjective(Schemas)
    /\ Home \in Range(Schemas)
    /\ {Every, Whole} \cap Tables = {} /\ Every # Whole

VARIABLES
    only,         \* the table that is asked for, Every or Whole
    pc,           \* the query that comes next, or how it ended
    queue,        \* schemas still to be walked, the one being walked first
    todo,         \* tables still to be read, the one being read first
    draft,        \* the table being read, as far as it was read
    result,       \* the tables read
    listed,       \* views or sequences of a list, not read in full yet
    found,        \* the views, sequences and functions read
    subject,      \* the table whose copy is made
    script,       \* the statements still to be executed
    target        \* the copy the statements make

copyVars    == <<subject, script, target>>
objectVars  == <<listed, found>>
reflectVars == <<only, queue, todo, draft, result, objectVars>>

\* How it ends: with a result, an error of the session, or an error because
\* something a query counts on is not there.
Ends == {"done", "failed", "missing"}
CopyStates == {"copying", "copied", "refused"}
AfterReflection == {"done"} \cup CopyStates

\* The walk of a schema starts with the query named start.
ReflectionInit(start) ==
    /\ CatalogInit
    /\ only \in Tables \cup {Every, Whole}
    /\ pc = IF only = Whole THEN "schemas" ELSE start
    /\ queue = IF only = Whole THEN <<>> ELSE <<Home>>
    /\ todo = <<>> /\ draft = Blank /\ result = <<>> /\ listed = <<>> /\ found = <<>>
    /\ subject = Every /\ script = <<>> /\ target = Gone

Reading == Head(todo)

\* What a query by table name finds.
Seen(t) == IF catalog[t] = Gone THEN Blank ELSE catalog[t]

Put(field, answer) == draft' = [draft EXCEPT ![field] = answer]

\* What a query by schema name finds.
AtHome(set) == IF Head(queue) = Home THEN set ELSE {}

Unmoved == UNCHANGED <<catalogVars, only, copyVars>>

\* reflect_schema: the list of schemas comes first.
ListSchemas(start) ==
    /\ pc = "schemas"
    /\ queue' = Schemas
    /\ pc' = start
    /\ UNCHANGED <<todo, draft, result, objectVars>> /\ Unmoved

\* The tables of the schema, or the one that is asked for; a table that is not
\* in the list is an error.
ListTables ==
    /\ pc = "list"
    /\ todo' = SetToSeq(AtHome({t \in Present : only \in {t, Every, Whole}}))
    /\ pc' = CASE todo' # <<>>                     -> "columns"
               [] todo' = <<>> /\ only \in Tables  -> "missing"
               [] OTHER                            -> "views"
    /\ UNCHANGED <<queue, draft, result, objectVars>> /\ Unmoved

\* One query whose answer becomes one field of the table.
Query(field, answer, next) ==
    /\ pc = field
    /\ Put(field, answer)
    /\ pc' = next
    /\ UNCHANGED <<queue, todo, result, objectVars>> /\ Unmoved

AfterTables == IF only \in Tables THEN "done" ELSE "views"

\* Mutant: the last table of the list is left out.
CompleteEarly(t, table, rest) ==
    /\ result' = Append(result, [table |-> t, def |-> table])
    /\ todo' = rest
    /\ draft' = Blank
    /\ pc' = IF Len(rest) < 2 THEN AfterTables ELSE "columns"
    /\ UNCHANGED <<queue, objectVars>> /\ Unmoved

\* The table is complete: the next one, or what comes after the tables.
Complete(t, table, rest) ==
    /\ result' = Append(result, [table |-> t, def |-> table])
    /\ todo' = rest
    /\ draft' = Blank
    /\ pc' = IF rest = <<>> THEN AfterTables ELSE "columns"
    /\ UNCHANGED <<queue, objectVars>> /\ Unmoved

\* A query ends the call with an error.
GiveUp(how) ==
    /\ pc' = how
    /\ UNCHANGED <<queue, todo, draft, result, objectVars>> /\ Unmoved

-----------------------------------------------------------------------------
(* After the tables: views, sequences and functions.                       *)

\* An object as it was read: in full, or without the part that is read later.
Entry(name, full) == [name |-> name, full |-> full]

\* The objects of this kind that one query returns.
Entries(kind) == SetToSeq({Entry(o, TRUE) : o \in AtHome(others[kind])})

ToObjects(next) == pc' = next /\ UNCHANGED <<queue, todo, draft, result>> /\ Unmoved

\* The views come with their definitions; their columns are read view by view.
ListViews ==
    /\ pc = "views"
    /\ listed' = Entries("views")
    /\ ToObjects(IF listed' = <<>> THEN "sequences" ELSE "viewColumns")
    /\ UNCHANGED found

\* A view that is gone by now has no columns.
ReadViewColumns ==
    LET v == Head(listed) IN
    /\ pc = "viewColumns"
    /\ found' = Append(found, Entry(v.name, v.name \in others["views"]))
    /\ listed' = Tail(listed)
    /\ ToObjects(IF listed' = <<>> THEN "sequences" ELSE "viewColumns")

\* Mutant: the functions of every schema are listed in each.
ReadAllFunctions(start) ==
    /\ pc = "functions"
    /\ found' = found \o SetToSeq({Entry(o, TRUE) : o \in others["functions"]})
    /\ queue' = Tail(queue)
    /\ pc' = IF queue' = <<>> THEN "done" ELSE start
    /\ UNCHANGED <<todo, draft, result, listed>> /\ Unmoved

\* The functions, the last thing in a schema: the next one, or the end.
ReadFunctions(start) ==
    /\ pc = "functions"
    /\ found' = found \o Entries("functions")
    /\ queue' = Tail(queue)
    /\ pc' = IF queue' = <<>> THEN "done" ELSE start
    /\ UNCHANGED <<todo, draft, result, listed>> /\ Unmoved

-----------------------------------------------------------------------------
(* The copy: the caller executes what render_ddl returned.                *)

Statements(kind, elements) ==
    LET s == SetToSeq(elements) IN [i \in 1..Len(s) |-> <<kind, s[i]>>]

\* What the statement makes of the copy.
Applied(kind, e) ==
    IF kind = "table" THEN [Blank EXCEPT !.columns = e.columns, !.pk = e.pk]
    ELSE [target EXCEPT ![kind] = @ \cup {e}]

\* The server accepts the statement.  The tables it may reference are there.
Accepts(kind, e) ==
    IF kind = "table" THEN target = Gone /\ IdentityAllowed(Applied(kind, e))
    ELSE /\ e.columns # {} /\ e.columns \subseteq ColumnNames(target)
         /\ kind \in {"uniques", "indexes"} => e.name \notin UsedNames(target)
         /\ (kind = "fks" /\ e.table = subject) => e.refs \in KeysOf(target)

Execute ==
    /\ pc = "copying" /\ script # <<>>
    /\ Accepts(Head(script)[1], Head(script)[2])
    /\ target' = Applied(Head(script)[1], Head(script)[2])
    /\ script' = Tail(script)
    /\ UNCHANGED <<catalogVars, reflectVars, pc, subject>>

Refuse ==
    /\ pc = "copying" /\ script # <<>>
    /\ ~Accepts(Head(script)[1], Head(script)[2])
    /\ pc' = "refused"
    /\ UNCHANGED <<catalogVars, reflectVars, copyVars>>

Copied ==
    /\ pc = "copying" /\ script = <<>>
    /\ pc' = "copied"
    /\ UNCHANGED <<catalogVars, reflectVars, copyVars>>

-----------------------------------------------------------------------------
(* What is promised of both.                                               *)

ReflectionTypeOK ==
    /\ CatalogTypeOK
    /\ only \in Tables \cup {Every, Whole} /\ Range(queue) \subseteq Range(Schemas)
    /\ subject \in Tables \cup {Every}
    /\ todo \in Seq(Tables) /\ DOMAIN draft = Fields
    /\ \A i \in DOMAIN result : result[i].table \in Tables /\ DOMAIN result[i].def = Fields
    /\ \A i \in DOMAIN found : found[i] \in [name : ObjectNames, full : BOOLEAN]
    /\ pc \in {"viewColumns", "sequence"} => listed # <<>>
    /\ pc \in AfterReflection => todo = <<>> /\ listed = <<>>
    /\ target = Gone \/ DOMAIN target = Fields

\* The parts of a definition that have statements of their own.
CopiedFields == Fields \ {"triggers", "comment"}

\* Each untouched table that was asked for is read once.
ReadOnce ==
    pc \in AfterReflection =>
        \A t \in Present \ touched :
            only \in {t, Every, Whole} => Cardinality({i \in DOMAIN result : result[i].table = t}) = 1

\* Each untouched object of this kind is read once, and in full.
ObjectsExact(kind) ==
    pc \in AfterReflection /\ only \in {Every, Whole} =>
        \A o \in others[kind] \ touched :
            /\ Cardinality({i \in DOMAIN found : found[i].name = o}) = 1
            /\ Entry(o, TRUE) \in Range(found)
=============================================================================
