------------------------------ MODULE Catalog ------------------------------
(***************************************************************************)
(* The tables of one schema as the server keeps them, and as reflection    *)
(* hands them out: schema.rs has one type for both.  Elements are told     *)
(* apart by name and by the columns they rest on.  Of the views, sequences *)
(* and functions of the schema it keeps which of them there are; one that  *)
(* is replaced is dropped and created again.                               *)
(***************************************************************************)
EXTENDS Naturals, Sequences, FiniteSets, SequencesExt

CONSTANTS
    Tables,       \* table names
    Definitions,  \* per table: the definitions its elements are taken from
    Gone,         \* what the catalog has of a table that is not there
    Objects,      \* per kind: the names of the views, sequences and functions
    KeyedIdentity,\* the server wants every identity column to be in a key
    MaxDdl        \* bound on the statements that change the schema

Kinds == {"views", "sequences", "functions"}
ObjectNames == UNION {Objects[k] : k \in Kinds}

\* A table without anything in it.  A column is "plain" (nullable), "required"
\* (NOT NULL), an "identity" column, or nullable and of an enum type.
Blank == [columns |-> [c \in {} |-> "plain"], pk |-> {}, uniques |-> {},
          indexes |-> {}, fks |-> {}, checks |-> {}, exclusions |-> {},
          triggers |-> {}, comment |-> {}]

Fields == DOMAIN Blank

ColumnNames(d) == DOMAIN d.columns

\* Names that an index of the table has, its unique constraints included.
UsedNames(d) == {u.name : u \in d.uniques} \cup {i.name : i \in d.indexes}

\* The elements of a table.
ColumnSets == (SUBSET STRING) \ {{}}
Constraints == [name : STRING, columns : ColumnSets]
Indexes == [name : STRING, columns : ColumnSets, unique : BOOLEAN]
ForeignKeys == [name : STRING, columns : ColumnSets, table : Tables, refs : ColumnSets]

\* A definition the server can have of a table: the names of its indexes are
\* taken once.
IsDefinition(d) ==
    /\ d = [field \in Fields |-> d[field]]
    /\ d.columns = [c \in ColumnNames(d) |-> d.columns[c]]
    /\ \A field \in Fields \ {"columns"} : IsFiniteSet(d[field])
    /\ d.uniques \cup d.checks \cup d.exclusions \subseteq Constraints
    /\ d.indexes \subseteq Indexes /\ d.fks \subseteq ForeignKeys
    /\ \A i, j \in d.uniques \cup d.indexes : i.name = j.name => i = j

ASSUME CatalogAssumption ==
    /\ MaxDdl \in Nat /\ KeyedIdentity \in BOOLEAN
    /\ IsFiniteSet(Tables) /\ DOMAIN Definitions = Tables /\ DOMAIN Gone # Fields
    /\ \A t \in Tables : \A d \in Definitions[t] \ {Gone} : IsDefinition(d)
    /\ DOMAIN Objects = Kinds /\ ObjectNames \cap Tables = {}
    /\ \A k \in Kinds : IsFiniteSet(Objects[k])
    /\ \A k, l \in Kinds : k # l => Objects[k] \cap Objects[l] = {}

VARIABLES
    catalog,      \* the definition of every table, or Gone
    oid,          \* the identity of the table that has the name now
    others,       \* per kind: the views, sequences and functions there are
    touched,      \* history: tables and objects changed since the start
    ddls          \* number of changes so far

catalogVars == <<catalog, oid, others, touched, ddls>>

Present == {t \in Tables : catalog[t] # Gone}

\* The columns sets a foreign key may reference.
KeysOf(d) == ({d.pk} \ {{}}) \cup {u.columns : u \in d.uniques}
             \cup {i.columns : i \in {j \in d.indexes : j.unique}}

\* The foreign keys of d that reference t.
References(d, t) == {f \in d.fks : f.table = t}

\* The server has no objection to the identity columns.
IdentityAllowed(d) ==
    KeyedIdentity => \A c \in ColumnNames(d) :
        d.columns[c] = "identity" => \E key \in KeysOf(d) : c \in key

\* Every element rests on columns that exist, every foreign key on a key.
WellFormed(c) ==
    \A t \in {u \in Tables : c[u] # Gone} :
        LET d == c[t] IN
        /\ d.pk \subseteq ColumnNames(d) /\ IdentityAllowed(d)
        /\ \A e \in d.uniques \cup d.indexes \cup d.fks \cup d.checks \cup d.exclusions :
              e.columns \subseteq ColumnNames(d)
        /\ \A f \in d.fks : c[f.table] # Gone /\ f.refs \in KeysOf(c[f.table])

CatalogTypeOK ==
    /\ WellFormed(catalog)
    /\ oid \in [Tables -> 0..MaxDdl]
    /\ DOMAIN others = Kinds
    /\ \A k \in Kinds : others[k] \subseteq Objects[k]
    /\ touched \subseteq Tables \cup ObjectNames /\ ddls \in 0..MaxDdl

CatalogInit ==
    /\ catalog \in [Tables -> UNION {Definitions[t] : t \in Tables}]
    /\ \A t \in Tables : catalog[t] \in Definitions[t]
    /\ WellFormed(catalog)
    /\ others = Objects
    /\ oid = [t \in Tables |-> 0] /\ touched = {} /\ ddls = 0

\* A statement that makes d the definition of t, if the server accepts it.
Define(t, d) ==
    /\ ddls < MaxDdl
    /\ catalog' = [catalog EXCEPT ![t] = d]
    /\ WellFormed(catalog')
    /\ touched' = touched \cup {t}
    /\ ddls' = ddls + 1
    /\ UNCHANGED others

\* The elements of this field that some definition of t has, and those that t
\* itself has not.
Defined(t, field) == UNION {d[field] : d \in Definitions[t] \ {Gone}}
Missing(t, field) == Defined(t, field) \ catalog[t][field]

With(t, field, e) == [catalog[t] EXCEPT ![field] = @ \cup {e}]

\* A primary key makes its columns NOT NULL.
WithKey(d, key) ==
    [d EXCEPT !.pk = key,
              !.columns = [c \in DOMAIN @ |->
                  IF c \in key /\ @[c] = "plain" THEN "required" ELSE @[c]]]

\* create_table: columns and primary key in one statement.
CreateTable(t) ==
    /\ catalog[t] = Gone
    /\ \E d \in Definitions[t] \ {Gone} :
          Define(t, [Blank EXCEPT !.columns = d.columns, !.pk = d.pk])
    /\ oid' = [oid EXCEPT ![t] = @ + 1]

\* alter_table with AddColumn.
AddColumn(t) ==
    /\ t \in Present
    /\ \E d \in Definitions[t] \ {Gone} : \E c \in ColumnNames(d) \ ColumnNames(catalog[t]) :
          Define(t, [catalog[t] EXCEPT !.columns =
                        [x \in DOMAIN @ \cup {c} |-> IF x = c THEN d.columns[c] ELSE @[x]]])
    /\ UNCHANGED oid

\* alter_table with AddConstraint.
AddConstraint(t) ==
    /\ t \in Present
    /\ \/ \E d \in Definitions[t] \ {Gone} :
             catalog[t].pk = {} /\ d.pk # {} /\ Define(t, WithKey(catalog[t], d.pk))
       \/ \E u \in Missing(t, "uniques") :
             u.name \notin UsedNames(catalog[t]) /\ Define(t, With(t, "uniques", u))
       \/ \E f \in Missing(t, "fks") : Define(t, With(t, "fks", f))
       \/ \E k \in Missing(t, "checks") : Define(t, With(t, "checks", k))
    /\ UNCHANGED oid

\* create_index.
CreateIndex(t) ==
    /\ t \in Present
    /\ \E i \in Missing(t, "indexes") :
          i.name \notin UsedNames(catalog[t]) /\ Define(t, With(t, "indexes", i))
    /\ UNCHANGED oid

\* alter_table with DropConstraint.
DropConstraint(t) ==
    /\ t \in Present
    /\ \/ catalog[t].pk # {} /\ Define(t, [catalog[t] EXCEPT !.pk = {}])
       \/ \E field \in {"uniques", "fks", "checks"} : \E e \in catalog[t][field] :
             Define(t, [catalog[t] EXCEPT ![field] = @ \ {e}])
    /\ UNCHANGED oid

\* alter_table with DropIndex.
DropIndex(t) ==
    /\ t \in Present
    /\ \E i \in catalog[t].indexes : Define(t, [catalog[t] EXCEPT !.indexes = @ \ {i}])
    /\ UNCHANGED oid

\* An ad hoc statement creates or drops a view, sequence or function.
ChangeObject(kind, o) ==
    /\ ddls < MaxDdl
    /\ others' = [others EXCEPT ![kind] = IF o \in @ THEN @ \ {o} ELSE @ \cup {o}]
    /\ touched' = touched \cup {o}
    /\ ddls' = ddls + 1
    /\ UNCHANGED <<catalog, oid>>

\* What create_table, create_index, alter_table and execute_query do alike on
\* both engines.
CommonDdl ==
    \/ \E t \in Tables :
          \/ CreateTable(t) \/ CreateIndex(t) \/ AddColumn(t) \/ AddConstraint(t)
          \/ DropConstraint(t) \/ DropIndex(t)
    \/ \E kind \in Kinds : \E o \in Objects[kind] : ChangeObject(kind, o)
=============================================================================
