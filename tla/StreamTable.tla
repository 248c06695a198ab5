---------------------------- MODULE StreamTable ----------------------------
(***************************************************************************)
(* The table a row stream reads and the sessions that write to it while    *)
(* streams are open: what both adapters' stream_rows read from.            *)
(*                                                                         *)
(* A row is identified by its primary key; the model keeps, per row, the   *)
(* value of the column that key ranges restrict (which may be NULL).       *)
(***************************************************************************)
EXTENDS Integers

CONSTANTS
    Streams,      \* the streams opened on the table
    RowIds,       \* primary keys of the rows that may exist
    Keys,         \* values of the range column
    NullKey,      \* NULL in the range column
    Absent,       \* the row does not exist
    NoBound,      \* a bound that is not set
    RangeOf,      \* StreamOptions::key_range of every stream
    MaxWrites     \* bound on the writes of other sessions

\* A bound may be given as NULL.
Bounds == Keys \cup {NoBound, NullKey}

\* A KeyRange of a stream, or none: the stream reads the whole table.
KeyRanges ==
    [given : {TRUE}, lower : Bounds, upper : Bounds]
        \cup [given : {FALSE}, lower : {NoBound}, upper : {NoBound}]

ASSUME TableAssumption ==
    /\ Keys \subseteq Int
    /\ NullKey \notin Int /\ Absent \notin Int /\ NoBound \notin Int
    /\ NullKey # Absent /\ NullKey # NoBound
    /\ RangeOf \in [Streams -> KeyRanges]
    /\ MaxWrites \in Nat

VARIABLES
    table,        \* the committed contents
    touched,      \* history: the rows written to since the start
    writes        \* number of writes so far

tableVars == <<table, touched, writes>>

Cells == Keys \cup {NullKey}
Rows  == [id : RowIds, key : Cells]

TableTypeOK ==
    /\ table \in [RowIds -> Cells \cup {Absent}]
    /\ touched \in SUBSET RowIds
    /\ writes \in 0..MaxWrites

TableInit ==
    /\ table \in [RowIds -> Cells \cup {Absent}]
    /\ touched = {}
    /\ writes = 0

\* Another session commits an insert, an update or a delete of one row.
Write(r, c) ==
    /\ writes < MaxWrites
    /\ table[r] # c
    /\ table' = [table EXCEPT ![r] = c]
    /\ touched' = touched \cup {r}
    /\ writes' = writes + 1

OtherSession == \E r \in RowIds, c \in Cells \cup {Absent} : Write(r, c)

\* Mutant: the upper bound is inclusive.
InClosedRange(k, range) ==
    range.given =>
        /\ k # NullKey
        /\ range.lower # NoBound => range.lower # NullKey /\ k >= range.lower
        /\ range.upper # NoBound => range.upper # NullKey /\ k <= range.upper

\* `column >= lower AND column < upper`, either bound optional; a comparison
\* with NULL selects nothing.
InRange(k, range) ==
    range.given =>
        /\ k # NullKey
        /\ range.lower # NoBound => range.lower # NullKey /\ k >= range.lower
        /\ range.upper # NoBound => range.upper # NullKey /\ k < range.upper

\* A KeyRange with neither bound is refused by both adapters.
EmptyRange(range) == range.given /\ range.lower = NoBound /\ range.upper = NoBound

\* A KeyRange with a NULL bound.
NullBound(range) == range.given /\ NullKey \in {range.lower, range.upper}

\* The rows the stream's SELECT returns when it runs against contents t.
Selected(t, s) ==
    {r \in Rows : t[r.id] = r.key /\ InRange(r.key, RangeOf[s])}

=============================================================================
