----------------------------- MODULE BulkSource -----------------------------
(***************************************************************************)
(* What bulk_write of either adapter works on: a RowStream to read from    *)
(* and a table to write to.  A row is told apart by its position in the    *)
(* stream; its kind says what becomes of it.                               *)
(***************************************************************************)
EXTENDS Naturals, Sequences, FiniteSetsExt

CONSTANTS
    Sources,      \* the streams of items bulk_write may be given
    None,         \* bulk_write has not returned
    Failed,       \* it returned an error
    Dropped       \* its future was dropped

\* small: a row of ordinary values        big: one large value, sent as it is
\* json: one large JSON document           array: an array value
\* unkept: a trigger suppresses it         bad: the server rejects it
\* error: the stream yields an error instead of a row
Kinds == {"small", "big", "json", "array", "unkept", "bad", "error"}

ASSUME SourceAssumption ==
    /\ Sources \subseteq Seq(Kinds)
    /\ {None, Failed, Dropped} \cap Nat = {}
    /\ Cardinality({None, Failed, Dropped}) = 3

Positions(n) == [i \in 1..n |-> i]

\* The rows that no trigger suppresses, in their order.
Through(source, rows) ==
    LET kept[i \in 0..Len(rows)] ==
            IF i = 0 THEN <<>>
            ELSE IF source[rows[i]] = "unkept" THEN kept[i - 1]
            ELSE Append(kept[i - 1], rows[i])
    IN  kept[Len(rows)]

\* The rows the table holds when the first n were written.
Kept(source, n) == Through(source, Positions(n))

\* The position of the first item of one of these kinds, or the end.
FirstOf(source, kinds) ==
    Min({i \in 1..Len(source) : source[i] \in kinds} \cup {Len(source) + 1})
=============================================================================
