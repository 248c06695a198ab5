----------------------------- MODULE BulkWrite -----------------------------
(***************************************************************************)
(* What bulk_write promises: the rows of the stream are written in their   *)
(* order, each once; it returns Ok only when all of them are written, with *)
(* their number.  With Atomic the table gets all of them or none.          *)
(***************************************************************************)
EXTENDS BulkSource

CONSTANTS
    Atomic,       \* the table gets the whole stream in one step
    Unwritable    \* the kinds of item at which the write fails

VARIABLES
    source,       \* the items of the stream
    table,        \* the positions of the rows in the table, oldest first
    result        \* None, Failed, Dropped, or the number returned with Ok

vars == <<source, table, result>>

Init == source \in Sources /\ table = <<>> /\ result = None

\* No row at or after the first item that cannot be written is ever written.
Writable == FirstOf(source, Unwritable) - 1

Write ==
    /\ \E n \in 1..Writable :
          /\ Atomic => n = Len(source)
          /\ Len(table) < Len(Kept(source, n))
          /\ table' = Kept(source, n)
    /\ UNCHANGED <<source, result>>

ReturnOk ==
    /\ result = None /\ table = Kept(source, Len(source))
    /\ Writable = Len(source)
    /\ result' = Len(source)
    /\ UNCHANGED <<source, table>>

Stop ==
    /\ result = None
    /\ result' \in {Failed, Dropped}
    /\ UNCHANGED <<source, table>>

Next == Write \/ ReturnOk \/ Stop

Spec == Init /\ [][Next]_vars
=============================================================================
