----------------------------- MODULE MySqlBulk -----------------------------
(***************************************************************************)
(* The MySQL bulk write (ddbcore-mysql/src/bulk.rs): rows are collected    *)
(* into batches bounded in rows, placeholders and estimated bytes; every   *)
(* batch is one INSERT, on a pooled connection, that commits by itself.    *)
(***************************************************************************)
EXTENDS BulkSource

CONSTANTS
    TargetRows,       \* TARGET_ROWS
    MaxPlaceholders,  \* MAX_PLACEHOLDERS
    ByteBudget,       \* BYTE_BUDGET
    Columns,          \* columns of every row of the stream
    WireOf,           \* what a row of every kind takes in the INSERT
    JsonEstimate,     \* what a JSON document is taken for
    MaxPacket         \* the server's max_allowed_packet

VARIABLES
    source,       \* the items of the stream
    pc,           \* where bulk_write is
    pos,          \* rows taken from the stream
    batch,        \* the positions of the rows in the batch
    batchBytes,   \* batch_bytes
    maxRows,      \* max_rows_per_batch
    total,        \* rows inserted so far, by the server's count
    insert,       \* the INSERT at the server: none, sent, applied, refused
    table,        \* the positions of the rows in the table
    result        \* what bulk_write returned

local == <<pos, batch, batchBytes, maxRows, total>>
vars  == <<source, pc, local, insert, table, result>>

TypeOK ==
    /\ source \in Sources
    /\ pc \in {"pulling", "flushing", "awaiting", "flushingRest", "awaitingRest", "returned"}
    /\ pos \in 0..Len(source)
    /\ batch \in Seq(1..Len(source)) /\ Len(batch) <= maxRows
    /\ batchBytes \in Nat /\ total \in Nat
    /\ maxRows \in 1..TargetRows
    /\ insert \in {"none", "sent", "applied", "refused"}
    /\ table \in Seq(1..Len(source))
    /\ result \in Nat \cup {None, Failed, Dropped}

Init ==
    /\ source \in Sources /\ pc = "pulling"
    /\ pos = 0 /\ batch = <<>> /\ batchBytes = 0 /\ maxRows = TargetRows /\ total = 0
    /\ insert = "none" /\ table = <<>> /\ result = None

Goto(l) == pc' = l

\* Mutant: the placeholder cap of a statement is not looked at.
TargetOnly == TargetRows

\* The rows whose placeholders fit into one statement, at most the target.
RowLimit == Max({Min({TargetRows, MaxPlaceholders \div Max({Columns, 1})}), 1})

\* Mutant: the rows are counted, their bytes are not.
FullByRows == Len(batch') >= maxRows'

Full == Len(batch') >= maxRows' \/ batchBytes' >= ByteBudget

\* A document other than a string has a fixed estimate, whatever its size.
EstimatedRowBytes(kind) == IF kind = "json" THEN JsonEstimate ELSE WireOf[kind]

\* rows.next() yields a row: the limit is worked out from the first one.
Pull ==
    /\ pc = "pulling" /\ pos < Len(source)
    /\ source[pos + 1] \notin {"error", "array"}
    /\ pos' = pos + 1
    /\ maxRows' = IF batch = <<>> /\ total = 0 THEN RowLimit ELSE maxRows
    /\ batch' = Append(batch, pos')
    /\ batchBytes' = batchBytes + EstimatedRowBytes(source[pos'])
    /\ Goto(IF Full THEN "flushing" ELSE "pulling")
    /\ UNCHANGED <<source, total, insert, table, result>>

Return(r) == Goto("returned") /\ result' = r

\* Mutant: the last, incomplete batch is forgotten.
ForgetRest ==
    /\ pc = "pulling" /\ pos = Len(source)
    /\ Return(total)
    /\ UNCHANGED <<source, local, insert, table>>

\* rows.next() yields nothing more: the rest of the batch is flushed first.
SourceEnd ==
    /\ pc = "pulling" /\ pos = Len(source)
    /\ IF batch # <<>> THEN Goto("flushingRest") /\ result' = result ELSE Return(total)
    /\ UNCHANGED <<source, local, insert, table>>

\* flush_batch: one INSERT with all the rows of the batch.
Execute ==
    /\ \/ pc = "flushing" /\ Goto("awaiting")
       \/ pc = "flushingRest" /\ Goto("awaitingRest")
    /\ insert' = "sent"
    /\ UNCHANGED <<source, local, table, result>>

Awaiting == pc \in {"awaiting", "awaitingRest"}

\* Mutant: the batch is not cleared once it is inserted.
ClearBytes == batchBytes' = 0 /\ batch' = batch

Clear == batch' = <<>> /\ batchBytes' = 0

Confirm ==
    /\ pc = "awaiting" /\ insert = "applied" /\ Goto("pulling")
    /\ total' = total + Len(batch)
    /\ Clear
    /\ insert' = "none"
    /\ UNCHANGED <<source, pos, maxRows, table, result>>

ConfirmRest ==
    /\ pc = "awaitingRest" /\ insert = "applied"
    /\ total' = total + Len(batch)
    /\ Return(total')
    /\ insert' = "none"
    /\ UNCHANGED <<source, pos, batch, batchBytes, maxRows, table>>

-----------------------------------------------------------------------------
(* The server, and the ways bulk_write is cut short.                       *)

SumOver(seq, of) ==
    LET sum[i \in 0..Len(seq)] == IF i = 0 THEN 0 ELSE sum[i - 1] + of[source[seq[i]]]
    IN  sum[Len(seq)]

Accepted ==
    /\ Len(batch) * Columns <= MaxPlaceholders
    /\ SumOver(batch, WireOf) <= MaxPacket
    /\ \A i \in 1..Len(batch) : source[batch[i]] # "bad"

\* The statement is a transaction of its own: all its rows or none.
ServerApply ==
    /\ insert = "sent" /\ Accepted
    /\ insert' = "applied"
    /\ table' = table \o batch
    /\ UNCHANGED <<source, pc, local, result>>

ServerRefuse ==
    /\ insert = "sent" /\ ~Accepted
    /\ insert' = "refused"
    /\ UNCHANGED <<source, pc, local, table, result>>

Refused ==
    /\ Awaiting /\ insert = "refused"
    /\ Return(Failed)
    /\ UNCHANGED <<source, local, insert, table>>

\* An error in the stream, or an array, which MySQL has no type for.
SourceError ==
    /\ pc = "pulling" /\ pos < Len(source) /\ source[pos + 1] \in {"error", "array"}
    /\ Return(Failed)
    /\ UNCHANGED <<source, local, insert, table>>

\* No connection can be had, or it breaks: an INSERT that is on its way may
\* still be applied, without an answer.
Break ==
    /\ pc \notin {"pulling", "returned"}
    /\ Return(Failed)
    /\ insert' \in IF insert = "sent" THEN {"sent", "refused"} ELSE {insert}
    /\ UNCHANGED <<source, local, table>>

\* The caller drops the future; an INSERT that was sent is still applied.
Drop ==
    /\ pc # "returned"
    /\ Return(Dropped)
    /\ UNCHANGED <<source, local, insert, table>>

Client == Pull \/ SourceEnd \/ Execute \/ Confirm \/ ConfirmRest \/ Refused \/ SourceError
Server == ServerApply \/ ServerRefuse

Next == Client \/ Server \/ Break \/ Drop

Spec == Init /\ [][Next]_vars

-----------------------------------------------------------------------------
(* What the bulk write promises.                                           *)

BW == INSTANCE BulkWrite WITH Atomic <- FALSE, Unwritable <- {"error", "bad", "array"}

\* Whatever fails, the table holds the first rows of the stream, in order and
\* each once; Ok is returned only when it holds all of them (bulk.rs 31-68).
ImplementsBulkWrite == BW!Spec

\* No INSERT has more placeholders than the protocol allows, however many
\* columns the rows have (bulk.rs 25-27).
PlaceholderCap == Awaiting => Len(batch) * Columns <= MaxPlaceholders

\* "So 500 rows of 16 MB blobs can't ... blow past the server's
\* max_allowed_packet" (bulk.rs 28-30): when the budget leaves room for the
\* largest row, no INSERT is larger than the server accepts.
PacketBound ==
    (/\ Awaiting
     /\ \A i \in 1..Len(batch) : ByteBudget + WireOf[source[batch[i]]] <= MaxPacket)
    => SumOver(batch, WireOf) <= MaxPacket
=============================================================================
