------------------------------- MODULE PgBulk -------------------------------
(***************************************************************************)
(* The Postgres bulk write (ddbcore-postgres/src/bulk.rs): rows are        *)
(* encoded into a buffer, the buffer is sent as COPY data whenever it is   *)
(* full, and the copy is finished at the end of the stream.  The server    *)
(* works on its own: it commits the whole copy once it has been finished.  *)
(***************************************************************************)
EXTENDS BulkSource

CONSTANTS
    FlushRows,    \* FLUSH_EVERY_ROWS
    FlushBytes,   \* FLUSH_EVERY_BYTES
    SizeOf        \* the length of an encoded row of every kind

ASSUME PgBulkAssumption ==
    /\ FlushRows \in Nat \ {0} /\ FlushBytes \in Nat \ {0}
    /\ SizeOf \in [Kinds -> Nat \ {0}]

VARIABLES
    source,       \* the items of the stream
    pc,           \* where bulk_write is
    total,        \* rows taken from the stream
    buffer,       \* the positions of the encoded rows in the buffer
    bytes,        \* buffer.len()
    bufferedRows, \* buffered_rows
    received,     \* the positions of the rows the server has received
    copy,         \* the server's side: none, copying, done, committed, aborted
    table,        \* the positions of the rows in the table
    result        \* what bulk_write returned

local  == <<total, buffer, bytes, bufferedRows>>
server == <<received, copy, table>>
vars   == <<source, pc, local, server, result>>

PCs == {"start", "pulling", "sending", "last", "finish", "confirming", "returned"}

TypeOK ==
    /\ source \in Sources /\ pc \in PCs
    /\ total \in 0..Len(source)
    /\ buffer \in Seq(1..Len(source)) /\ received \in Seq(1..Len(source))
    /\ bytes \in Nat /\ bufferedRows = Len(buffer)
    /\ copy \in {"none", "copying", "done", "committed", "aborted"}
    /\ table \in Seq(1..Len(source))
    /\ result \in Nat \cup {None, Failed, Dropped}

Init ==
    /\ source \in Sources /\ pc = "start"
    /\ total = 0 /\ buffer = <<>> /\ bytes = 0 /\ bufferedRows = 0
    /\ received = <<>> /\ copy = "none" /\ table = <<>>
    /\ result = None

Goto(l) == pc' = l

\* A dedicated connection, and COPY ... FROM STDIN on it.
Start ==
    /\ pc = "start" /\ Goto("pulling")
    /\ copy' = "copying"
    /\ UNCHANGED <<source, local, received, table, result>>

\* Mutant: the row counter decides alone.
FullByRows == bufferedRows' >= FlushRows

\* The buffer is sent on row count or byte size, whichever comes first.
Full == bufferedRows' >= FlushRows \/ bytes' >= FlushBytes

\* rows.next() yields a row: it is encoded and counted.
Pull ==
    /\ pc = "pulling" /\ total < Len(source)
    /\ source[total + 1] # "error"
    /\ total' = total + 1
    /\ buffer' = Append(buffer, total')
    /\ bytes' = bytes + SizeOf[source[total']]
    /\ bufferedRows' = bufferedRows + 1
    /\ Goto(IF Full THEN "sending" ELSE "pulling")
    /\ UNCHANGED <<source, server, result>>

\* Mutant: only the counter is reset after a send.
ResetCounter == bufferedRows' = 0 /\ UNCHANGED <<buffer, bytes>>

Clear == buffer' = <<>> /\ bytes' = 0 /\ bufferedRows' = 0

Send ==
    /\ pc = "sending" /\ Goto("pulling")
    /\ received' = received \o buffer
    /\ Clear
    /\ UNCHANGED <<source, total, copy, table, result>>

\* Mutant: the rows left in the buffer are forgotten.
StraightToFinish == Goto("finish")

\* The rows left in the buffer still have to be sent.
SendRest == Goto(IF buffer # <<>> THEN "last" ELSE "finish")

\* rows.next() yields nothing more.
SourceEnd ==
    /\ pc = "pulling" /\ total = Len(source)
    /\ SendRest
    /\ UNCHANGED <<source, local, server, result>>

SendLast ==
    /\ pc = "last" /\ Goto("finish")
    /\ received' = received \o buffer
    /\ UNCHANGED <<source, local, copy, table, result>>

\* copy.finish() sends CopyDone and waits for the server's verdict.
Finish ==
    /\ pc = "finish" /\ Goto("confirming")
    /\ copy' = "done"
    /\ UNCHANGED <<source, local, received, table, result>>

\* Mutant: CopyDone is sent, its answer is not waited for.
NoVerdict == copy # "copying"

\* The server has answered CopyDone.
Verdict == copy \in {"committed", "aborted"}

\* The server's count is ignored: the rows taken from the stream are returned.
Confirm ==
    /\ pc = "confirming" /\ Verdict
    /\ Goto("returned")
    /\ result' = IF copy = "aborted" THEN Failed ELSE total
    /\ UNCHANGED <<source, local, server>>

-----------------------------------------------------------------------------
(* The server, and the ways bulk_write is cut short.                       *)

Rejected == \E i \in 1..Len(received) : source[received[i]] = "bad"

\* All that the server received becomes visible at once.
ServerCommit ==
    /\ copy = "done" /\ ~Rejected
    /\ copy' = "committed"
    /\ table' = Through(source, received)
    /\ UNCHANGED <<source, pc, local, received, result>>

ServerReject ==
    /\ copy = "done" /\ Rejected
    /\ copy' = "aborted"
    /\ UNCHANGED <<source, pc, local, received, table, result>>

\* Mutant: a copy that is given up is finished instead of failed.
FinishAnyway == copy' = IF copy = "copying" THEN "done" ELSE copy

\* The connection closes: a copy without CopyDone is aborted; a CopyDone on
\* its way may or may not arrive.
Hangup ==
    \/ copy = "copying" /\ copy' = "aborted"
    \/ copy = "done" /\ copy' \in {"done", "aborted"}
    \/ copy \notin {"copying", "done"} /\ copy' = copy

Return(how) ==
    /\ Goto("returned") /\ result' = how
    /\ Hangup
    /\ UNCHANGED <<source, local, received, table>>

\* rows.next() yields an error, which `?` returns.
SourceError ==
    /\ pc = "pulling" /\ total < Len(source) /\ source[total + 1] = "error"
    /\ Return(Failed)

\* No connection can be had, COPY is refused, or the connection breaks.
Break ==
    /\ pc \in {"start", "sending", "last", "finish", "confirming"}
    /\ Return(Failed)

\* The caller drops the future.
Drop == pc # "returned" /\ Return(Dropped)

Client == Start \/ Pull \/ Send \/ SourceEnd \/ SendLast \/ Finish \/ Confirm \/ SourceError
Server == ServerCommit \/ ServerReject

Next == Client \/ Server \/ Break \/ Drop

Spec == Init /\ [][Next]_vars

-----------------------------------------------------------------------------
(* What the bulk write promises.                                           *)

\* The table never holds a part of the rows: nothing of a stream that fails, of
\* rows the server rejects or of a write that is cut short before the end of
\* the copy, whatever was sent already (bulk.rs 26-53).
AllOrNothing == table \in {<<>>, Kept(source, Len(source))}

\* Ok means that the whole stream went to the table, in order and once, although
\* rows stay in the buffer when the stream ends (bulk.rs 46-53), and its number is
\* that of the rows written (adapter.rs 231-233).  The number is excepted where a
\* trigger suppresses rows: the code returns what it took from the stream and
\* ignores what copy.finish() counted (bulk.rs 51-53), which is then less.
OkMeansWritten ==
    result \in Nat =>
        /\ table = Kept(source, Len(source))
        /\ result = Len(table) \/ \E i \in 1..Len(source) : source[i] = "unkept"

\* The buffer never holds more than FLUSH_EVERY_ROWS rows, nor more than
\* FLUSH_EVERY_BYTES and one row: "both many-small-rows and few-huge-rows
\* workloads stay bounded in memory" (bulk.rs 14-16).
BufferBound ==
    /\ Len(buffer) <= FlushRows
    /\ buffer # <<>> => bytes - SizeOf[source[buffer[Len(buffer)]]] < FlushBytes

BW == INSTANCE BulkWrite WITH Atomic <- TRUE, Unwritable <- {"error", "bad"}

\* COPY writes the whole stream in one step or not at all, and says Ok only
\* after it did (bulk.rs 21-54).
ImplementsBulkWrite == BW!Spec
=============================================================================
