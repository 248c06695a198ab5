----------------------------- MODULE BulkEngines -----------------------------
(***************************************************************************)
(* The same stream written through both adapters, first into a Postgres    *)
(* table, then into a MySQL one: "every method here must behave            *)
(* identically from the caller's perspective regardless of which engine is *)
(* behind it" (ddbcore/adapter.rs 197-199).                                *)
(***************************************************************************)
EXTENDS PgBulk

CONSTANTS TargetRows, MaxPlaceholders, ByteBudget, Columns, WireOf, JsonEstimate, MaxPacket

ASSUME BulkEnginesAssumption ==
    /\ {TargetRows, MaxPlaceholders, ByteBudget, MaxPacket} \subseteq Nat \ {0}
    /\ Columns \in 0..MaxPlaceholders
    /\ WireOf \in [Kinds -> Nat] /\ JsonEstimate \in Nat

VARIABLES myPc, pos, batch, batchBytes, maxRows, myTotal, insert, myTable, myResult

\* No MySQL trigger suppresses a row.
OnMySql(kind) == IF kind = "unkept" THEN "small" ELSE kind
MySource == [i \in 1..Len(source) |-> OnMySql(source[i])]

My == INSTANCE MySqlBulk WITH
    source <- MySource, pc <- myPc, total <- myTotal, table <- myTable, result <- myResult

myVars == <<myPc, pos, batch, batchBytes, maxRows, myTotal, insert, myTable, myResult>>

\* The Postgres side has returned and its server has nothing left to do.
PgSettled == pc = "returned" /\ copy # "done"

EnginesInit == Init /\ My!Init

EnginesNext ==
    \/ Next /\ UNCHANGED myVars
    \/ PgSettled /\ UNCHANGED <<source, pc, local, server, result>> /\ My!Next

EnginesSpec == EnginesInit /\ [][EnginesNext]_<<vars, myVars>>

-----------------------------------------------------------------------------

\* The counters and the buffers of both sides agree with each other, and a batch
\* never outgrows its limit (bulk.rs 30-44; MySQL bulk.rs 36-61).
BulkTypeOK == TypeOK /\ My!TypeOK

\* No INSERT has more placeholders than the protocol allows, however many
\* columns the rows have (MySQL bulk.rs 25-27).
PlaceholderCap == My!PlaceholderCap

\* No INSERT is larger than max_allowed_packet where the byte budget leaves room
\* for the largest row (MySQL bulk.rs 28-30).
PacketBound == My!PacketBound

\* Whatever fails, the MySQL table holds the first rows of the stream, in order
\* and each once; Ok is returned only with all of them (MySQL bulk.rs 31-68).
MySqlImplements == My!ImplementsBulkWrite

\* A stream that both adapters accept gives the same count and the same rows on
\* both sides, but for rows a Postgres trigger suppresses, although the sizes of
\* batches and buffers differ; neither accepts a stream that breaks off or has
\* a row its server rejects (bulk.rs 34-53; MySQL bulk.rs 42-67).
EnginesAgree ==
    LET AcceptedBy(r) == r \in Nat IN
    /\ AcceptedBy(result) /\ AcceptedBy(myResult) =>
          /\ result = myResult
          /\ table = Through(source, myTable)
    /\ AcceptedBy(result) \/ AcceptedBy(myResult) =>
          \A i \in 1..Len(source) : source[i] \notin {"error", "bad"}
=============================================================================
