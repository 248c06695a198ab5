------------------------------ MODULE PgStream ------------------------------
(***************************************************************************)
(* The Postgres row stream (ddbcore-postgres/src/stream.rs): the call      *)
(* plans the SELECT from the catalog, takes a session out of the pool,     *)
(* begins a transaction and declares a cursor; every poll then yields from *)
(* the decoded batch, or fetches the next one, or commits and closes.      *)
(*                                                                         *)
(* Beside the range column the table has one column whose type other       *)
(* sessions may alter or drop; how the SELECT reads it is decided before   *)
(* the cursor exists.                                                      *)
(***************************************************************************)
EXTENDS StreamTable, FiniteSets

CONSTANTS
    BatchSizes,   \* values of StreamOptions::batch_size the callers pass
    BadRows,      \* rows with a value no native decode accepts
    MaxAlters     \* bound on the ALTER TABLEs of other sessions

ASSUME StreamAssumption ==
    /\ BatchSizes \subseteq Nat
    /\ BadRows \subseteq RowIds
    /\ IsFiniteSet(RowIds) /\ IsFiniteSet(Keys)
    /\ MaxAlters \in Nat

VARIABLES
    column,       \* the column's type now: native, exotic, or dropped
    alters,       \* number of ALTER TABLEs so far
    pc,           \* per stream: the await it is at
    batchSize,    \* per stream: options.batch_size
    cast,         \* per stream: the SELECT reads the column as it is, casts it
                  \* to ::text, or leaves it out
    wire,         \* per stream: the column's type when the cursor was declared
    scan,         \* per stream: the rows the cursor returns
    unread,       \* per stream: the rows not fetched yet
    batch,        \* per stream: the rows fetched and not yielded yet
    isLast,       \* per stream: the `done` of the unfold's state
    delivered,    \* per stream: the rows yielded
    session,      \* streams with a dedicated session
    locked        \* streams whose open transaction holds the table's lock

envVars    == <<tableVars, column, alters>>
planVars   == <<batchSize, cast, wire, scan>>
readVars   == <<unread, batch, isLast, delivered>>
streamVars == <<pc, planVars, readVars, session, locked>>
vars       == <<envVars, streamVars>>

Final == {"ended", "failed", "refused", "dropped"}
PCs   == {"called", "planning", "acquiring", "beginning", "declaring", "open"} \cup Final
Types == {"native", "exotic", "dropped"}
Casts == {"plain", "text", "left out"}

TypeOK ==
    /\ TableTypeOK
    /\ column \in Types /\ alters \in 0..MaxAlters
    /\ pc \in [Streams -> PCs]
    /\ batchSize \in [Streams -> BatchSizes \cup {0}]
    /\ cast \in [Streams -> Casts] /\ isLast \in [Streams -> BOOLEAN]
    /\ wire \in [Streams -> Types]
    /\ scan \in [Streams -> SUBSET Rows] /\ unread \in [Streams -> SUBSET Rows]
    /\ batch \in [Streams -> SUBSET Rows] /\ delivered \in [Streams -> SUBSET Rows]
    /\ session \subseteq Streams /\ locked \subseteq Streams
    /\ \A s \in Streams : pc[s] \notin {"called"} \cup Final => batchSize[s] # 0

Init ==
    /\ TableInit
    /\ column \in {"native", "exotic"} /\ alters = 0
    /\ pc = [s \in Streams |-> "called"]
    /\ batchSize = [s \in Streams |-> 0]
    /\ cast = [s \in Streams |-> "plain"]
    /\ wire = [s \in Streams |-> "native"]
    /\ scan = [s \in Streams |-> {}]
    /\ unread = [s \in Streams |-> {}]
    /\ batch = [s \in Streams |-> {}]
    /\ isLast = [s \in Streams |-> FALSE]
    /\ delivered = [s \in Streams |-> {}]
    /\ session = {} /\ locked = {}

Goto(s, l) == pc' = [pc EXCEPT ![s] = l]

\* Mutant: the stream gives its socket up without closing it.
Keep(s, how) == Goto(s, how) /\ UNCHANGED <<envVars, planVars, readVars, session, locked>>

\* Every early return and every drop of the stream drops `db`: the socket
\* closes, and with it the transaction, the cursor and the lock.
Close(s, how) ==
    /\ Goto(s, how)
    /\ session' = session \ {s}
    /\ locked' = locked \ {s}
    /\ UNCHANGED <<envVars, planVars, readVars>>

-----------------------------------------------------------------------------
(* The call: stream_rows up to its return.                                 *)

\* Mutant: no batch size is refused.
RefusesNone(b) == b < 0

\* FETCH FORWARD 0 would return no rows forever.
RefusedSize(b) == b = 0

\* The caller's options; a batch size of zero is refused at once.
Call(s) ==
    /\ pc[s] = "called"
    /\ \E b \in BatchSizes :
          /\ batchSize' = [batchSize EXCEPT ![s] = b]
          /\ Goto(s, IF RefusedSize(b) THEN "refused" ELSE "planning")
    /\ UNCHANGED <<envVars, cast, wire, scan, readVars, session, locked>>

\* render_key_range: a range without bounds and a NULL bound are errors.
RefusedRange(range) == EmptyRange(range) \/ NullBound(range)

\* What a type of the column makes of it in the SELECT.
CastOf(type) ==
    CASE type = "native" -> "plain" [] type = "exotic" -> "text" [] OTHER -> "left out"

\* build_select: a catalog query on a pooled session decides whether the column
\* passes through, is cast, or is left out because it is gone.  A caller who
\* names a column that is gone gets an error instead (Fail).
Plan(s) ==
    /\ pc[s] = "planning"
    /\ ~RefusedRange(RangeOf[s])
    /\ cast' = [cast EXCEPT ![s] = CastOf(column)]
    /\ Goto(s, "acquiring")
    /\ UNCHANGED <<envVars, batchSize, wire, scan, readVars, session, locked>>

PlanRefused(s) ==
    /\ pc[s] = "planning"
    /\ RefusedRange(RangeOf[s])
    /\ Close(s, "refused")

\* pool.acquire().await?.detach()
Acquire(s) ==
    /\ pc[s] = "acquiring"
    /\ session' = session \cup {s}
    /\ Goto(s, "beginning")
    /\ UNCHANGED <<envVars, planVars, readVars, locked>>

Begin(s) ==
    /\ pc[s] = "beginning"
    /\ Goto(s, "declaring")
    /\ UNCHANGED <<envVars, planVars, readVars, session, locked>>

\* Mutant: the cursor is declared outside a transaction and holds no lock.
HoldNoLock(s) == locked

\* The streams with a lock once s's cursor exists in its transaction.
HoldLock(s) == locked \cup {s}

\* DECLARE ... CURSOR FOR: the cursor reads the state committed now, and the
\* transaction keeps a lock that ALTER TABLE waits for.  A column that the
\* SELECT names has to be there still.
Declare(s) ==
    /\ pc[s] = "declaring"
    /\ column # "dropped" \/ cast[s] = "left out"
    /\ wire' = [wire EXCEPT ![s] = column]
    /\ scan' = [scan EXCEPT ![s] = Selected(table, s)]
    /\ unread' = [unread EXCEPT ![s] = Selected(table, s)]
    /\ locked' = HoldLock(s)
    /\ Goto(s, "open")
    /\ UNCHANGED <<envVars, batchSize, cast, batch, isLast, delivered, session>>

-----------------------------------------------------------------------------
(* The polls: try_unfold over batches, flattened into rows.                *)

AtUnfold(s, done) == pc[s] = "open" /\ batch[s] = {} /\ isLast[s] = done

\* n of the rows, or all of them when they are fewer.
Some(rows, n) ==
    IF Cardinality(rows) <= n THEN {rows} ELSE {b \in SUBSET rows : Cardinality(b) = n}

\* Mutant: pages are read with a new query instead of from the cursor.
FetchedByQuery(s) == Some(Selected(table, s) \ delivered[s], batchSize[s])

\* FETCH FORWARD n answers n rows, or the rest when fewer are left.
Fetched(s) == Some(unread[s], batchSize[s])

\* Mutant: a batch is the last one unless it is larger than asked for.
FullBatchIsLast(s, b) == Cardinality(b) <= batchSize[s]

\* A batch shorter than asked for is the last one.
ShortBatch(s, b) == Cardinality(b) < batchSize[s]

\* Mutant: the rows that do not decode are passed on.
DecodeAny(b) == b = b

\* The rows all decode.
Decodable(b) == \A r \in b : r.id \notin BadRows

\* The whole batch is decoded before any of its rows is yielded.
Fetch(s) ==
    /\ AtUnfold(s, FALSE)
    /\ \E b \in Fetched(s) :
          /\ Decodable(b)
          /\ unread' = [unread EXCEPT ![s] = @ \ b]
          /\ batch' = [batch EXCEPT ![s] = b]
          /\ isLast' = [isLast EXCEPT ![s] = ShortBatch(s, b)]
    /\ UNCHANGED <<envVars, pc, planVars, delivered, session, locked>>

\* A row that does not decode ends the stream and takes its batch with it.
FetchUndecodable(s) ==
    /\ AtUnfold(s, FALSE)
    /\ \E b \in Fetched(s) : ~Decodable(b)
    /\ Close(s, "failed")

Yield(s) ==
    /\ pc[s] = "open"
    /\ \E r \in batch[s] :
          /\ batch' = [batch EXCEPT ![s] = @ \ {r}]
          /\ delivered' = [delivered EXCEPT ![s] = @ \cup {r}]
    /\ UNCHANGED <<envVars, pc, planVars, unread, isLast, session, locked>>

\* The poll after the last row: COMMIT, close, end of the stream.
Finish(s) == AtUnfold(s, TRUE) /\ Close(s, "ended")

-----------------------------------------------------------------------------
(* What can go wrong, and the other sessions.                              *)

\* A statement of the call is refused, no connection can be had, or the
\* connection breaks: `?` returns at the await.
Fail(s) ==
    /\ pc[s] \in {"planning", "acquiring", "beginning", "declaring"}
    /\ Close(s, "failed")

\* The connection breaks in a FETCH.
Break(s) == AtUnfold(s, FALSE) /\ Close(s, "failed")

\* The caller drops the future of the call, or the stream.
Drop(s) == pc[s] \notin Final /\ Close(s, "dropped")

\* ALTER TABLE of another session; it waits for every open cursor.
Alter ==
    /\ alters < MaxAlters /\ locked = {} /\ column # "dropped"
    /\ column' \in Types \ {column}
    /\ alters' = alters + 1
    /\ UNCHANGED <<tableVars, streamVars>>

Poll(s) == Fetch(s) \/ FetchUndecodable(s) \/ Yield(s) \/ Finish(s)

\* The call runs to its return; an await whose statement cannot succeed fails.
Progress(s) ==
    \/ Call(s) \/ Plan(s) \/ PlanRefused(s) \/ Acquire(s) \/ Begin(s) \/ Declare(s)
    \/ Fail(s)

Next ==
    \/ OtherSession /\ UNCHANGED <<column, alters, streamVars>>
    \/ Alter
    \/ \E s \in Streams : Progress(s) \/ Poll(s) \/ Break(s) \/ Drop(s)

Spec == Init /\ [][Next]_vars

\* The runtime drives the call, and the caller polls the stream to its end,
\* as every reader in the contract tests does.
Fairness == \A s \in Streams : WF_vars(Progress(s)) /\ WF_vars(Poll(s))

FairSpec == Spec /\ Fairness

-----------------------------------------------------------------------------
(* What the stream promises.                                               *)

\* The rows of the cursor, told apart by how far they have come.
Partition(s) ==
    /\ scan[s] = unread[s] \cup batch[s] \cup delivered[s]
    /\ unread[s] \cap batch[s] = {}
    /\ unread[s] \cap delivered[s] = {}
    /\ batch[s] \cap delivered[s] = {}

\* While a stream is open every row its cursor saw is in exactly one place:
\* not fetched, in the decoded batch, or yielded; and the stream ends only
\* when all were yielded, although the code knows the last batch only by its
\* length (stream.rs 183-184).
ExactlyOnce ==
    \A s \in Streams :
        /\ pc[s] = "open" => Partition(s)
        /\ pc[s] = "ended" => delivered[s] = scan[s]

\* A value that cannot be decoded is never skipped: its row is not yielded and
\* the stream does not end normally (stream.rs 185-194).
BadRowIsAnError ==
    \A s \in Streams :
        /\ \A r \in delivered[s] : r.id \notin BadRows
        /\ pc[s] = "ended" => \A r \in scan[s] : r.id \notin BadRows

\* A dedicated session exists from the acquire to the end of the stream and no
\* longer, whichever way it ends, and the table is locked only under an open
\* cursor (stream.rs 148-152: dropping the stream leaves nothing pinned).
NothingPinned ==
    /\ session = {s \in Streams : pc[s] \in {"beginning", "declaring", "open"}}
    /\ locked = {s \in Streams : pc[s] = "open"}

\* The decode plan is built once, from the first row (stream.rs 188); it stays
\* right for every later batch because the column cannot change under an open
\* cursor.
DecoderStaysValid == \A s \in Streams : pc[s] = "open" => wire[s] = column

\* Every stream that is polled ends: it runs out of rows or fails; a batch size
\* that would never run out is refused (stream.rs 154-157).
EveryStreamEnds == \A s \in Streams : (pc[s] = "planning") ~> (pc[s] \in Final)

\* "This arm is reachable only from ad-hoc execute_query SQL" (query.rs
\* 120-124): a stream never yields a value of a type without a decoder as it
\* comes off the wire.
FallbackOnlyAdHoc ==
    \A s \in Streams : delivered[s] # {} => cast[s] # "plain" \/ wire[s] # "exotic"

\* What the caller can tell of a stream at l.
Shown(l) ==
    CASE l = "open"    -> "reading"
      [] l = "refused" -> "failed"
      [] l \in Final \ {"refused"} -> l
      [] OTHER         -> "requested"

RS == INSTANCE RowStream WITH state <- [s \in Streams |-> Shown(pc[s])]

\* The cursor stream is a read of one committed state of the table, taken
\* inside the call, whatever other sessions do meanwhile (stream.rs 153-202).
ImplementsRowStream == RS!Spec
=============================================================================
