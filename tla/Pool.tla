-------------------------------- MODULE Pool --------------------------------
(***************************************************************************)
(* A Connection and its pool (connection.rs of both adapters) as the       *)
(* callers that share it use it.  A statement borrows a session of the     *)
(* pool while it runs; a row stream, a streamed query and the Postgres     *)
(* bulk write take theirs out of the pool for good.  What a statement      *)
(* leaves behind in a session is met by whoever gets the session next.     *)
(***************************************************************************)
EXTENDS Naturals, FiniteSets

CONSTANTS
    Callers,        \* the tasks that share the Connection
    Sessions,       \* sessions at the server; one that closed may be used again
    NoSession,      \* a caller holds none
    NoCall,         \* a caller has no call in progress
    MaxConnections, \* max_connections of the pool
    MaxDedicated,   \* bound on the dedicated sessions at any time
    QuerySql,       \* what callers give execute_query
    StreamSql       \* what callers give execute_query_stream

\* begin stands for any statement that leaves a transaction open.
SqlKinds == {"read", "write", "begin", "commit"}

ASSUME PoolAssumption ==
    /\ QuerySql \subseteq SqlKinds /\ StreamSql \subseteq SqlKinds
    /\ NoSession \notin Sessions
    /\ IsFiniteSet(Sessions) /\ IsFiniteSet(Callers)
    /\ MaxConnections \in Nat \ {0} /\ MaxDedicated \in Nat
    /\ Cardinality(Sessions) >= MaxConnections + MaxDedicated

VARIABLES
    engine,       \* the adapter
    readOnly,     \* ConnectionConfig::read_only
    connection,   \* connecting, ready, or refused
    status,       \* per session: where it is
    restricted,   \* per session: the server refuses writes in it
    inTx,         \* per session: a transaction was left open in it
    work,         \* per session: callers whose load is uncommitted in it
    stream,       \* per session: none, open, or the SQL of a stream not polled yet
    pc,           \* per caller: where its call is
    call,         \* per caller: the call in progress
    held,         \* per caller: the session its call holds
    wrote,        \* history: a read-only connection has written
    acked,        \* history: callers whose last bulk_write returned Ok
    lost          \* history: callers of whose last load rows were rolled back

config      == <<engine, readOnly>>
sessionVars == <<status, restricted, inTx, work, stream>>
callVars    == <<pc, call, held>>
history     == <<wrote, acked, lost>>
vars        == <<config, connection, sessionVars, callVars, history>>

CallsOf(methods, sqls) == [method : methods, sql : sqls]

\* What a caller may ask for; only two methods take SQL.
Calls ==
    CallsOf({"execute_query"}, QuerySql) \cup CallsOf({"execute_query_stream"}, StreamSql)
    \cup CallsOf({"stream_rows"}, {"read"}) \cup CallsOf({"bulk_write"}, {"load"})

ASSUME NoCallAssumption == NoCall \notin Calls

PCs == {"idle", "wantsPooled", "wantsOwn", "running", "declaring", "copying", "pulling"}

TypeOK ==
    /\ engine \in {"postgres", "mysql"} /\ readOnly \in BOOLEAN
    /\ connection \in {"connecting", "ready", "refused"}
    /\ status \in [Sessions -> {"closed", "setup", "idle", "busy", "draining", "dedicated"}]
    /\ restricted \in [Sessions -> BOOLEAN] /\ inTx \in [Sessions -> BOOLEAN]
    /\ work \in [Sessions -> SUBSET Callers]
    /\ stream \in [Sessions -> {"none", "open"} \cup SqlKinds]
    /\ pc \in [Callers -> PCs]
    /\ call \in [Callers -> Calls \cup {NoCall}]
    /\ held \in [Callers -> Sessions \cup {NoSession}]
    /\ wrote \in BOOLEAN /\ acked \subseteq Callers /\ lost \subseteq Callers
    /\ \A c \in Callers : pc[c] = "idle" <=> call[c] = NoCall

Init ==
    /\ engine \in {"postgres", "mysql"} /\ readOnly \in BOOLEAN
    /\ connection = "connecting"
    /\ status = [s \in Sessions |-> "closed"]
    /\ restricted = [s \in Sessions |-> FALSE]
    /\ inTx = [s \in Sessions |-> FALSE]
    /\ work = [s \in Sessions |-> {}]
    /\ stream = [s \in Sessions |-> "none"]
    /\ pc = [c \in Callers |-> "idle"]
    /\ call = [c \in Callers |-> NoCall]
    /\ held = [c \in Callers |-> NoSession]
    /\ wrote = FALSE /\ acked = {} /\ lost = {}

-----------------------------------------------------------------------------
(* The pool opens sessions.                                                *)

In(st) == {s \in Sessions : status[s] = st}

\* The sessions that count against max_connections.
Pooled == Sessions \ (In("closed") \cup In("dedicated"))

Waiting(c) == pc[c] \in {"wantsPooled", "wantsOwn"}

\* connect_with opens the first session; later ones are opened for a caller
\* that finds none idle, up to max_connections.
NeedsSession ==
    \/ connection = "connecting" /\ Pooled = {}
    \/ /\ connection = "ready" /\ In("setup") \cup In("idle") = {}
       /\ Cardinality(Pooled) < MaxConnections
       /\ \E c \in Callers : Waiting(c)

\* Postgres gets default_transaction_read_only with the start of the session.
Open ==
    /\ NeedsSession
    /\ LET s == CHOOSE s \in Sessions : status[s] = "closed" IN
          /\ status' = [status EXCEPT ![s] = "setup"]
          /\ restricted' = [restricted EXCEPT ![s] = engine = "postgres" /\ readOnly]
    /\ UNCHANGED <<config, connection, inTx, work, stream, callVars, history>>

\* Mutant: only the session that connect opens is set read only.
HookOnce == connection = "connecting" /\ readOnly

\* The after_connect hook of the MySQL pool, which runs for every session.
Hook == readOnly

SetUp(s) ==
    /\ status[s] = "setup"
    /\ status' = [status EXCEPT ![s] = "idle"]
    /\ restricted' = [restricted EXCEPT ![s] = IF engine = "mysql" THEN Hook ELSE @]
    /\ connection' = "ready"
    /\ UNCHANGED <<config, inTx, work, stream, callVars, history>>

\* The first failure is returned by connect; the pool tries again after later ones.
SetUpFails(s) ==
    /\ status[s] = "setup"
    /\ status' = [status EXCEPT ![s] = "closed"]
    /\ restricted' = [restricted EXCEPT ![s] = FALSE]
    /\ connection' = IF connection = "connecting" THEN "refused" ELSE connection
    /\ UNCHANGED <<config, inTx, work, stream, callVars, history>>

-----------------------------------------------------------------------------
(* Calls, and how they come by a session.                                  *)

\* Methods that take a session out of the pool.
Dedicated(method) ==
    \/ method \in {"execute_query_stream", "stream_rows"}
    \/ method = "bulk_write" /\ engine = "postgres"

\* Where a method starts: the Postgres stream_rows plans its SELECT on the
\* pool first, the MySQL bulk_write needs no session before its first batch.
Entry(method) ==
    CASE method = "execute_query"                        -> "wantsPooled"
      [] method = "stream_rows" /\ engine = "postgres"   -> "wantsPooled"
      [] method = "bulk_write" /\ engine = "mysql"       -> "pulling"
      [] OTHER                                           -> "wantsOwn"

\* The calls that will still take a session out of the pool.
Detaching == {c \in Callers : /\ call[c] # NoCall /\ Dedicated(call[c].method)
                              /\ pc[c] \in {"wantsPooled", "running", "wantsOwn"}}

Call(c) ==
    /\ connection = "ready" /\ pc[c] = "idle"
    /\ \E k \in Calls :
          /\ Dedicated(k.method) =>
                Cardinality(In("dedicated")) + Cardinality(Detaching) < MaxDedicated
          /\ call' = [call EXCEPT ![c] = k]
          /\ pc' = [pc EXCEPT ![c] = Entry(k.method)]
          /\ IF k.method = "bulk_write"
             THEN /\ acked' = acked \ {c} /\ lost' = lost \ {c}
                  /\ work' = [s \in Sessions |-> work[s] \ {c}]
             ELSE UNCHANGED <<acked, lost, work>>
    /\ UNCHANGED <<config, connection, status, restricted, inTx, stream, held, wrote>>

\* Mutant: a call that ends keeps its session in mind.
LeaveHolding(c) ==
    /\ pc' = [pc EXCEPT ![c] = "idle"]
    /\ UNCHANGED <<call, held>>

\* The call returns, or its future is dropped.
Leave(c) ==
    /\ pc' = [pc EXCEPT ![c] = "idle"]
    /\ call' = [call EXCEPT ![c] = NoCall]
    /\ held' = [held EXCEPT ![c] = NoSession]

Goto(c, l) == pc' = [pc EXCEPT ![c] = l] /\ call' = call

\* fetch_all(&conn.pool), execute(&conn.pool): the statement borrows a session.
Borrow(c) ==
    /\ pc[c] = "wantsPooled"
    /\ \E s \in In("idle") :
          /\ status' = [status EXCEPT ![s] = "busy"]
          /\ held' = [held EXCEPT ![c] = s]
    /\ Goto(c, "running")
    /\ UNCHANGED <<config, connection, restricted, inTx, work, stream, history>>

\* Mutant: the stream or the load keeps its place in the pool.
Keep == "busy"

\* acquire().await?.detach(): the session leaves the pool for good.
Detach == "dedicated"

\* A stream over SQL returns at once, its statement is not sent yet; so does
\* the MySQL stream_rows.
Acquire(c) ==
    /\ pc[c] = "wantsOwn"
    /\ \E s \in In("idle") :
          /\ status' = [status EXCEPT ![s] = Detach]
          /\ \/ /\ call[c].method = "bulk_write"
                /\ Goto(c, "copying") /\ held' = [held EXCEPT ![c] = s]
                /\ UNCHANGED stream
             \/ /\ call[c].method = "stream_rows" /\ engine = "postgres"
                /\ Goto(c, "declaring") /\ held' = [held EXCEPT ![c] = s]
                /\ UNCHANGED stream
             \/ /\ call[c].method = "execute_query_stream" \/ engine = "mysql"
                /\ Leave(c) /\ stream' = [stream EXCEPT ![s] = call[c].sql]
    /\ UNCHANGED <<config, connection, restricted, inTx, work, history>>

\* The acquire times out or fails.
GiveUp(c) ==
    /\ Waiting(c) /\ Leave(c)
    /\ UNCHANGED <<config, connection, sessionVars, history>>

-----------------------------------------------------------------------------
(* Statements.                                                             *)

Writes == {"write", "load"}
Refuses(s, sql) == restricted[s] /\ sql \in Writes

\* A statement of one of the callers in by has run in session s.  In an open
\* transaction a load stays uncommitted; MySQL commits when another one begins.
Effect(s, sql, by) ==
    /\ ~Refuses(s, sql)
    /\ inTx' = [inTx EXCEPT ![s] = sql = "begin" \/ (@ /\ sql # "commit")]
    /\ work' = [work EXCEPT ![s] =
          IF sql = "commit" \/ (sql = "begin" /\ engine = "mysql") THEN {}
          ELSE IF sql = "load" /\ inTx[s] THEN @ \cup by ELSE @]
    /\ wrote' = (wrote \/ (readOnly /\ sql \in Writes))

NoEffect == UNCHANGED <<inTx, work, wrote>>

\* The catalog query of the Postgres stream_rows reads.
SqlOf(c) == call[c].sql

\* Mutant: the planning session is kept while the stream's own is acquired.
KeepWhilePlanning(c) ==
    IF call[c].method = "stream_rows" THEN UNCHANGED <<status, held>>
    ELSE status' = [status EXCEPT ![held[c]] = "idle"] /\ held' = [held EXCEPT ![c] = NoSession]

GiveBack(c) ==
    /\ status' = [status EXCEPT ![held[c]] = "idle"]
    /\ held' = [held EXCEPT ![c] = NoSession]

\* The statement is done; its session goes back as the statement left it.
Execute(c) ==
    /\ pc[c] = "running"
    /\ Effect(held[c], SqlOf(c), {c})
    /\ GiveBack(c)
    /\ CASE call[c].method = "execute_query" ->
              pc' = [pc EXCEPT ![c] = "idle"] /\ call' = [call EXCEPT ![c] = NoCall]
         [] call[c].method = "stream_rows"   -> Goto(c, "wantsOwn")
         [] call[c].method = "bulk_write"    -> Goto(c, "pulling")
    /\ UNCHANGED <<config, connection, restricted, stream, acked, lost>>

\* The server refuses the statement, which ends the call.
ExecuteFails(c) ==
    /\ pc[c] = "running"
    /\ status' = [status EXCEPT ![held[c]] = "idle"]
    /\ Leave(c)
    /\ UNCHANGED <<config, connection, restricted, inTx, work, stream, history>>

\* The MySQL bulk_write has a full batch, or nothing more to write.
NextBatch(c) ==
    /\ pc[c] = "pulling"
    /\ \/ Goto(c, "wantsPooled") /\ UNCHANGED <<held, acked>>
       \/ Leave(c) /\ acked' = acked \cup {c}
    /\ UNCHANGED <<config, connection, sessionVars, wrote, lost>>

\* The stream the bulk_write reads from yields an error.
PullFails(c) ==
    /\ pc[c] = "pulling" /\ Leave(c)
    /\ UNCHANGED <<config, connection, sessionVars, history>>

\* A session closes: what is uncommitted in it is rolled back.
CloseSession(s, uncommitted) ==
    /\ status' = [status EXCEPT ![s] = "closed"]
    /\ restricted' = [restricted EXCEPT ![s] = FALSE]
    /\ inTx' = [inTx EXCEPT ![s] = FALSE]
    /\ work' = [work EXCEPT ![s] = {}]
    /\ stream' = [stream EXCEPT ![s] = "none"]
    /\ lost' = lost \cup work[s] \cup uncommitted

\* copy.finish() succeeded, and the session is closed.
FinishCopy(c) ==
    /\ pc[c] = "copying" /\ ~Refuses(held[c], "load")
    /\ CloseSession(held[c], IF inTx[held[c]] THEN {c} ELSE {})
    /\ wrote' = (wrote \/ readOnly) /\ acked' = acked \cup {c}
    /\ Leave(c)
    /\ UNCHANGED <<config, connection>>

\* BEGIN and DECLARE on the stream's own session.
Declare(c) ==
    /\ pc[c] = "declaring"
    /\ inTx' = [inTx EXCEPT ![held[c]] = TRUE]
    /\ stream' = [stream EXCEPT ![held[c]] = "open"]
    /\ Leave(c)
    /\ UNCHANGED <<config, connection, status, restricted, work, history>>

\* COPY, BEGIN or DECLARE fails, or the copy is given up: its session closes.
OwnFails(c) ==
    /\ pc[c] \in {"copying", "declaring"}
    /\ CloseSession(held[c], {})
    /\ Leave(c)
    /\ UNCHANGED <<config, connection, wrote, acked>>

\* The first poll of a stream sends its statement.
Poll(s) ==
    /\ stream[s] \in SqlKinds
    /\ Effect(s, stream[s], {})
    /\ stream' = [stream EXCEPT ![s] = "open"]
    /\ UNCHANGED <<config, connection, status, restricted, callVars, acked, lost>>

\* Mutant: a stream that ends gives its session to the pool.
Recycle(s) ==
    /\ status' = [status EXCEPT ![s] = "idle"]
    /\ stream' = [stream EXCEPT ![s] = "none"]
    /\ UNCHANGED <<restricted, inTx, work, lost>>

CloseStream(s) == CloseSession(s, {})

\* A stream ends, fails or is dropped: its session closes.
EndStream(s) ==
    /\ stream[s] # "none"
    /\ CloseStream(s)
    /\ UNCHANGED <<config, connection, callVars, wrote, acked>>

-----------------------------------------------------------------------------
(* Futures that are dropped, and sessions that break.                      *)

\* A statement that is under way is finished before its session is idle again,
\* with its effect or, when it had not been sent, without.
Cancel(c) ==
    /\ pc[c] = "running"
    /\ Effect(held[c], SqlOf(c), {c}) \/ NoEffect
    /\ status' = [status EXCEPT ![held[c]] = "draining"]
    /\ Leave(c)
    /\ UNCHANGED <<config, connection, restricted, stream, acked, lost>>

Drain(s) ==
    /\ status[s] = "draining"
    /\ status' = [status EXCEPT ![s] = "idle"]
    /\ UNCHANGED <<config, connection, restricted, inTx, work, stream, callVars, history>>

\* The server or the network ends a session, or the pool retires an idle one.
\* A call that holds it fails.
Break(s) ==
    /\ status[s] \notin {"closed", "setup"}
    /\ CloseSession(s, {})
    /\ LET cut == {c \in Callers : held[c] = s} IN
          /\ pc' = [c \in Callers |-> IF c \in cut THEN "idle" ELSE pc[c]]
          /\ call' = [c \in Callers |-> IF c \in cut THEN NoCall ELSE call[c]]
          /\ held' = [c \in Callers |-> IF c \in cut THEN NoSession ELSE held[c]]
    /\ UNCHANGED <<config, connection, wrote, acked>>

CallStep(c) ==
    \/ Call(c) \/ Borrow(c) \/ Acquire(c) \/ GiveUp(c) \/ Execute(c) \/ ExecuteFails(c)
    \/ NextBatch(c) \/ PullFails(c) \/ FinishCopy(c) \/ Declare(c) \/ OwnFails(c) \/ Cancel(c)

SessionStep(s) ==
    SetUp(s) \/ SetUpFails(s) \/ Poll(s) \/ EndStream(s) \/ Drain(s) \/ Break(s)

Next == Open \/ (\E c \in Callers : CallStep(c)) \/ (\E s \in Sessions : SessionStep(s))

Spec == Init /\ [][Next]_vars

\* The pool opens sessions and hands idle ones out in the order of the requests,
\* statements come to their end, and a server that is tried again and again is
\* reached.  Streams, copies and sources need never end, callers never call.
FairSpec ==
    /\ Spec
    /\ WF_vars(Open)
    /\ \A s \in Sessions : SF_vars(SetUp(s)) /\ WF_vars(Drain(s))
    /\ \A c \in Callers :
          SF_vars(Borrow(c) \/ Acquire(c)) /\ WF_vars(Execute(c) \/ ExecuteFails(c))

-----------------------------------------------------------------------------
(* What a Connection promises to those who share it.                       *)

Running == {c \in Callers : pc[c] = "running"}
Owners(s) == {c \in Callers : held[c] = s}

\* Every session a statement can run in refuses writes when the configuration
\* asks for it, also those the pool opens later or that left it, and no write
\* is ever accepted: "enforced at the connection/session level" (adapter.rs
\* 29-32; connection.rs 30-32; MySQL connection.rs 31-40).
ReadOnlyHolds ==
    readOnly =>
        /\ ~wrote
        /\ \A s \in Sessions : status[s] \notin {"closed", "setup"} => restricted[s]

\* A place in the pool is taken by a statement that runs and by nothing else: no
\* stream, copy or waiting call pins one, no two calls share a session, and
\* every session that left the pool has exactly one stream or call that will
\* close it (adapter.rs 224-228; query.rs 29-33; bulk.rs 19-20).
NoSlotPinned ==
    /\ Cardinality(Pooled) <= MaxConnections
    /\ \A s \in Sessions :
          CASE status[s] = "busy"      -> Cardinality(Owners(s)) = 1 /\ Owners(s) \subseteq Running
            [] status[s] = "dedicated" ->
                  \/ stream[s] = "none" /\ Cardinality(Owners(s)) = 1
                  \/ stream[s] # "none" /\ Owners(s) = {}
            [] OTHER                   -> Owners(s) = {} /\ stream[s] = "none"

\* What bulk_write returned Ok for stays: no transaction that another user of the
\* session left open takes it back (adapter.rs 231-233, "returns the number of
\* rows written").
LoadsAreKept == acked \cap lost = {}

\* A call that waits for a session gets one although streams and copies stay open
\* for ever: no call waits for a session while it holds another one, and
\* nothing but running statements keeps sessions from the pool.
EveryCallIsServed == \A c \in Callers : Waiting(c) ~> ~Waiting(c)
=============================================================================
