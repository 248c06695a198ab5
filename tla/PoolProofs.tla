----------------------------- MODULE PoolProofs -----------------------------
(***************************************************************************)
(* Theorems about Pool, for every number of callers and sessions, every    *)
(* size of the pool and every choice of SQL.                               *)
(***************************************************************************)
EXTENDS Pool, FiniteSetTheorems, TLAPS

\* Where a call is, by what it is.
CallInStep ==
    \A c \in Callers :
        /\ pc[c] \in {"wantsPooled", "running"} =>
              /\ call[c].method # "execute_query_stream"
              /\ call[c].method = "bulk_write" => engine = "mysql"
        /\ pc[c] = "wantsOwn" => Dedicated(call[c].method)
        /\ pc[c] = "pulling" => call[c].method = "bulk_write" /\ engine = "mysql"

\* Calls and sessions point to each other: a call that runs a statement holds a
\* busy session, one that copies or declares a dedicated one; no session is held
\* twice, and every busy or dedicated session has a call or a stream.
HeldInStep ==
    /\ \A c \in Callers :
          /\ held[c] # NoSession <=> pc[c] \in {"running", "declaring", "copying"}
          /\ pc[c] = "running" => status[held[c]] = "busy"
          /\ pc[c] \in {"declaring", "copying"} =>
                status[held[c]] = "dedicated" /\ stream[held[c]] = "none"
    /\ \A c, d \in Callers : held[c] = held[d] /\ held[c] # NoSession => c = d
    /\ \A s \in Sessions :
          /\ status[s] = "busy" => \E c \in Callers : held[c] = s
          /\ status[s] = "dedicated" => stream[s] # "none" \/ \E c \in Callers : held[c] = s
          /\ stream[s] # "none" => status[s] = "dedicated"

\* The sessions in the pool, and those that left it or will.
Bounds ==
    /\ Cardinality(Pooled) <= MaxConnections
    /\ Cardinality(In("dedicated")) + Cardinality(Detaching) <= MaxDedicated

\* Postgres restricts a session from its start, MySQL once it is set up.
Restricted ==
    readOnly =>
        /\ ~wrote
        /\ \A s \in Sessions :
              status[s] # "closed" /\ (status[s] # "setup" \/ engine = "postgres") => restricted[s]

\* The inductive invariant.
IInv == TypeOK /\ CallInStep /\ HeldInStep /\ Bounds /\ Restricted

\* Where no caller leaves a transaction open in a pooled session, only streams
\* have one, and no load ever waits for its commit.
NoTransaction ==
    /\ \A s \in Sessions : (inTx[s] => stream[s] = "open") /\ work[s] = {}
    /\ lost = {}
-----------------------------------------------------------------------------
(* What callers ask for.                                                   *)

\* A call has one of four methods, and SQL of its own only with two of them.
LEMMA CallsAre ==
    ASSUME NEW k \in Calls
    PROVE  /\ k.method \in {"execute_query", "execute_query_stream", "stream_rows", "bulk_write"}
           /\ k.method = "execute_query" => k.sql \in QuerySql
           /\ k.method = "execute_query_stream" => k.sql \in StreamSql
           /\ k.method = "stream_rows" => k.sql = "read"
           /\ k.method = "bulk_write" => k.sql = "load"
           /\ k # NoCall
  BY NoCallAssumption DEF Calls, CallsOf

\* A caller that is not idle has a call.
LEMMA HasCall ==
    ASSUME TypeOK, NEW c \in Callers, pc[c] # "idle"
    PROVE  call[c] \in Calls
  BY DEF TypeOK

\* A statement borrows an idle session.
LEMMA BorrowMoves ==
    ASSUME NEW c \in Callers, Borrow(c)
    PROVE  /\ \E s \in Sessions :
                 /\ status[s] = "idle" /\ status' = [status EXCEPT ![s] = "busy"]
                 /\ held' = [held EXCEPT ![c] = s]
           /\ pc[c] = "wantsPooled" /\ pc' = [pc EXCEPT ![c] = "running"] /\ call' = call
           /\ UNCHANGED <<engine, readOnly, connection, restricted, inTx, work, stream, wrote, acked, lost>>
  BY DEF Borrow, Goto, In, config, history

\* A load and a stream take an idle session with them; a stream over SQL, and
\* every stream of MySQL, is returned at once.
LEMMA AcquireMoves ==
    ASSUME IInv, NEW c \in Callers, Acquire(c)
    PROVE  /\ \E s \in Sessions :
                 /\ status[s] = "idle" /\ status' = [status EXCEPT ![s] = "dedicated"]
                 /\ \/ /\ pc' = [pc EXCEPT ![c] = "copying"] /\ call' = call
                       /\ held' = [held EXCEPT ![c] = s] /\ stream' = stream
                    \/ /\ pc' = [pc EXCEPT ![c] = "declaring"] /\ call' = call
                       /\ held' = [held EXCEPT ![c] = s] /\ stream' = stream
                    \/ /\ pc' = [pc EXCEPT ![c] = "idle"] /\ call' = [call EXCEPT ![c] = NoCall]
                       /\ held' = [held EXCEPT ![c] = NoSession]
                       /\ stream' = [stream EXCEPT ![s] = call[c].sql] /\ call[c].sql \in SqlKinds
           /\ pc[c] = "wantsOwn" /\ call[c] \in Calls /\ Dedicated(call[c].method)
           /\ UNCHANGED <<engine, readOnly, connection, restricted, inTx, work, wrote, acked, lost>>
  <1> USE DEF Acquire, In, Detach, Goto, Leave, config, history
  <1>1. call[c] \in Calls /\ Dedicated(call[c].method)
    BY HasCall DEF IInv, CallInStep
  <1>2. call[c].method = "execute_query_stream" \/ engine = "mysql" => call[c].sql \in SqlKinds
    BY <1>1, CallsAre, PoolAssumption DEF Dedicated, SqlKinds, IInv, TypeOK
  <1>3. QED
    BY <1>1, <1>2

\* A statement gives its session back; a stream then goes on to acquire its own,
\* a load to its next batch.
LEMMA ExecuteMoves ==
    ASSUME IInv, NEW c \in Callers, Execute(c)
    PROVE  /\ call[c] \in Calls /\ held[c] \in Sessions /\ pc[c] = "running"
           /\ status[held[c]] = "busy" /\ status' = [status EXCEPT ![held[c]] = "idle"]
           /\ held' = [held EXCEPT ![c] = NoSession]
           /\ \/ /\ pc' = [pc EXCEPT ![c] = "idle"] /\ call' = [call EXCEPT ![c] = NoCall]
                 /\ call[c].method = "execute_query"
              \/ /\ pc' = [pc EXCEPT ![c] = "wantsOwn"] /\ call' = call
                 /\ call[c].method = "stream_rows"
              \/ /\ pc' = [pc EXCEPT ![c] = "pulling"] /\ call' = call
                 /\ call[c].method = "bulk_write"
           /\ UNCHANGED <<engine, readOnly, connection, restricted, stream, acked, lost>>
  <1> USE DEF Execute, GiveBack, Goto, config, IInv
  <1>1. call[c] \in Calls /\ call[c].method # "execute_query_stream"
    BY HasCall DEF CallInStep
  <1>2. call[c].method \in {"execute_query", "stream_rows", "bulk_write"}
    BY <1>1, CallsAre
  <1>3. held[c] \in Sessions /\ status[held[c]] = "busy"
    BY DEF HeldInStep, TypeOK
  <1>4. QED
    BY <1>1, <1>2, <1>3

\* A step of a call moves no other call.
LEMMA MovesOne ==
    ASSUME IInv, NEW c \in Callers, CallStep(c)
    PROVE  /\ UNCHANGED <<engine, readOnly, connection>>
           /\ \A d \in Callers :
                 d # c => pc'[d] = pc[d] /\ call'[d] = call[d] /\ held'[d] = held[d]
  <1> USE DEF Goto, Leave, config, IInv, TypeOK
  <1>1. CASE Borrow(c)
    BY <1>1, BorrowMoves
  <1>2. CASE Acquire(c)
    BY <1>2, AcquireMoves
  <1>3. CASE Execute(c)
    BY <1>3, ExecuteMoves
  <1>4. CASE Call(c)
    BY <1>4 DEF Call
  <1>5. CASE GiveUp(c) \/ ExecuteFails(c) \/ NextBatch(c) \/ PullFails(c)
    BY <1>5 DEF GiveUp, ExecuteFails, NextBatch, PullFails
  <1>6. CASE FinishCopy(c) \/ Declare(c) \/ OwnFails(c) \/ Cancel(c)
    BY <1>6 DEF FinishCopy, Declare, OwnFails, Cancel
  <1>7. QED
    BY <1>1, <1>2, <1>3, <1>4, <1>5, <1>6 DEF CallStep

-----------------------------------------------------------------------------
(* The types.                                                              *)

\* The steps of sessions keep the types.
LEMMA SessionTypes ==
    ASSUME IInv, Open \/ \E s \in Sessions : SessionStep(s)
    PROVE  TypeOK'
  <1> USE DEF IInv, config, callVars, history
  <1>1. CASE Open
    BY <1>1 DEF Open, TypeOK
  <1>2. ASSUME NEW s \in Sessions, SetUp(s) PROVE TypeOK'
    BY <1>2 DEF SetUp, Hook, TypeOK
  <1>3. ASSUME NEW s \in Sessions, SetUpFails(s) PROVE TypeOK'
    BY <1>3 DEF SetUpFails, TypeOK
  <1>4. ASSUME NEW s \in Sessions, Poll(s) PROVE TypeOK'
    BY <1>4 DEF Poll, Effect, TypeOK
  <1>5. ASSUME NEW s \in Sessions, EndStream(s) PROVE TypeOK'
    BY <1>5 DEF EndStream, CloseStream, CloseSession, TypeOK
  <1>6. ASSUME NEW s \in Sessions, Drain(s) PROVE TypeOK'
    BY <1>6 DEF Drain, TypeOK
  <1>7. ASSUME NEW s \in Sessions, Break(s) PROVE TypeOK'
    <2>1. \A c \in Callers : pc'[c] = "idle" <=> call'[c] = NoCall
      BY <1>7 DEF Break, TypeOK
    <2>2. /\ pc' \in [Callers -> PCs] /\ call' \in [Callers -> Calls \cup {NoCall}]
          /\ held' \in [Callers -> Sessions \cup {NoSession}]
      BY <1>7 DEF Break, TypeOK, PCs
    <2>3. /\ status' \in [Sessions -> {"closed", "setup", "idle", "busy", "draining", "dedicated"}]
          /\ restricted' \in [Sessions -> BOOLEAN] /\ inTx' \in [Sessions -> BOOLEAN]
          /\ work' \in [Sessions -> SUBSET Callers]
          /\ stream' \in [Sessions -> {"none", "open"} \cup SqlKinds]
          /\ lost' \subseteq Callers
      BY <1>7 DEF Break, CloseSession, TypeOK
    <2>4. QED
      BY <1>7, <2>1, <2>2, <2>3 DEF Break, TypeOK
  <1>8. QED
    BY <1>1, <1>2, <1>3, <1>4, <1>5, <1>6, <1>7 DEF SessionStep

\* The steps of calls keep the types.
LEMMA CallTypes ==
    ASSUME IInv, NEW c \in Callers, CallStep(c)
    PROVE  TypeOK'
  <1> USE DEF IInv, config, sessionVars, history, Leave, Goto
  <1>1. CASE Call(c)
    <2>1. PICK k \in Calls :
             /\ call' = [call EXCEPT ![c] = k]
             /\ pc' = [pc EXCEPT ![c] = Entry(k.method)]
             /\ \/ acked' = acked \ {c} /\ lost' = lost \ {c} /\ work' = [s \in Sessions |-> work[s] \ {c}]
                \/ UNCHANGED <<acked, lost, work>>
      BY <1>1 DEF Call
    <2>2. Entry(k.method) \in {"wantsPooled", "pulling", "wantsOwn"} /\ k # NoCall
      BY CallsAre DEF Entry
    <2>3. QED
      BY <1>1, <2>1, <2>2 DEF Call, TypeOK, PCs
  <1>2. CASE Borrow(c)
    BY <1>2, BorrowMoves DEF TypeOK, PCs
  <1>3. CASE Acquire(c)
    <2>1. PICK s \in Sessions :
             /\ status' = [status EXCEPT ![s] = "dedicated"]
             /\ \/ /\ call' = call /\ \E l \in {"copying", "declaring"} : pc' = [pc EXCEPT ![c] = l]
                   /\ held' = [held EXCEPT ![c] = s] /\ stream' = stream
                \/ /\ pc' = [pc EXCEPT ![c] = "idle"] /\ call' = [call EXCEPT ![c] = NoCall]
                   /\ held' = [held EXCEPT ![c] = NoSession]
                   /\ stream' = [stream EXCEPT ![s] = call[c].sql] /\ call[c].sql \in SqlKinds
      BY <1>3, AcquireMoves
    <2>2. /\ pc[c] = "wantsOwn"
          /\ UNCHANGED <<engine, readOnly, connection, restricted, inTx, work, wrote, acked, lost>>
      BY <1>3, AcquireMoves
    <2>3. /\ status' \in [Sessions -> {"closed", "setup", "idle", "busy", "draining", "dedicated"}]
          /\ held' \in [Callers -> Sessions \cup {NoSession}]
          /\ stream' \in [Sessions -> {"none", "open"} \cup SqlKinds]
      BY <2>1 DEF TypeOK
    <2>4. /\ pc' \in [Callers -> PCs] /\ call' \in [Callers -> Calls \cup {NoCall}]
          /\ \A d \in Callers : pc'[d] = "idle" <=> call'[d] = NoCall
      <3>1. CASE call' = call /\ \E l \in {"copying", "declaring"} : pc' = [pc EXCEPT ![c] = l]
        BY <2>2, <3>1 DEF TypeOK, PCs
      <3>2. CASE pc' = [pc EXCEPT ![c] = "idle"] /\ call' = [call EXCEPT ![c] = NoCall]
        BY <3>2 DEF TypeOK, PCs
      <3>3. QED
        BY <2>1, <3>1, <3>2
    <2>5. QED
      BY <2>2, <2>3, <2>4 DEF TypeOK
  <1>4. CASE GiveUp(c) \/ PullFails(c) \/ NextBatch(c)
    BY <1>4 DEF GiveUp, PullFails, NextBatch, Waiting, TypeOK, PCs
  <1>5. CASE Execute(c)
    <2>1. inTx' \in [Sessions -> BOOLEAN] /\ work' \in [Sessions -> SUBSET Callers] /\ wrote' \in BOOLEAN
      BY <1>5 DEF Execute, Effect, TypeOK
    <2>2. /\ status' \in [Sessions -> {"closed", "setup", "idle", "busy", "draining", "dedicated"}]
          /\ held' \in [Callers -> Sessions \cup {NoSession}]
      BY <1>5, ExecuteMoves DEF TypeOK
    <2>3. /\ pc' \in [Callers -> PCs] /\ call' \in [Callers -> Calls \cup {NoCall}]
          /\ \A d \in Callers : pc'[d] = "idle" <=> call'[d] = NoCall
      <3>1. pc[c] = "running"
        BY <1>5, ExecuteMoves
      <3>2. CASE call' = call /\ \E l \in {"wantsOwn", "pulling"} : pc' = [pc EXCEPT ![c] = l]
        BY <3>1, <3>2 DEF TypeOK, PCs
      <3>3. CASE pc' = [pc EXCEPT ![c] = "idle"] /\ call' = [call EXCEPT ![c] = NoCall]
        BY <3>3 DEF TypeOK, PCs
      <3>4. QED
        BY <1>5, <3>2, <3>3, ExecuteMoves
    <2>4. QED
      BY <1>5, <2>1, <2>2, <2>3, ExecuteMoves DEF TypeOK
  <1>6. CASE ExecuteFails(c)
    BY <1>6 DEF ExecuteFails, HeldInStep, TypeOK, PCs
  <1>7. CASE FinishCopy(c)
    BY <1>7 DEF FinishCopy, CloseSession, HeldInStep, TypeOK, PCs
  <1>8. CASE Declare(c)
    BY <1>8 DEF Declare, HeldInStep, TypeOK, PCs
  <1>9. CASE OwnFails(c)
    BY <1>9 DEF OwnFails, CloseSession, HeldInStep, TypeOK, PCs
  <1>10. CASE Cancel(c)
    <2>1. held[c] \in Sessions
      BY <1>10 DEF Cancel, HeldInStep, TypeOK
    <2>2. inTx' \in [Sessions -> BOOLEAN] /\ work' \in [Sessions -> SUBSET Callers] /\ wrote' \in BOOLEAN
      <3>1. CASE Effect(held[c], SqlOf(c), {c})
        BY <2>1, <3>1 DEF Effect, TypeOK
      <3>2. CASE NoEffect
        BY <3>2 DEF NoEffect, TypeOK
      <3>3. QED
        BY <1>10, <3>1, <3>2 DEF Cancel
    <2>3. QED
      BY <1>10, <2>1, <2>2 DEF Cancel, TypeOK, PCs
  <1>11. QED
    BY <1>1, <1>2, <1>3, <1>4, <1>5, <1>6, <1>7, <1>8, <1>9, <1>10 DEF CallStep
-----------------------------------------------------------------------------
(* Calls.                                                                  *)

\* The steps of sessions leave the calls as they are, or end some.
LEMMA SessionCalls ==
    ASSUME IInv, Open \/ \E s \in Sessions : SessionStep(s)
    PROVE  CallInStep'
  <1> USE DEF IInv, config, callVars
  <1>1. ASSUME NEW s \in Sessions, Break(s) PROVE CallInStep'
    <2>1. engine' = engine
          /\ \A c \in Callers : pc'[c] = "idle" \/ (pc'[c] = pc[c] /\ call'[c] = call[c])
      BY <1>1 DEF Break
    <2>2. QED
      BY <2>1 DEF CallInStep, Dedicated
  <1>2. CASE UNCHANGED <<engine, pc, call>>
    BY <1>2 DEF CallInStep, Dedicated
  <1>3. QED
    BY <1>1, <1>2
    DEF Open, SessionStep, SetUp, SetUpFails, Poll, EndStream, Drain

\* A call moves on within its method.
LEMMA CallCalls ==
    ASSUME IInv, NEW c \in Callers, CallStep(c)
    PROVE  CallInStep'
  <1> USE DEF IInv, config, sessionVars, history
  <1>1. /\ pc \in [Callers -> PCs] /\ call \in [Callers -> Calls \cup {NoCall}]
        /\ engine \in {"postgres", "mysql"}
    BY DEF TypeOK
  <1>2. /\ engine' = engine
        /\ \A d \in Callers : d # c => pc'[d] = pc[d] /\ call'[d] = call[d]
    BY MovesOne
  <1> DEFINE InStep(d) ==
        /\ pc'[d] \in {"wantsPooled", "running"} =>
              /\ call'[d].method # "execute_query_stream"
              /\ call'[d].method = "bulk_write" => engine = "mysql"
        /\ pc'[d] = "wantsOwn" => Dedicated(call'[d].method)
        /\ pc'[d] = "pulling" => call'[d].method = "bulk_write" /\ engine = "mysql"
  <1>3. InStep(c)
    <2>1. CASE Call(c)
      <3>1. PICK k \in Calls : call'[c] = k /\ pc'[c] = Entry(k.method)
        BY <1>1, <2>1 DEF Call
      <3>2. k.method \in {"execute_query", "execute_query_stream", "stream_rows", "bulk_write"}
        BY CallsAre
      <3>3. QED
        BY <1>1, <1>2, <3>1, <3>2 DEF Entry, Dedicated
    <2>2. CASE Execute(c)
      BY <1>1, <2>2, ExecuteMoves DEF Dedicated, CallInStep
    <2>3. CASE Borrow(c) \/ NextBatch(c)
      BY <1>1, <2>3 DEF Borrow, NextBatch, Goto, Leave, CallInStep
    <2>4. CASE Acquire(c) \/ GiveUp(c) \/ ExecuteFails(c) \/ PullFails(c) \/ FinishCopy(c)
               \/ Declare(c) \/ OwnFails(c) \/ Cancel(c)
      <3>1. pc'[c] \in {"idle", "copying", "declaring"}
        BY <1>1, <2>4 DEF Acquire, GiveUp, ExecuteFails, PullFails, FinishCopy, Declare, OwnFails,
                          Cancel, Goto, Leave
      <3>2. QED
        BY <3>1
    <2>5. QED
      BY <2>1, <2>2, <2>3, <2>4 DEF CallStep
  <1>4. ASSUME NEW d \in Callers, d # c PROVE InStep(d)
    BY <1>2, <1>4 DEF CallInStep
  <1>5. \A d \in Callers : InStep(d)
    BY <1>3, <1>4
  <1>6. QED
    BY <1>2, <1>5 DEF CallInStep, Dedicated
-----------------------------------------------------------------------------
(* Numbers of sessions and calls.                                          *)

\* Sets of sessions and of callers are finite.
LEMMA Numbers ==
    /\ \A S \in SUBSET Sessions : IsFiniteSet(S) /\ Cardinality(S) \in Nat
    /\ \A S \in SUBSET Callers : IsFiniteSet(S) /\ Cardinality(S) \in Nat
    /\ MaxConnections \in Nat \ {0} /\ MaxDedicated \in Nat
  <1>1. ASSUME NEW S \in SUBSET Sessions PROVE IsFiniteSet(S) /\ Cardinality(S) \in Nat
    BY PoolAssumption, FS_Subset, FS_CardinalityType
  <1>2. ASSUME NEW S \in SUBSET Callers PROVE IsFiniteSet(S) /\ Cardinality(S) \in Nat
    BY PoolAssumption, FS_Subset, FS_CardinalityType
  <1>3. QED
    BY <1>1, <1>2, PoolAssumption

\* There is a session to open whenever the pool wants one.
LEMMA SomeClosed ==
    ASSUME Bounds, NeedsSession
    PROVE  \E s \in Sessions : status[s] = "closed"
  <1> DEFINE D == In("dedicated")
             P == Pooled
  <1>1. P \in SUBSET Sessions /\ D \in SUBSET Sessions /\ Detaching \in SUBSET Callers
    BY DEF In, Pooled, Detaching
  <1>2. /\ IsFiniteSet(P) /\ IsFiniteSet(D) /\ Cardinality(P) \in Nat /\ Cardinality(D) \in Nat
        /\ Cardinality(Detaching) \in Nat /\ Cardinality(P \cap D) \in Nat
    BY <1>1, Numbers
  <1>3. Cardinality(P) < MaxConnections
    BY Numbers, FS_EmptySet DEF NeedsSession
  <1>4. Cardinality(D) <= MaxDedicated
    BY <1>2, Numbers DEF Bounds
  <1>5. Cardinality(P \cup D) = Cardinality(P) + Cardinality(D) - Cardinality(P \cap D)
    BY <1>2, FS_Union
  <1>6. Cardinality(P \cup D) < Cardinality(Sessions)
    <2>1. Cardinality(Sessions) >= MaxConnections + MaxDedicated /\ Cardinality(Sessions) \in Nat
      BY PoolAssumption, Numbers
    <2> HIDE DEF D, P
    <2>2. QED
      BY <1>2, <1>3, <1>4, <1>5, <2>1, Numbers
  <1>7. P \cup D # Sessions
    <2>1. Cardinality(Sessions) \in Nat
      BY Numbers
    <2> HIDE DEF D, P
    <2>2. QED
      BY <1>6, <2>1
  <1>8. QED
    BY <1>7 DEF In, Pooled

\* The session that the pool opens was closed.
LEMMA OpenStep ==
    ASSUME Bounds, Open
    PROVE  \E s \in Sessions :
              /\ status[s] = "closed" /\ status' = [status EXCEPT ![s] = "setup"]
              /\ restricted' = [restricted EXCEPT ![s] = engine = "postgres" /\ readOnly]
  BY SomeClosed DEF Open

-----------------------------------------------------------------------------
(* Calls and sessions.                                                     *)

\* The steps of sessions keep calls and sessions together.
LEMMA SessionHeld ==
    ASSUME IInv, Open \/ \E s \in Sessions : SessionStep(s)
    PROVE  HeldInStep'
  <1> USE DEF IInv, config, callVars
  <1>1. CASE Open
    <2>1. PICK s \in Sessions : status[s] = "closed" /\ status' = [status EXCEPT ![s] = "setup"]
      BY <1>1, OpenStep
    <2>2. UNCHANGED <<pc, held, stream>>
      BY <1>1 DEF Open
    <2>3. QED
      BY <2>1, <2>2 DEF TypeOK, HeldInStep
  <1>2. ASSUME NEW s \in Sessions, SetUp(s) \/ SetUpFails(s) \/ Drain(s) PROVE HeldInStep'
    BY <1>2 DEF SetUp, SetUpFails, Drain, TypeOK, HeldInStep
  <1>3. ASSUME NEW s \in Sessions, Poll(s) PROVE HeldInStep'
    BY <1>3 DEF Poll, SqlKinds, TypeOK, HeldInStep
  <1>4. ASSUME NEW s \in Sessions, EndStream(s) PROVE HeldInStep'
    BY <1>4 DEF EndStream, CloseStream, CloseSession, TypeOK, HeldInStep
  <1>5. ASSUME NEW s \in Sessions, Break(s) PROVE HeldInStep'
    BY <1>5, PoolAssumption DEF Break, CloseSession, TypeOK, HeldInStep
  <1>6. QED
    BY <1>1, <1>2, <1>3, <1>4, <1>5 DEF SessionStep

\* The steps of calls keep calls and sessions together.
LEMMA CallHeld ==
    ASSUME IInv, NEW c \in Callers, CallStep(c)
    PROVE  HeldInStep'
  <1> USE PoolAssumption DEF IInv, config, sessionVars, history, Leave, Goto
  <1>1. CASE Call(c)
    <2>1. Entry(call'[c].method) \notin {"running", "declaring", "copying"}
      BY DEF Entry
    <2>2. QED
      BY <1>1, <2>1 DEF Call, Entry, TypeOK, HeldInStep
  <1>2. CASE Borrow(c)
    BY <1>2, BorrowMoves DEF TypeOK, HeldInStep
  <1>3. CASE Acquire(c)
    <2>1. PICK s \in Sessions :
             /\ status[s] = "idle" /\ status' = [status EXCEPT ![s] = "dedicated"]
             /\ \/ /\ \E l \in {"copying", "declaring"} : pc' = [pc EXCEPT ![c] = l]
                   /\ held' = [held EXCEPT ![c] = s] /\ stream' = stream
                \/ /\ pc' = [pc EXCEPT ![c] = "idle"] /\ held' = [held EXCEPT ![c] = NoSession]
                   /\ stream' = [stream EXCEPT ![s] = call[c].sql] /\ call[c].sql # "none"
      BY <1>3, AcquireMoves DEF SqlKinds
    <2>2. pc[c] = "wantsOwn" /\ held[c] = NoSession /\ stream[s] = "none"
      BY <1>3, <2>1, AcquireMoves DEF HeldInStep
    <2>3. CASE held' = [held EXCEPT ![c] = s] /\ stream' = stream
                 /\ \E l \in {"copying", "declaring"} : pc' = [pc EXCEPT ![c] = l]
      BY <2>1, <2>2, <2>3 DEF TypeOK, HeldInStep
    <2>4. CASE /\ pc' = [pc EXCEPT ![c] = "idle"] /\ held' = [held EXCEPT ![c] = NoSession]
               /\ stream' = [stream EXCEPT ![s] = call[c].sql] /\ call[c].sql # "none"
      BY <2>1, <2>2, <2>4 DEF TypeOK, HeldInStep
    <2>5. QED
      BY <2>1, <2>3, <2>4
  <1>4. CASE GiveUp(c) \/ PullFails(c) \/ NextBatch(c)
    BY <1>4 DEF GiveUp, PullFails, NextBatch, Waiting, TypeOK, HeldInStep
  <1>5. CASE Execute(c)
    BY <1>5, ExecuteMoves DEF TypeOK, HeldInStep
  <1>6. CASE ExecuteFails(c) \/ Cancel(c)
    BY <1>6 DEF ExecuteFails, Cancel, TypeOK, HeldInStep
  <1>7. CASE FinishCopy(c) \/ OwnFails(c)
    BY <1>7 DEF FinishCopy, OwnFails, CloseSession, TypeOK, HeldInStep
  <1>8. CASE Declare(c)
    BY <1>8 DEF Declare, TypeOK, HeldInStep
  <1>9. QED
    BY <1>1, <1>2, <1>3, <1>4, <1>5, <1>6, <1>7, <1>8 DEF CallStep
-----------------------------------------------------------------------------
(* The bounds.                                                             *)

\* Where no session comes into the pool and none leaves it, the bounds stay.
LEMMA Shrinks ==
    ASSUME Bounds, Pooled' \subseteq Pooled, In("dedicated")' \subseteq In("dedicated"),
           Detaching' \subseteq Detaching
    PROVE  Bounds'
  <1>1. /\ Pooled \in SUBSET Sessions /\ In("dedicated") \in SUBSET Sessions
        /\ Detaching \in SUBSET Callers
    BY DEF Pooled, In, Detaching
  <1>2. /\ Cardinality(Pooled') \in Nat /\ Cardinality(Pooled') <= Cardinality(Pooled)
        /\ Cardinality(Pooled) \in Nat
    BY <1>1, Numbers, FS_Subset
  <1>3. /\ Cardinality(In("dedicated")') \in Nat /\ Cardinality(In("dedicated")) \in Nat
        /\ Cardinality(In("dedicated")') <= Cardinality(In("dedicated"))
    BY <1>1, Numbers, FS_Subset
  <1>4. /\ Cardinality(Detaching') \in Nat /\ Cardinality(Detaching) \in Nat
        /\ Cardinality(Detaching') <= Cardinality(Detaching)
    BY <1>1, Numbers, FS_Subset
  <1>5. Cardinality(Pooled') <= MaxConnections
    BY <1>2, Numbers DEF Bounds
  <1>6. Cardinality(In("dedicated")') + Cardinality(Detaching') <= MaxDedicated
    BY <1>3, <1>4, Numbers DEF Bounds
  <1>7. QED
    BY <1>5, <1>6 DEF Bounds

\* The steps of sessions keep the bounds.
LEMMA SessionBounds ==
    ASSUME IInv, Open \/ \E s \in Sessions : SessionStep(s)
    PROVE  Bounds'
  <1> USE DEF IInv, config, callVars
  <1>1. CASE Open
    <2>1. PICK s \in Sessions : status[s] = "closed" /\ status' = [status EXCEPT ![s] = "setup"]
      BY <1>1, OpenStep
    <2>2. Pooled' = Pooled \cup {s} /\ In("dedicated")' = In("dedicated")
      BY <2>1 DEF TypeOK, Pooled, In
    <2>3. Detaching' = Detaching
      BY <1>1 DEF Open, Detaching, Dedicated
    <2>4. Pooled \in SUBSET Sessions
      BY DEF Pooled
    <2>5. IsFiniteSet(Pooled) /\ Cardinality(Pooled) \in Nat /\ MaxConnections \in Nat
      BY <2>4, Numbers
    <2>6. Cardinality(Pooled) < MaxConnections
      BY <1>1, <2>5, Numbers, FS_EmptySet DEF Open, NeedsSession
    <2>7. Cardinality(Pooled') <= Cardinality(Pooled) + 1
      BY <2>2, <2>5, FS_AddElement
    <2>8. Cardinality(Pooled') \in Nat
      BY <2>2, <2>4, Numbers
    <2>9. QED
      BY <2>2, <2>3, <2>5, <2>6, <2>7, <2>8 DEF Bounds
  <1>2. ASSUME NEW s \in Sessions, SetUp(s) \/ SetUpFails(s) \/ Drain(s) PROVE Bounds'
    <2>1. Detaching' \subseteq Detaching
      BY <1>2 DEF SetUp, SetUpFails, Drain, Detaching, Dedicated
    <2>2. Pooled' \subseteq Pooled /\ In("dedicated")' \subseteq In("dedicated")
      BY <1>2 DEF SetUp, SetUpFails, Drain, TypeOK, Pooled, In
    <2>3. QED
      BY <2>1, <2>2, Shrinks
  <1>3. ASSUME NEW s \in Sessions, Poll(s) \/ EndStream(s) PROVE Bounds'
    <2>1. Detaching' \subseteq Detaching
      BY <1>3 DEF Poll, EndStream, Detaching, Dedicated
    <2>2. Pooled' \subseteq Pooled /\ In("dedicated")' \subseteq In("dedicated")
      BY <1>3 DEF Poll, EndStream, CloseStream, CloseSession, TypeOK, Pooled, In
    <2>3. QED
      BY <2>1, <2>2, Shrinks
  <1>4. ASSUME NEW s \in Sessions, Break(s) PROVE Bounds'
    <2>1. Detaching' \subseteq Detaching
      BY <1>4 DEF Break, Detaching, Dedicated
    <2>2. Pooled' \subseteq Pooled /\ In("dedicated")' \subseteq In("dedicated")
      BY <1>4 DEF Break, CloseSession, TypeOK, Pooled, In
    <2>3. QED
      BY <2>1, <2>2, Shrinks
  <1>5. QED
    BY <1>1, <1>2, <1>3, <1>4 DEF SessionStep

\* A step of a call adds no call that will take a session, where it adds none
\* itself.
LEMMA DetachingShrinks ==
    ASSUME IInv, NEW c \in Callers, CallStep(c), c \in Detaching' => c \in Detaching
    PROVE  Detaching' \subseteq Detaching
  BY MovesOne DEF Detaching, Dedicated

\* The steps of calls keep the bounds.
LEMMA CallBounds ==
    ASSUME IInv, NEW c \in Callers, CallStep(c)
    PROVE  Bounds'
  <1> USE DEF IInv, config, sessionVars, history, Leave, Goto
  <1>0. /\ pc \in [Callers -> PCs] /\ call \in [Callers -> Calls \cup {NoCall}]
        /\ status \in [Sessions -> {"closed", "setup", "idle", "busy", "draining", "dedicated"}]
        /\ engine' = engine
    BY MovesOne DEF TypeOK
  <1>1. CASE Call(c)
    <2>1. PICK k \in Calls :
             /\ Dedicated(k.method) => Cardinality(In("dedicated")) + Cardinality(Detaching) < MaxDedicated
             /\ call' = [call EXCEPT ![c] = k]
      BY <1>1 DEF Call
    <2>2. Pooled' = Pooled /\ In("dedicated")' = In("dedicated")
      BY <1>1 DEF Call, Pooled, In
    <2>3. CASE Dedicated(k.method)
      <3>1. Detaching' \subseteq Detaching \cup {c}
        BY MovesOne DEF Detaching, Dedicated
      <3>2. /\ IsFiniteSet(Detaching) /\ Cardinality(Detaching) \in Nat
            /\ Cardinality(In("dedicated")) \in Nat /\ MaxDedicated \in Nat
        <4>1. Detaching \in SUBSET Callers /\ In("dedicated") \in SUBSET Sessions
          BY DEF Detaching, In
        <4>2. QED
          BY <4>1, Numbers
      <3>3. /\ IsFiniteSet(Detaching \cup {c})
            /\ Cardinality(Detaching \cup {c}) \in Nat
            /\ Cardinality(Detaching \cup {c}) <= Cardinality(Detaching) + 1
        <4>1. /\ IsFiniteSet(Detaching \cup {c})
              /\ Cardinality(Detaching \cup {c}) =
                    IF c \in Detaching THEN Cardinality(Detaching) ELSE Cardinality(Detaching) + 1
          BY <3>2, FS_AddElement
        <4>2. QED
          BY <3>2, <4>1
      <3>4. Cardinality(Detaching') \in Nat /\ Cardinality(Detaching') <= Cardinality(Detaching) + 1
        <4>1. Cardinality(Detaching') <= Cardinality(Detaching \cup {c}) /\ IsFiniteSet(Detaching')
          BY <3>1, <3>3, FS_Subset
        <4>2. Cardinality(Detaching') \in Nat
          BY <4>1, FS_CardinalityType
        <4>3. QED
          BY <3>2, <3>3, <4>1, <4>2
      <3>5. QED
        BY <2>1, <2>2, <2>3, <3>2, <3>4 DEF Bounds
    <2>4. CASE ~Dedicated(k.method)
      <3>1. c \notin Detaching'
        BY <1>0, <2>1, <2>4 DEF Detaching, Dedicated
      <3>2. QED
        BY <2>2, <3>1, DetachingShrinks, Shrinks
    <2>5. QED
      BY <2>3, <2>4
  <1>2. CASE Acquire(c)
    <2>1. PICK s \in Sessions : status[s] = "idle" /\ status' = [status EXCEPT ![s] = "dedicated"]
      BY <1>2, AcquireMoves
    <2>2. Pooled' \subseteq Pooled /\ In("dedicated")' = In("dedicated") \cup {s} /\ s \notin In("dedicated")
      BY <1>0, <2>1 DEF Pooled, In
    <2>3. c \in Detaching
      <3>1. call[c] # NoCall
        BY <1>2, AcquireMoves, CallsAre
      <3>2. QED
        BY <1>2, <3>1, AcquireMoves DEF Detaching
    <2>4. pc'[c] \in {"idle", "copying", "declaring"}
      BY <1>0, <1>2, AcquireMoves
    <2>5. Detaching' \subseteq Detaching \ {c}
      BY <2>4, MovesOne DEF Detaching, Dedicated
    <2>6. /\ Detaching \in SUBSET Callers /\ In("dedicated") \in SUBSET Sessions
          /\ Pooled \in SUBSET Sessions
      BY DEF Detaching, In, Pooled
    <2>7. /\ Cardinality(Pooled') \in Nat /\ Cardinality(Pooled) \in Nat
          /\ Cardinality(Pooled') <= Cardinality(Pooled)
      BY <2>2, <2>6, Numbers, FS_Subset
    <2>8. /\ Cardinality(In("dedicated")) \in Nat
          /\ Cardinality(In("dedicated")') = Cardinality(In("dedicated")) + 1
      BY <2>2, <2>6, Numbers, FS_AddElement
    <2>9. /\ IsFiniteSet(Detaching \ {c}) /\ Cardinality(Detaching) \in Nat
          /\ Cardinality(Detaching \ {c}) = Cardinality(Detaching) - 1
      BY <2>3, <2>6, Numbers, FS_RemoveElement
    <2>10. Cardinality(Detaching') \in Nat /\ Cardinality(Detaching') <= Cardinality(Detaching) - 1
      <3>1. Detaching' \in SUBSET Callers
        BY <2>5, <2>6
      <3>2. QED
        BY <2>5, <2>9, <3>1, Numbers, FS_Subset
    <2>11. QED
      BY <2>7, <2>8, <2>9, <2>10, Numbers DEF Bounds
  <1>3. CASE Borrow(c)
    <2>1. c \in Detaching' => c \in Detaching
      BY <1>0, <1>3, BorrowMoves DEF Detaching, Dedicated
    <2>2. Pooled' \subseteq Pooled /\ In("dedicated")' \subseteq In("dedicated")
      BY <1>0, <1>3, BorrowMoves DEF Pooled, In
    <2>3. QED
      BY <2>1, <2>2, DetachingShrinks, Shrinks
  <1>4. CASE Execute(c)
    <2>1. c \in Detaching' => c \in Detaching
      <3>1. call[c] # NoCall
        BY <1>4, ExecuteMoves, CallsAre
      <3>2. QED
        BY <1>0, <1>4, <3>1, ExecuteMoves DEF Detaching, Dedicated
    <2>2. Pooled' \subseteq Pooled /\ In("dedicated")' \subseteq In("dedicated")
      BY <1>0, <1>4, ExecuteMoves DEF Pooled, In
    <2>3. QED
      BY <2>1, <2>2, DetachingShrinks, Shrinks
  <1>5. CASE NextBatch(c)
    <2>1. c \notin Detaching'
      BY <1>0, <1>5 DEF NextBatch, CallInStep, Detaching, Dedicated
    <2>2. Pooled' \subseteq Pooled /\ In("dedicated")' \subseteq In("dedicated")
      BY <1>5 DEF NextBatch, Pooled, In
    <2>3. QED
      BY <2>1, <2>2, DetachingShrinks, Shrinks
  <1>6. CASE GiveUp(c) \/ PullFails(c) \/ ExecuteFails(c) \/ Cancel(c) \/ FinishCopy(c)
             \/ Declare(c) \/ OwnFails(c)
    <2>1. c \notin Detaching'
      BY <1>0, <1>6 DEF GiveUp, PullFails, ExecuteFails, Cancel, FinishCopy, Declare, OwnFails, Detaching
    <2>2. Pooled' \subseteq Pooled /\ In("dedicated")' \subseteq In("dedicated")
      <3>1. CASE GiveUp(c) \/ PullFails(c) \/ Declare(c)
        BY <3>1 DEF GiveUp, PullFails, Declare, Pooled, In
      <3>2. CASE ExecuteFails(c) \/ Cancel(c)
        BY <1>0, <3>2 DEF ExecuteFails, Cancel, HeldInStep, Pooled, In
      <3>3. CASE FinishCopy(c) \/ OwnFails(c)
        BY <1>0, <3>3 DEF FinishCopy, OwnFails, CloseSession, Pooled, In
      <3>4. QED
        BY <1>6, <3>1, <3>2, <3>3
    <2>3. QED
      BY <2>1, <2>2, DetachingShrinks, Shrinks
  <1>7. QED
    BY <1>1, <1>2, <1>3, <1>4, <1>5, <1>6 DEF CallStep
-----------------------------------------------------------------------------
(* Read-only connections.                                                  *)

\* A statement writes only in a session that is not restricted.
LEMMA NoWrite ==
    ASSUME IInv, readOnly, NEW s \in Sessions, status[s] \notin {"closed", "setup"},
           NEW sql, NEW by, Effect(s, sql, by)
    PROVE  wrote' = wrote
  <1>1. restricted[s]
    BY DEF IInv, Restricted
  <1>2. sql \notin Writes
    BY <1>1 DEF Effect, Refuses
  <1>3. wrote \in BOOLEAN
    BY DEF IInv, TypeOK
  <1>4. QED
    BY <1>2, <1>3 DEF Effect

\* The steps of sessions keep a read-only connection from writing.
LEMMA SessionRestricted ==
    ASSUME IInv, Open \/ \E s \in Sessions : SessionStep(s)
    PROVE  Restricted'
  <1> USE DEF IInv, config, callVars, history
  <1>1. CASE Open
    <2>1. PICK s \in Sessions :
             /\ status[s] = "closed" /\ status' = [status EXCEPT ![s] = "setup"]
             /\ restricted' = [restricted EXCEPT ![s] = engine = "postgres" /\ readOnly]
      BY <1>1, OpenStep
    <2>2. UNCHANGED <<engine, readOnly, wrote>>
      BY <1>1 DEF Open
    <2>3. QED
      BY <2>1, <2>2 DEF TypeOK, Restricted
  <1>2. ASSUME NEW s \in Sessions, SetUp(s) PROVE Restricted'
    BY <1>2 DEF SetUp, Hook, TypeOK, Restricted
  <1>3. ASSUME NEW s \in Sessions, SetUpFails(s) \/ Drain(s) PROVE Restricted'
    BY <1>3 DEF SetUpFails, Drain, TypeOK, Restricted
  <1>4. ASSUME NEW s \in Sessions, Poll(s) PROVE Restricted'
    <2>1. status[s] = "dedicated"
      BY <1>4, PoolAssumption DEF Poll, SqlKinds, HeldInStep
    <2>2. readOnly => wrote' = wrote
      BY <1>4, <2>1, NoWrite DEF Poll
    <2>3. UNCHANGED <<engine, readOnly, status, restricted>>
      BY <1>4 DEF Poll
    <2>4. QED
      BY <2>2, <2>3 DEF Restricted
  <1>5. ASSUME NEW s \in Sessions, EndStream(s) \/ Break(s) PROVE Restricted'
    BY <1>5 DEF EndStream, Break, CloseStream, CloseSession, TypeOK, Restricted
  <1>6. QED
    BY <1>1, <1>2, <1>3, <1>4, <1>5 DEF SessionStep

\* Sessions that go from hand to hand stay restricted.
LEMMA HandedOn ==
    ASSUME IInv, UNCHANGED <<engine, readOnly, restricted>>, readOnly => wrote' = wrote,
           NEW s \in Sessions, status[s] \notin {"closed", "setup"},
           NEW st, status' = [status EXCEPT ![s] = st]
    PROVE  Restricted'
  <1>1. \A t \in Sessions : status'[t] = status[t] \/ status[t] \notin {"closed", "setup"}
    BY DEF IInv, TypeOK
  <1>2. readOnly =>
           /\ ~wrote
           /\ \A t \in Sessions :
                 status[t] # "closed" /\ (status[t] # "setup" \/ engine = "postgres") => restricted[t]
    BY DEF IInv, Restricted
  <1>3. QED
    BY <1>1, <1>2 DEF Restricted

\* The steps of calls keep a read-only connection from writing.
LEMMA CallRestricted ==
    ASSUME IInv, NEW c \in Callers, CallStep(c)
    PROVE  Restricted'
  <1> USE DEF IInv, config, sessionVars, history
  <1>1. CASE Call(c) \/ GiveUp(c) \/ NextBatch(c) \/ PullFails(c) \/ Declare(c)
    BY <1>1 DEF Call, GiveUp, NextBatch, PullFails, Declare, Restricted
  <1>2. CASE Borrow(c)
    <2>1. PICK s \in Sessions : status[s] = "idle" /\ status' = [status EXCEPT ![s] = "busy"]
      BY <1>2, BorrowMoves
    <2>2. UNCHANGED <<engine, readOnly, restricted, wrote>>
      BY <1>2, BorrowMoves
    <2>3. QED
      BY <2>1, <2>2, HandedOn
  <1>3. CASE Acquire(c)
    <2>1. PICK s \in Sessions : status[s] = "idle" /\ status' = [status EXCEPT ![s] = "dedicated"]
      BY <1>3, AcquireMoves
    <2>2. UNCHANGED <<engine, readOnly, restricted, wrote>>
      BY <1>3, AcquireMoves
    <2>3. QED
      BY <2>1, <2>2, HandedOn
  <1>4. CASE Execute(c) \/ Cancel(c)
    <2>1. held[c] \in Sessions /\ status[held[c]] = "busy"
      <3>1. pc[c] = "running"
        BY <1>4 DEF Execute, Cancel
      <3>2. QED
        BY <3>1 DEF HeldInStep, TypeOK
    <2>2. readOnly => wrote' = wrote
      <3>1. CASE Effect(held[c], SqlOf(c), {c})
        BY <2>1, <3>1, NoWrite
      <3>2. CASE NoEffect
        BY <3>2 DEF NoEffect
      <3>3. QED
        BY <1>4, <3>1, <3>2 DEF Execute, Cancel
    <2>3. \/ status' = [status EXCEPT ![held[c]] = "idle"]
          \/ status' = [status EXCEPT ![held[c]] = "draining"]
      BY <1>4 DEF Execute, Cancel, GiveBack
    <2>4. UNCHANGED <<engine, readOnly, restricted>>
      BY <1>4 DEF Execute, Cancel
    <2>5. QED
      BY <2>1, <2>2, <2>3, <2>4, HandedOn
  <1>5. CASE ExecuteFails(c)
    BY <1>5 DEF ExecuteFails, HeldInStep, TypeOK, Restricted
  <1>6. CASE FinishCopy(c)
    <2>1. held[c] \in Sessions /\ status[held[c]] = "dedicated"
      BY <1>6 DEF FinishCopy, HeldInStep, TypeOK
    <2>2. readOnly => restricted[held[c]]
      BY <2>1 DEF Restricted
    <2>3. ~readOnly
      BY <1>6, <2>2 DEF FinishCopy, Refuses, Writes
    <2>4. readOnly' = readOnly
      BY <1>6 DEF FinishCopy
    <2>5. QED
      BY <2>3, <2>4 DEF Restricted
  <1>7. CASE OwnFails(c)
    BY <1>7 DEF OwnFails, CloseSession, TypeOK, Restricted
  <1>8. QED
    BY <1>1, <1>2, <1>3, <1>4, <1>5, <1>6, <1>7 DEF CallStep

-----------------------------------------------------------------------------

\* Every step keeps the inductive invariant.
LEMMA StepInv == IInv /\ [Next]_vars => IInv'
  <1> SUFFICES ASSUME IInv, [Next]_vars PROVE IInv'
    OBVIOUS
  <1>1. CASE Open \/ \E s \in Sessions : SessionStep(s)
    BY <1>1, SessionTypes, SessionCalls, SessionHeld, SessionBounds, SessionRestricted DEF IInv
  <1>2. ASSUME NEW c \in Callers, CallStep(c) PROVE IInv'
    BY <1>2, CallTypes, CallCalls, CallHeld, CallBounds, CallRestricted DEF IInv
  <1>3. CASE UNCHANGED vars
    BY <1>3 DEF vars, config, sessionVars, callVars, history, IInv, TypeOK, CallInStep, HeldInStep,
                Bounds, Restricted, Pooled, In, Detaching, Dedicated
  <1>4. QED
    BY <1>1, <1>2, <1>3 DEF Next

\* A connection starts in the inductive invariant.
LEMMA InitInv == Init => IInv
  <1> SUFFICES ASSUME Init PROVE IInv
    OBVIOUS
  <1>1. TypeOK
    BY DEF Init, TypeOK, PCs
  <1>2. CallInStep /\ HeldInStep /\ Restricted
    BY PoolAssumption DEF Init, CallInStep, HeldInStep, Restricted
  <1>3. Pooled = {} /\ In("dedicated") = {} /\ Detaching = {}
    BY DEF Init, Pooled, In, Detaching
  <1>4. Bounds
    BY <1>3, Numbers, FS_EmptySet DEF Bounds
  <1>5. QED
    BY <1>1, <1>2, <1>4 DEF IInv

\* The inductive invariant holds in every reachable state.
THEOREM Invariance == Spec => []IInv
  BY InitInv, StepInv, PTL DEF Spec

\* Every variable keeps its type, and a caller is idle exactly when it has no
\* call in progress, however calls are dropped and sessions break (query.rs
\* 15-58).
THEOREM TypeCorrectness == Spec => []TypeOK
  <1>1. IInv => TypeOK
    BY DEF IInv
  <1>2. QED
    BY <1>1, Invariance, PTL

\* Read-only holds in every session a statement can run in, whenever the pool
\* opens it and whoever takes it away, for every number of callers and sessions
\* (connection.rs 30-32; MySQL connection.rs 31-40).
THEOREM ReadOnlyEverywhere == Spec => []ReadOnlyHolds
  <1>1. IInv => ReadOnlyHolds
    BY DEF IInv, Restricted, ReadOnlyHolds
  <1>2. QED
    BY <1>1, Invariance, PTL

\* Only running statements take places of the pool, and every session that left
\* it has one stream or one call that will close it, for every size of the pool
\* (query.rs 29-33; bulk.rs 19-20).
THEOREM SlotsAreFree == Spec => []NoSlotPinned
  <1>1. ASSUME IInv PROVE NoSlotPinned
    <2> USE <1>1 DEF IInv
    <2>1. Cardinality(Pooled) <= MaxConnections
      BY DEF Bounds
    <2>2. ASSUME NEW s \in Sessions, NEW c \in Callers, held[c] = s
          PROVE  Owners(s) = {c} /\ Cardinality(Owners(s)) = 1
      <3>1. Owners(s) = {c}
        BY <2>2, PoolAssumption DEF Owners, HeldInStep
      <3>2. QED
        BY <3>1, FS_Singleton
    <2>3. ASSUME NEW s \in Sessions, status[s] = "busy"
          PROVE  Cardinality(Owners(s)) = 1 /\ Owners(s) \subseteq Running
      <3>1. PICK c \in Callers : held[c] = s
        BY <2>3 DEF HeldInStep
      <3>2. pc[c] = "running"
        BY <2>3, <3>1, PoolAssumption DEF HeldInStep
      <3>3. QED
        BY <2>2, <3>1, <3>2 DEF Running
    <2>4. ASSUME NEW s \in Sessions, status[s] = "dedicated"
          PROVE  \/ stream[s] = "none" /\ Cardinality(Owners(s)) = 1
                 \/ stream[s] # "none" /\ Owners(s) = {}
      <3>1. CASE stream[s] = "none"
        BY <2>2, <2>4, <3>1 DEF HeldInStep
      <3>2. CASE stream[s] # "none"
        BY <2>4, <3>2, PoolAssumption DEF HeldInStep, Owners
      <3>3. QED
        BY <3>1, <3>2
    <2>5. ASSUME NEW s \in Sessions, status[s] \notin {"busy", "dedicated"}
          PROVE  Owners(s) = {} /\ stream[s] = "none"
      BY <2>5, PoolAssumption DEF HeldInStep, Owners
    <2>6. QED
      BY <2>1, <2>3, <2>4, <2>5 DEF NoSlotPinned
  <1>2. QED
    BY <1>1, Invariance, PTL
-----------------------------------------------------------------------------
(* Loads.                                                                  *)

\* A session that closes without open work loses nothing.
LEMMA CloseKeeps ==
    ASSUME TypeOK, NoTransaction, NEW s \in Sessions, CloseSession(s, {})
    PROVE  NoTransaction'
  BY DEF CloseSession, TypeOK, NoTransaction

\* A statement in a pooled session leaves no transaction.
LEMMA EffectKeeps ==
    ASSUME "begin" \notin QuerySql, IInv, NoTransaction,
           NEW c \in Callers, pc[c] = "running", Effect(held[c], SqlOf(c), {c}),
           UNCHANGED <<stream, lost>>
    PROVE  NoTransaction'
  <1> USE DEF IInv
  <1>1. held[c] \in Sessions /\ stream[held[c]] # "open" /\ ~inTx[held[c]]
    BY DEF HeldInStep, TypeOK, NoTransaction
  <1>2. SqlOf(c) # "begin"
    BY HasCall, CallsAre DEF SqlOf, CallInStep
  <1>3. \A s \in Sessions : inTx'[s] => inTx[s]
    BY <1>1, <1>2 DEF Effect, TypeOK
  <1>4. \A s \in Sessions : work'[s] = {}
    BY <1>1 DEF Effect, TypeOK, NoTransaction
  <1>5. QED
    BY <1>3, <1>4 DEF NoTransaction

\* Where execute_query opens no transaction, loads never wait for a commit.
LEMMA TransactionStep ==
    ASSUME "begin" \notin QuerySql, IInv, NoTransaction, [Next]_vars
    PROVE  NoTransaction'
  <1> USE DEF IInv
  <1>1. CASE UNCHANGED <<inTx, work, stream, lost>>
    BY <1>1 DEF NoTransaction
  <1>2. CASE Open
    BY <1>1, <1>2 DEF Open, history
  <1>3. ASSUME NEW s \in Sessions, SessionStep(s) PROVE NoTransaction'
    <2>1. CASE SetUp(s) \/ SetUpFails(s) \/ Drain(s)
      BY <1>1, <2>1 DEF SetUp, SetUpFails, Drain, history
    <2>2. CASE Poll(s)
      <3>1. stream[s] # "open" /\ ~inTx[s]
        BY <2>2, PoolAssumption DEF Poll, SqlKinds, NoTransaction
      <3>2. /\ stream' = [stream EXCEPT ![s] = "open"] /\ lost' = lost
            /\ \A t \in Sessions : t # s => inTx'[t] = inTx[t]
            /\ \A t \in Sessions : work'[t] = {}
        BY <2>2, <3>1 DEF Poll, Effect, TypeOK, NoTransaction
      <3>3. QED
        BY <3>1, <3>2 DEF TypeOK, NoTransaction
    <2>3. CASE EndStream(s) \/ Break(s)
      BY <2>3, CloseKeeps DEF EndStream, CloseStream, Break
    <2>4. QED
      BY <1>3, <2>1, <2>2, <2>3 DEF SessionStep
  <1>4. ASSUME NEW c \in Callers, CallStep(c) PROVE NoTransaction'
    <2>1. CASE Call(c)
      BY <2>1 DEF Call, NoTransaction
    <2>2. CASE Borrow(c) \/ GiveUp(c) \/ ExecuteFails(c) \/ NextBatch(c) \/ PullFails(c)
      BY <1>1, <2>2 DEF Borrow, GiveUp, ExecuteFails, NextBatch, PullFails, history, sessionVars
    <2>3. CASE Acquire(c)
      <3>1. PICK s \in Sessions :
               status[s] = "idle" /\ (stream' = stream \/ stream' = [stream EXCEPT ![s] = call[c].sql])
        BY <2>3, AcquireMoves
      <3>2. stream[s] = "none" /\ ~inTx[s] /\ UNCHANGED <<inTx, work, lost>>
        BY <2>3, <3>1, AcquireMoves DEF HeldInStep, NoTransaction
      <3>3. QED
        BY <3>1, <3>2 DEF TypeOK, NoTransaction
    <2>4. CASE Execute(c)
      BY <2>4, EffectKeeps DEF Execute
    <2>5. CASE Cancel(c)
      BY <1>1, <2>5, EffectKeeps DEF Cancel, NoEffect
    <2>6. CASE FinishCopy(c)
      <3>1. held[c] \in Sessions /\ stream[held[c]] = "none"
        BY <2>6 DEF FinishCopy, HeldInStep, TypeOK
      <3>2. ~inTx[held[c]]
        BY <3>1 DEF NoTransaction
      <3>3. QED
        BY <2>6, <3>1, <3>2, CloseKeeps DEF FinishCopy
    <2>7. CASE Declare(c)
      <3>1. held[c] \in Sessions
        BY <2>7 DEF Declare, HeldInStep, TypeOK
      <3>2. QED
        BY <2>7, <3>1 DEF Declare, history, TypeOK, NoTransaction
    <2>8. CASE OwnFails(c)
      <3>1. held[c] \in Sessions
        BY <2>8 DEF OwnFails, HeldInStep, TypeOK
      <3>2. QED
        BY <2>8, <3>1, CloseKeeps DEF OwnFails
    <2>9. QED
      BY <1>4, <2>1, <2>2, <2>3, <2>4, <2>5, <2>6, <2>7, <2>8 DEF CallStep
  <1>5. CASE UNCHANGED vars
    BY <1>1, <1>5 DEF vars, sessionVars, history
  <1>6. QED
    BY <1>2, <1>3, <1>4, <1>5 DEF Next

\* What bulk_write returned Ok for stays where no caller leaves a transaction
\* open with execute_query, whatever runs in streams, however calls are dropped
\* and sessions break (adapter.rs 231-233).  Without that hypothesis the run
\* PoolTransaction shows a load taken back.
THEOREM LoadsStay == "begin" \notin QuerySql => (Spec => []LoadsAreKept)
  <1> SUFFICES ASSUME "begin" \notin QuerySql PROVE Spec => []LoadsAreKept
    OBVIOUS
  <1>1. Init => NoTransaction
    BY DEF Init, NoTransaction
  <1>2. IInv /\ NoTransaction /\ [Next]_vars => NoTransaction'
    BY TransactionStep
  <1>3. NoTransaction => LoadsAreKept
    BY DEF NoTransaction, LoadsAreKept
  <1>4. QED
    BY <1>1, <1>2, <1>3, Invariance, PTL DEF Spec
=============================================================================
