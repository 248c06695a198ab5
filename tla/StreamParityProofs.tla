------------------------- MODULE StreamParityProofs -------------------------
(***************************************************************************)
(* Theorems about PgStream, for every set of streams, every table, every   *)
(* batch size and every number of writes and ALTER TABLEs; about the sub-  *)
(* streams of KeyRangeTiling, for every set of key ranges; and about       *)
(* StreamParity: what is proved here and in MySqlStreamProofs of each      *)
(* stream alone holds when both read the same table, and together they     *)
(* make the two engines return the same rows.                              *)
(***************************************************************************)
EXTENDS StreamParity, KeyRangeTiling, TLAPS

MyP == INSTANCE MySqlStreamProofs WITH
    pc <- myPc, scan <- myScan, unread <- myUnread,
    delivered <- myDelivered, session <- mySession

-----------------------------------------------------------------------------
(* The Postgres stream.                                                    *)

\* Where each row of the cursor is, for every place the stream may be at.
RowsAccounted ==
    \A s \in Streams :
        /\ pc[s] \notin {"open"} \cup Final =>
              unread[s] = {} /\ batch[s] = {} /\ delivered[s] = {} /\ ~isLast[s]
        /\ pc[s] = "open" => Partition(s)
        /\ pc[s] = "open" /\ isLast[s] => unread[s] = {}
        /\ pc[s] = "ended" => delivered[s] = scan[s]
        /\ delivered[s] \subseteq scan[s]

\* The rows that were decoded are decodable.
RowsDecoded ==
    \A s \in Streams : \A r \in batch[s] \cup delivered[s] : r.id \notin BadRows

\* The inductive invariant.
IInv == TypeOK /\ NothingPinned /\ RowsAccounted /\ RowsDecoded

-----------------------------------------------------------------------------

\* A stream's batch size is a number.
LEMMA BatchSizeIsNat == ASSUME NEW s \in Streams, TypeOK PROVE batchSize[s] \in Nat
  <1>1. batchSize[s] \in BatchSizes \cup {0}
    BY DEF TypeOK
  <1>2. BatchSizes \cup {0} \subseteq Nat
    BY StreamAssumption
  <1>3. QED
    BY <1>1, <1>2

\* A batch out of the cursor is a part of what was not fetched, and it is all
\* of it when it is shorter than asked for.
LEMMA ShortBatchIsAll ==
    ASSUME NEW s \in Streams, NEW b \in Fetched(s), TypeOK
    PROVE  /\ b \subseteq unread[s]
           /\ ShortBatch(s, b) => b = unread[s]
  <1>1. batchSize[s] \in Nat
    BY BatchSizeIsNat
  <1>2. CASE Cardinality(unread[s]) <= batchSize[s]
    BY <1>2 DEF Fetched, Some
  <1>3. CASE ~(Cardinality(unread[s]) <= batchSize[s])
    <2>1. b \subseteq unread[s] /\ Cardinality(b) = batchSize[s]
      BY <1>3 DEF Fetched, Some
    <2>2. QED
      BY <2>1, <1>1 DEF ShortBatch
  <1>4. QED
    BY <1>2, <1>3

\* What a SELECT returns are rows of the table.
LEMMA SelectedRows == \A s : Selected(table, s) \subseteq Rows
  BY DEF Selected

\* Every step leaves the variables in their types.
LEMMA TypeStep == TypeOK /\ [Next]_vars => TypeOK'
  <1> SUFFICES ASSUME TypeOK, [Next]_vars PROVE TypeOK'
    OBVIOUS
  <1> USE DEF TypeOK, Goto, envVars, planVars, readVars, tableVars, PCs, Final
  <1>1. CASE OtherSession /\ UNCHANGED <<column, alters, streamVars>>
    <2>1. TableTypeOK'
      BY <1>1, TableAssumption DEF TableTypeOK, OtherSession, Write
    <2>2. QED
      BY <1>1, <2>1 DEF streamVars
  <1>2. CASE Alter
    <2>1. alters' \in 0..MaxAlters
      BY <1>2, StreamAssumption DEF Alter
    <2>2. QED
      BY <1>2, <2>1 DEF Alter, streamVars, TableTypeOK
  <1>3. ASSUME NEW s \in Streams, Progress(s) \/ Poll(s) \/ Break(s) \/ Drop(s)
        PROVE  TypeOK'
    <2>0. ASSUME NEW how \in Final, Close(s, how) PROVE TypeOK'
      BY <2>0 DEF Close, TableTypeOK
    <2>1. CASE Call(s)
      BY <2>1 DEF Call, RefusedSize, TableTypeOK
    <2>2. CASE Plan(s)
      BY <2>2 DEF Plan, CastOf, Casts, TableTypeOK
    <2>3. CASE Acquire(s)
      BY <2>3 DEF Acquire, TableTypeOK
    <2>4. CASE Begin(s)
      BY <2>4 DEF Begin, TableTypeOK
    <2>5. CASE Declare(s)
      BY <2>5, SelectedRows DEF Declare, HoldLock, TableTypeOK
    <2>6. CASE Fetch(s)
      <3>1. PICK b \in Fetched(s) :
                /\ unread' = [unread EXCEPT ![s] = @ \ b]
                /\ batch' = [batch EXCEPT ![s] = b]
                /\ isLast' = [isLast EXCEPT ![s] = ShortBatch(s, b)]
        BY <2>6 DEF Fetch
      <3>2. b \in SUBSET Rows
        BY ShortBatchIsAll
      <3>3. ShortBatch(s, b) \in BOOLEAN
        BY DEF ShortBatch
      <3>4. QED
        BY <2>6, <3>1, <3>2, <3>3 DEF Fetch, TableTypeOK
    <2>7. CASE Yield(s)
      BY <2>7 DEF Yield, TableTypeOK
    <2>8. CASE PlanRefused(s) \/ FetchUndecodable(s) \/ Finish(s) \/ Fail(s) \/ Break(s) \/ Drop(s)
      BY <2>0, <2>8 DEF PlanRefused, FetchUndecodable, Finish, Fail, Break, Drop
    <2>9. QED
      BY <1>3, <2>1, <2>2, <2>3, <2>4, <2>5, <2>6, <2>7, <2>8 DEF Progress, Poll
  <1>4. CASE UNCHANGED vars
    BY <1>4 DEF vars, streamVars, TableTypeOK
  <1>5. QED
    BY <1>1, <1>2, <1>3, <1>4 DEF Next

\* The steps that end a stream touch nothing but its place and its session.
LEMMA CloseSteps ==
    ASSUME NEW s \in Streams,
           \/ PlanRefused(s) \/ FetchUndecodable(s) \/ Fail(s) \/ Break(s) \/ Drop(s)
    PROVE  \E how \in {"failed", "refused", "dropped"} : Close(s, how)
  BY DEF PlanRefused, FetchUndecodable, Fail, Break, Drop

\* Every step keeps the sessions and the locks with the streams that need them.
LEMMA PinnedStep == TypeOK /\ NothingPinned /\ [Next]_vars => NothingPinned'
  <1> SUFFICES ASSUME TypeOK, NothingPinned, [Next]_vars PROVE NothingPinned'
    OBVIOUS
  <1> USE DEF TypeOK, NothingPinned, Goto
  <1>1. CASE (OtherSession /\ UNCHANGED <<column, alters, streamVars>>) \/ Alter \/ UNCHANGED vars
    BY <1>1 DEF OtherSession, Write, Alter, vars, streamVars
  <1>2. ASSUME NEW s \in Streams, Progress(s) \/ Poll(s) \/ Break(s) \/ Drop(s)
        PROVE  NothingPinned'
    <2>0. ASSUME NEW how \in Final, Close(s, how) PROVE NothingPinned'
      BY <2>0 DEF Close, Final
    <2>1. CASE Call(s)
      BY <2>1 DEF Call
    <2>2. CASE Plan(s)
      BY <2>2 DEF Plan
    <2>3. CASE Acquire(s)
      BY <2>3 DEF Acquire
    <2>4. CASE Begin(s)
      BY <2>4 DEF Begin
    <2>5. CASE Declare(s)
      BY <2>5 DEF Declare, HoldLock
    <2>6. CASE Fetch(s) \/ Yield(s)
      <3>1. UNCHANGED <<pc, session, locked>>
        BY <2>6 DEF Fetch, Yield
      <3>2. QED
        BY <3>1
    <2>7. CASE Finish(s)
      BY <2>7, <2>0 DEF Finish, Final
    <2>8. CASE PlanRefused(s) \/ FetchUndecodable(s) \/ Fail(s) \/ Break(s) \/ Drop(s)
      BY <2>0, <2>8, CloseSteps DEF Final
    <2>9. QED
      BY <1>2, <2>1, <2>2, <2>3, <2>4, <2>5, <2>6, <2>7, <2>8 DEF Progress, Poll
  <1>3. QED
    BY <1>1, <1>2 DEF Next

\* Every step keeps account of the rows.
LEMMA AccountStep == TypeOK /\ RowsAccounted /\ [Next]_vars => RowsAccounted'
  <1> SUFFICES ASSUME TypeOK, RowsAccounted, [Next]_vars PROVE RowsAccounted'
    OBVIOUS
  <1> USE DEF TypeOK, RowsAccounted, Partition, Goto, planVars, readVars, Final
  <1>1. CASE (OtherSession /\ UNCHANGED <<column, alters, streamVars>>) \/ Alter \/ UNCHANGED vars
    BY <1>1 DEF Alter, vars, streamVars
  <1>2. ASSUME NEW s \in Streams, Progress(s) \/ Poll(s) \/ Break(s) \/ Drop(s)
        PROVE  RowsAccounted'
    <2>1. CASE Call(s)
      BY <2>1 DEF Call
    <2>2. CASE Plan(s)
      BY <2>2 DEF Plan
    <2>3. CASE Acquire(s) \/ Begin(s)
      BY <2>3 DEF Acquire, Begin
    <2>4. CASE Declare(s)
      BY <2>4 DEF Declare
    <2>5. CASE Fetch(s)
      <3>1. PICK b \in Fetched(s) :
                /\ unread' = [unread EXCEPT ![s] = @ \ b]
                /\ batch' = [batch EXCEPT ![s] = b]
                /\ isLast' = [isLast EXCEPT ![s] = ShortBatch(s, b)]
        BY <2>5 DEF Fetch
      <3>2. b \subseteq unread[s] /\ (ShortBatch(s, b) => b = unread[s])
        BY ShortBatchIsAll
      <3>3. pc[s] = "open" /\ batch[s] = {} /\ UNCHANGED <<pc, scan, delivered>>
        BY <2>5 DEF Fetch, AtUnfold
      <3>4. Partition(s)' /\ (isLast'[s] => unread'[s] = {})
        BY <3>1, <3>2, <3>3
      <3>5. QED
        BY <3>1, <3>3, <3>4
    <2>6. CASE Yield(s)
      BY <2>6 DEF Yield
    <2>7. CASE Finish(s)
      <3>1. pc[s] = "open" /\ batch[s] = {} /\ isLast[s]
        BY <2>7 DEF Finish, AtUnfold
      <3>2. delivered[s] = scan[s]
        <4>1. unread[s] = {}
          BY <3>1
        <4>2. scan[s] = unread[s] \cup batch[s] \cup delivered[s]
          BY <3>1
        <4>3. QED
          BY <4>1, <4>2, <3>1
      <3>3. pc' = [pc EXCEPT ![s] = "ended"] /\ UNCHANGED <<scan, unread, batch, isLast, delivered>>
        BY <2>7 DEF Finish, Close
      <3>4. QED
        BY <3>2, <3>3
    <2>8. CASE PlanRefused(s) \/ FetchUndecodable(s) \/ Fail(s) \/ Break(s) \/ Drop(s)
      BY <2>8, CloseSteps DEF Close
    <2>9. QED
      BY <1>2, <2>1, <2>2, <2>3, <2>4, <2>5, <2>6, <2>7, <2>8 DEF Progress, Poll
  <1>3. QED
    BY <1>1, <1>2 DEF Next

\* Every step keeps undecodable rows out of the batch and of the caller's hands.
LEMMA DecodedStep == TypeOK /\ RowsDecoded /\ [Next]_vars => RowsDecoded'
  <1> SUFFICES ASSUME TypeOK, RowsDecoded, [Next]_vars PROVE RowsDecoded'
    OBVIOUS
  <1> USE DEF TypeOK, RowsDecoded, readVars
  <1>1. CASE (OtherSession /\ UNCHANGED <<column, alters, streamVars>>) \/ Alter \/ UNCHANGED vars
    BY <1>1 DEF Alter, vars, streamVars
  <1>2. ASSUME NEW s \in Streams, Progress(s) \/ Poll(s) \/ Break(s) \/ Drop(s)
        PROVE  RowsDecoded'
    <2>1. CASE Call(s) \/ Plan(s) \/ Acquire(s) \/ Begin(s)
      BY <2>1 DEF Call, Plan, Acquire, Begin
    <2>2. CASE Declare(s)
      BY <2>2 DEF Declare
    <2>3. CASE Fetch(s)
      BY <2>3 DEF Fetch, Decodable
    <2>4. CASE Yield(s)
      BY <2>4 DEF Yield
    <2>5. CASE PlanRefused(s) \/ FetchUndecodable(s) \/ Fail(s) \/ Break(s) \/ Drop(s) \/ Finish(s)
      BY <2>5, CloseSteps DEF Close, Finish
    <2>6. QED
      BY <1>2, <2>1, <2>2, <2>3, <2>4, <2>5 DEF Progress, Poll
  <1>3. QED
    BY <1>1, <1>2 DEF Next

-----------------------------------------------------------------------------

\* The inductive invariant holds in every reachable state.
THEOREM Invariance == Spec => []IInv
  <1>1. Init => IInv
    BY TableAssumption, StreamAssumption
    DEF Init, TableInit, IInv, TypeOK, Casts, TableTypeOK, NothingPinned, RowsAccounted,
        RowsDecoded, PCs, Final, Types
  <1>2. IInv /\ [Next]_vars => IInv'
    BY TypeStep, PinnedStep, AccountStep, DecodedStep DEF IInv
  <1>3. QED
    BY <1>1, <1>2, PTL DEF Spec

\* The variables always have their types (stream.rs 153-202).
THEOREM TypeCorrectness == Spec => []TypeOK
  <1>1. IInv => TypeOK
    BY DEF IInv
  <1>2. QED
    BY <1>1, Invariance, PTL

\* However many rows there are and whatever the batch size, a stream yields no
\* row twice and ends only when it has yielded every row its cursor saw: the
\* length of a batch is enough to know the last one (stream.rs 183-184).
THEOREM EveryRowExactlyOnce == Spec => []ExactlyOnce
  <1>1. IInv => ExactlyOnce
    BY DEF IInv, RowsAccounted, ExactlyOnce
  <1>2. QED
    BY <1>1, Invariance, PTL

\* A stream that meets a value it cannot decode never ends normally and never
\* yields the row (stream.rs 185-194).
THEOREM NoBadRowIsSkipped == Spec => []BadRowIsAnError
  <1>1. IInv => BadRowIsAnError
    BY DEF IInv, RowsAccounted, RowsDecoded, BadRowIsAnError
  <1>2. QED
    BY <1>1, Invariance, PTL

\* No stream leaves a session or a lock behind, whichever way it ends, and
\* whatever the number of streams (stream.rs 148-152).
THEOREM NothingLeftPinned == Spec => []NothingPinned
  <1>1. IInv => NothingPinned
    BY DEF IInv
  <1>2. QED
    BY <1>1, Invariance, PTL

\* The type of the column a stream reads never changes under it, so the decode
\* plan built from the first row fits every later one (stream.rs 188).
THEOREM DecoderIsNeverStale == Spec => []DecoderStaysValid
  <1>1. Init => DecoderStaysValid
    BY DEF Init, DecoderStaysValid
  <1>2. IInv /\ DecoderStaysValid /\ [Next]_vars => DecoderStaysValid'
    <2> SUFFICES ASSUME TypeOK, NothingPinned, DecoderStaysValid, [Next]_vars
                 PROVE  DecoderStaysValid'
      BY DEF IInv
    <2> USE DEF TypeOK, NothingPinned, DecoderStaysValid, Goto, envVars, planVars
    <2>1. CASE (OtherSession /\ UNCHANGED <<column, alters, streamVars>>) \/ UNCHANGED vars
      BY <2>1 DEF vars, streamVars
    <2>2. CASE Alter
      <3>1. \A s \in Streams : pc[s] # "open"
        BY <2>2 DEF Alter
      <3>2. QED
        BY <2>2, <3>1 DEF Alter, streamVars
    <2>3. ASSUME NEW s \in Streams, Progress(s) \/ Poll(s) \/ Break(s) \/ Drop(s)
          PROVE  DecoderStaysValid'
      <3>1. CASE Call(s) \/ Plan(s) \/ Acquire(s) \/ Begin(s) \/ Declare(s)
        BY <3>1 DEF Call, Plan, Acquire, Begin, Declare
      <3>2. CASE Fetch(s) \/ Yield(s)
        <4>1. UNCHANGED <<column, pc, wire>>
          BY <3>2 DEF Fetch, Yield
        <4>2. QED
          BY <4>1
      <3>3. CASE PlanRefused(s) \/ FetchUndecodable(s) \/ Fail(s) \/ Break(s) \/ Drop(s) \/ Finish(s)
        <4>1. UNCHANGED <<column, wire>> /\ \E how \in Final : Goto(s, how)
          BY <3>3, CloseSteps DEF Close, Finish, Final
        <4>2. QED
          BY <4>1 DEF Final
      <3>4. QED
        BY <2>3, <3>1, <3>2, <3>3 DEF Progress, Poll
    <2>4. QED
      BY <2>1, <2>2, <2>3 DEF Next
  <1>3. QED
    BY <1>1, <1>2, Invariance, PTL DEF Spec

-----------------------------------------------------------------------------
(* The cursor stream implements the abstract row stream.                   *)

\* The places of a stream that has not reached its cursor yet.
Early == {"called", "planning", "acquiring", "beginning", "declaring"}

\* What is shown of every place.
LEMMA ShownValues ==
    /\ \A l \in Early : Shown(l) = "requested"
    /\ Shown("open") = "reading" /\ Shown("ended") = "ended"
    /\ Shown("failed") = "failed" /\ Shown("refused") = "failed"
    /\ Shown("dropped") = "dropped"
  <1>1. Shown("open") = "reading" /\ Shown("refused") = "failed"
    BY DEF Shown, Final
  <1>2. ASSUME NEW l \in {"ended", "failed", "dropped"} PROVE Shown(l) = l
    <2>1. l # "open" /\ l # "refused" /\ l \in Final \ {"refused"}
      BY DEF Final
    <2>2. QED
      BY <2>1 DEF Shown
  <1>3. ASSUME NEW l \in Early PROVE Shown(l) = "requested"
    <2>1. l # "open" /\ l # "refused" /\ l \notin Final
      BY DEF Early, Final
    <2>2. QED
      BY <2>1 DEF Shown
  <1>4. QED
    BY <1>1, <1>2, <1>3

\* The abstract module's table is this one.
LEMMA SameTable ==
    /\ RS!TableInit <=> TableInit
    /\ RS!OtherSession <=> OtherSession
    /\ \A s : RS!Selected(table, s) = Selected(table, s)
  BY DEF RS!TableInit, TableInit, RS!OtherSession, OtherSession, RS!Write, Write,
         RS!Selected, Selected, RS!Rows, Rows, RS!Cells, Cells, RS!InRange, InRange

\* A step that leaves the shown state alone.
LEMMA ShownSame ==
    ASSUME NEW s \in Streams, NEW l \in Early, TypeOK, pc[s] \in Early, Goto(s, l)
    PROVE  [t \in Streams |-> Shown(pc[t])]' = [t \in Streams |-> Shown(pc[t])]
  BY ShownValues DEF TypeOK, Goto

\* A step of one stream's place is a step of its shown state.
LEMMA ShownStep ==
    ASSUME NEW s \in Streams, NEW l, TypeOK, Goto(s, l)
    PROVE  [t \in Streams |-> Shown(pc[t])]'
              = [[t \in Streams |-> Shown(pc[t])] EXCEPT ![s] = Shown(l)]
  BY DEF TypeOK, Goto

\* A stream that gives up stops, in the abstract.
LEMMA CloseStops ==
    ASSUME NEW s \in Streams, NEW how \in {"failed", "refused", "dropped"},
           TypeOK, pc[s] \notin Final, Close(s, how)
    PROVE  RS!Stop(s, "failed") \/ RS!Stop(s, "dropped")
  <1>1. [t \in Streams |-> Shown(pc[t])]'
              = [[t \in Streams |-> Shown(pc[t])] EXCEPT ![s] = Shown(how)]
    BY ShownStep DEF Close
  <1>2. Shown(how) \in {"failed", "dropped"}
    BY ShownValues
  <1>3. pc[s] \in Early \cup {"open"}
    BY DEF TypeOK, PCs, Early
  <1>4. [t \in Streams |-> Shown(pc[t])][s] \notin RS!FinalStates
    BY <1>3, ShownValues DEF RS!FinalStates
  <1>5. UNCHANGED <<tableVars, scan, delivered>> /\ session' = session \ {s}
    BY DEF Close, envVars, planVars, readVars
  <1>6. QED
    BY <1>1, <1>2, <1>4, <1>5 DEF RS!Stop, RS!tableVars, tableVars

\* The cursor stream is a read of one committed state of the table, for every
\* table, batch size and number of streams (stream.rs 153-202).
THEOREM Refinement == Spec => ImplementsRowStream
  <1>1. Init => RS!Init
    BY SameTable, ShownValues DEF Init, RS!Init, Early
  <1>2. IInv /\ [Next]_vars => [RS!Next]_RS!vars
    <2> SUFFICES ASSUME TypeOK, NothingPinned, RowsAccounted, [Next]_vars
                 PROVE  RS!Next \/ UNCHANGED RS!vars
      BY DEF IInv
    <2> USE SameTable DEF RS!tableVars, tableVars
    <2>1. CASE OtherSession /\ UNCHANGED <<column, alters, streamVars>>
      <3>1. UNCHANGED <<[t \in Streams |-> Shown(pc[t])], scan, delivered, session>>
        BY <2>1 DEF streamVars, planVars, readVars
      <3>2. QED
        BY <2>1, <3>1 DEF RS!Next
    <2>2. CASE Alter \/ UNCHANGED vars
      BY <2>2 DEF Alter, vars, envVars, streamVars, planVars, readVars, RS!vars
    <2>3. ASSUME NEW s \in Streams, Progress(s) \/ Poll(s) \/ Break(s) \/ Drop(s)
          PROVE  RS!Next \/ UNCHANGED RS!vars
      <3>1. CASE Call(s)
        <4>1. CASE Goto(s, "refused")
          <5>1. RS!Stop(s, "failed")
            <6>1. s \notin session /\ pc[s] = "called"
              BY <3>1 DEF Call, NothingPinned
            <6>2. [t \in Streams |-> Shown(pc[t])]'
                     = [[t \in Streams |-> Shown(pc[t])] EXCEPT ![s] = "failed"]
              BY <4>1, ShownStep, ShownValues
            <6>3. [t \in Streams |-> Shown(pc[t])][s] \notin RS!FinalStates
              BY <6>1, ShownValues DEF RS!FinalStates, Early
            <6>4. QED
              BY <3>1, <6>1, <6>2, <6>3 DEF Call, RS!Stop, envVars, readVars
          <5>2. QED
            BY <5>1 DEF RS!Next
        <4>2. CASE Goto(s, "planning")
          <5>1. [t \in Streams |-> Shown(pc[t])]' = [t \in Streams |-> Shown(pc[t])]
            BY <3>1, <4>2, ShownSame DEF Call, Early
          <5>2. QED
            BY <3>1, <5>1 DEF Call, RS!vars, envVars, readVars
        <4>3. QED
          BY <3>1, <4>1, <4>2 DEF Call
      <3>2. CASE Plan(s) \/ Begin(s)
        <4>1. [t \in Streams |-> Shown(pc[t])]' = [t \in Streams |-> Shown(pc[t])]
          BY <3>2, ShownSame DEF Plan, Begin, Early
        <4>2. QED
          BY <3>2, <4>1 DEF Plan, Begin, RS!vars, envVars, planVars, readVars
      <3>3. CASE Acquire(s)
        <4>1. [t \in Streams |-> Shown(pc[t])]' = [t \in Streams |-> Shown(pc[t])]
          BY <3>3, ShownSame DEF Acquire, Early
        <4>2. Shown(pc[s]) = "requested"
          BY <3>3, ShownValues DEF Acquire, Early
        <4>3. RS!Connect(s)
          BY <3>3, <4>1, <4>2 DEF Acquire, RS!Connect, envVars, planVars, readVars
        <4>4. QED
          BY <4>3 DEF RS!Next
      <3>4. CASE Declare(s)
        <4>1. [t \in Streams |-> Shown(pc[t])]'
                 = [[t \in Streams |-> Shown(pc[t])] EXCEPT ![s] = "reading"]
          <5>1. Goto(s, "open")
            BY <3>4 DEF Declare
          <5>2. [t \in Streams |-> Shown(pc[t])]'
                   = [[t \in Streams |-> Shown(pc[t])] EXCEPT ![s] = Shown("open")]
            BY <5>1, ShownStep
          <5>3. QED
            BY <5>2, ShownValues
        <4>2. Shown(pc[s]) = "requested" /\ s \in session
          BY <3>4, ShownValues DEF Declare, Early, NothingPinned
        <4>3. RS!Snapshot(s)
          BY <3>4, <4>1, <4>2 DEF Declare, RS!Snapshot, envVars
        <4>4. QED
          BY <4>3 DEF RS!Next
      <3>5. CASE Fetch(s)
        BY <3>5 DEF Fetch, RS!vars, envVars, planVars
      <3>6. CASE Yield(s)
        <4>1. PICK r \in batch[s] : delivered' = [delivered EXCEPT ![s] = @ \cup {r}]
          BY <3>6 DEF Yield
        <4>2. r \in scan[s] \ delivered[s]
          BY <3>6 DEF Yield, RowsAccounted, Partition
        <4>3. Shown(pc[s]) = "reading"
          BY <3>6, ShownValues DEF Yield
        <4>4. RS!Deliver(s)
          BY <3>6, <4>1, <4>2, <4>3 DEF Yield, RS!Deliver, envVars, planVars
        <4>5. QED
          BY <4>4 DEF RS!Next
      <3>7. CASE Finish(s)
        <4>1. pc[s] = "open" /\ batch[s] = {} /\ unread[s] = {}
          BY <3>7 DEF Finish, AtUnfold, RowsAccounted
        <4>2. scan[s] = unread[s] \cup batch[s] \cup delivered[s]
          BY <4>1 DEF RowsAccounted, Partition
        <4>3. delivered[s] = scan[s]
          BY <4>1, <4>2
        <4>4. [t \in Streams |-> Shown(pc[t])]'
                 = [[t \in Streams |-> Shown(pc[t])] EXCEPT ![s] = "ended"]
          <5>1. Goto(s, "ended")
            BY <3>7 DEF Finish, Close
          <5>2. [t \in Streams |-> Shown(pc[t])]'
                   = [[t \in Streams |-> Shown(pc[t])] EXCEPT ![s] = Shown("ended")]
            BY <5>1, ShownStep
          <5>3. QED
            BY <5>2, ShownValues
        <4>5. Shown(pc[s]) = "reading"
          BY <4>1, ShownValues
        <4>6. RS!End(s)
          BY <3>7, <4>3, <4>4, <4>5 DEF Finish, Close, RS!End, envVars, planVars, readVars
        <4>7. QED
          BY <4>6 DEF RS!Next
      <3>8. CASE PlanRefused(s) \/ FetchUndecodable(s) \/ Fail(s) \/ Break(s) \/ Drop(s)
        <4>1. pc[s] \notin Final
          BY <3>8 DEF PlanRefused, FetchUndecodable, Fail, Break, Drop, AtUnfold, Final
        <4>2. RS!Stop(s, "failed") \/ RS!Stop(s, "dropped")
          BY <3>8, <4>1, CloseSteps, CloseStops
        <4>3. QED
          BY <4>2 DEF RS!Next
      <3>9. QED
        BY <2>3, <3>1, <3>2, <3>3, <3>4, <3>5, <3>6, <3>7, <3>8 DEF Progress, Poll
    <2>4. QED
      BY <2>1, <2>2, <2>3 DEF Next
  <1>3. QED
    BY <1>1, <1>2, Invariance, PTL DEF Spec, ImplementsRowStream, RS!Spec

-----------------------------------------------------------------------------
(* What a stream has read is still in the table, where nobody wrote.       *)

\* A row that nobody wrote to and that a cursor saw is one its SELECT would
\* return now, and the cursor of a stream that did not fail saw all of them.
ScanIsStable ==
    \A s \in Streams : \A r \in Rows : r.id \notin touched =>
        /\ r \in scan[s] => r \in Selected(table, s)
        /\ pc[s] \in {"open", "ended"} /\ r \in Selected(table, s) => r \in scan[s]

\* A write changes what a SELECT returns in no other row than its own.
LEMMA WriteIsLocal ==
    ASSUME NEW s \in Streams, NEW r \in Rows, TableTypeOK, OtherSession, r.id \notin touched'
    PROVE  r.id \notin touched /\ (r \in Selected(table', s) <=> r \in Selected(table, s))
  <1>1. PICK w \in RowIds, c \in Cells \cup {Absent} : Write(w, c)
    BY DEF OtherSession
  <1>2. r.id # w /\ r.id \notin touched /\ r.id \in RowIds
    BY <1>1 DEF Write, Rows
  <1>3. table'[r.id] = table[r.id]
    BY <1>1, <1>2 DEF Write, TableTypeOK
  <1>4. QED
    BY <1>2, <1>3 DEF Selected

\* Every step keeps the cursors in line with the rows nobody wrote to.
LEMMA ScanStep == TypeOK /\ ScanIsStable /\ [Next]_vars => ScanIsStable'
  <1> SUFFICES ASSUME TypeOK, ScanIsStable, [Next]_vars PROVE ScanIsStable'
    OBVIOUS
  <1> USE DEF TypeOK, ScanIsStable, Goto, envVars, planVars, tableVars
  <1>1. CASE OtherSession /\ UNCHANGED <<column, alters, streamVars>>
    <2>1. UNCHANGED <<pc, scan>>
      BY <1>1 DEF streamVars
    <2>2. QED
      BY <1>1, <2>1, WriteIsLocal
  <1>2. CASE Alter \/ UNCHANGED vars
    <2>1. UNCHANGED <<pc, scan, table, touched>>
      BY <1>2 DEF Alter, vars, streamVars
    <2>2. QED
      BY <2>1
  <1>3. ASSUME NEW s \in Streams, Progress(s) \/ Poll(s) \/ Break(s) \/ Drop(s)
        PROVE  ScanIsStable'
    <2>1. UNCHANGED <<table, touched>>
      BY <1>3, CloseSteps
      DEF Progress, Poll, Call, Plan, Acquire, Begin, Declare, Fetch, Yield, Finish, Close
    <2>2. CASE Declare(s)
      <3>1. scan' = [scan EXCEPT ![s] = Selected(table, s)] /\ Goto(s, "open")
        BY <2>2 DEF Declare
      <3>2. QED
        BY <2>1, <3>1
    <2>3. CASE ~Declare(s)
      <3>1. UNCHANGED scan
        BY <1>3, <2>3, CloseSteps
        DEF Progress, Poll, Call, Plan, Acquire, Begin, Fetch, Yield, Finish, Close
      <3>2. \A t \in Streams : pc'[t] \in {"open", "ended"} => pc[t] \in {"open", "ended"}
        BY <1>3, <2>3, CloseSteps
        DEF Progress, Poll, Call, Plan, Acquire, Begin, Fetch, Yield, Finish, AtUnfold, Close
      <3>3. QED
        BY <2>1, <3>1, <3>2
    <2>4. QED
      BY <2>2, <2>3
  <1>4. QED
    BY <1>1, <1>2, <1>3 DEF Next

\* The cursors stay in line with the rows nobody wrote to, in every reachable
\* state (stream.rs 169-172: DECLARE reads one committed state).
THEOREM ScanStaysStable == Spec => []ScanIsStable
  <1>1. Init => ScanIsStable
    BY DEF Init, ScanIsStable
  <1>2. IInv /\ ScanIsStable /\ [Next]_vars => ScanIsStable'
    BY ScanStep DEF IInv
  <1>3. QED
    BY <1>1, <1>2, Invariance, PTL DEF Spec

-----------------------------------------------------------------------------
(* Sub-streams over ranges that tile the keys.                             *)

\* A key is selected by an accepted range exactly when it is in its interval.
LEMMA IntervalIsRange ==
    ASSUME NEW s \in Accepted, NEW k \in Keys
    PROVE  InRange(k, RangeOf[s]) <=> k \in Interval(RangeOf[s])
  <1>1. RangeOf[s] \in KeyRanges /\ ~NullBound(RangeOf[s])
    BY TableAssumption DEF Accepted, RefusedRange
  <1>2. k # NullKey
    BY TableAssumption
  <1>3. CASE RangeOf[s].given
    <2>1. RangeOf[s].lower # NullKey /\ RangeOf[s].upper # NullKey
      BY <1>1, <1>3 DEF NullBound
    <2>2. RangeOf[s].lower \in Int \cup {NoBound} /\ RangeOf[s].upper \in Int \cup {NoBound} /\ k \in Int
      BY <1>1, <2>1, TableAssumption DEF KeyRanges, Bounds
    <2>3. QED
      BY <1>2, <1>3, <2>1, <2>2 DEF InRange, Interval
  <1>4. CASE ~RangeOf[s].given
    <2>1. RangeOf[s].lower = NoBound /\ RangeOf[s].upper = NoBound
      BY <1>1, <1>4 DEF KeyRanges
    <2>2. QED
      BY <1>4, <2>1 DEF InRange, Interval
  <1>5. QED
    BY <1>3, <1>4

\* A refused stream never reaches a cursor, so it yields nothing.
RefusedReadsNothing ==
    \A s \in Streams \ Accepted :
        /\ pc[s] \notin {"acquiring", "beginning", "declaring", "open", "ended"}
        /\ delivered[s] = {}

\* Streams over ranges that tile the keys yield, between them, every row nobody
\* wrote to exactly once: for every table, every set of ranges, every number of
\* streams and every order of their steps and of other sessions' writes
\* (adapter.rs 50-52, 62-64; stream.rs 74-87).
THEOREM EveryStableRowOnce == Spec => []StableRowsOnce
  <1>1. Init => RefusedReadsNothing
    BY DEF Init, RefusedReadsNothing
  <1>2. IInv /\ RefusedReadsNothing /\ [Next]_vars => RefusedReadsNothing'
    <2> SUFFICES ASSUME TypeOK, RefusedReadsNothing, [Next]_vars PROVE RefusedReadsNothing'
      BY DEF IInv
    <2> USE DEF TypeOK, RefusedReadsNothing, Goto, readVars
    <2>1. CASE (OtherSession /\ UNCHANGED <<column, alters, streamVars>>) \/ Alter \/ UNCHANGED vars
      <3>1. UNCHANGED <<pc, delivered>>
        BY <2>1 DEF Alter, vars, streamVars
      <3>2. QED
        BY <3>1
    <2>2. ASSUME NEW s \in Streams, Progress(s) \/ Poll(s) \/ Break(s) \/ Drop(s)
          PROVE  RefusedReadsNothing'
      <3>1. CASE Call(s)
        BY <3>1 DEF Call
      <3>2. CASE Plan(s)
        <4>1. s \in Accepted
          BY <3>2 DEF Plan, Accepted
        <4>2. QED
          BY <3>2, <4>1 DEF Plan
      <3>3. CASE Acquire(s) \/ Begin(s) \/ Declare(s)
        BY <3>3 DEF Acquire, Begin, Declare
      <3>4. CASE Fetch(s) \/ Yield(s)
        BY <3>4 DEF Fetch, Yield
      <3>5. CASE Finish(s)
        BY <3>5 DEF Finish, AtUnfold, Close
      <3>6. CASE PlanRefused(s) \/ FetchUndecodable(s) \/ Fail(s) \/ Break(s) \/ Drop(s)
        BY <3>6, CloseSteps DEF Close
      <3>7. QED
        BY <2>2, <3>1, <3>2, <3>3, <3>4, <3>5, <3>6 DEF Progress, Poll
    <2>3. QED
      BY <2>1, <2>2 DEF Next
  <1>3. IInv /\ ScanIsStable /\ RefusedReadsNothing => StableRowsOnce
    <2> SUFFICES ASSUME IInv, ScanIsStable, RefusedReadsNothing, Tiling, AllEnded,
                        NEW id \in RowIds \ touched, table[id] \in Keys
                 PROVE  Cardinality(Readers(id)) = 1
      BY DEF StableRowsOnce
    <2> USE DEF IInv, TypeOK
    <2> DEFINE k == table[id]
               row == [id |-> id, key |-> k]
               Owners == {s \in Accepted : k \in Interval(RangeOf[s])}
    <2>1. row \in Rows /\ row.id = id /\ row.key = k
      BY DEF Rows, Cells
    <2>2. ASSUME NEW s \in Streams PROVE s \in Readers(id) <=> s \in Owners
      <3>1. CASE s \notin Accepted
        <4>1. delivered[s] = {}
          BY <3>1 DEF RefusedReadsNothing
        <4>2. QED
          BY <3>1, <4>1 DEF Readers
      <3>2. CASE s \in Accepted
        <4>1. pc[s] = "ended" /\ delivered[s] = scan[s]
          BY <3>2 DEF AllEnded, RowsAccounted
        <4>2. \A r \in Rows : r.id = id => (r \in scan[s] <=> r \in Selected(table, s))
          BY <4>1 DEF ScanIsStable
        <4>3. \A r \in Rows : r.id = id /\ r \in Selected(table, s) <=> r = row /\ InRange(k, RangeOf[s])
          BY <2>1 DEF Selected, Rows
        <4>4. scan[s] \subseteq Rows
          OBVIOUS
        <4>5. s \in Readers(id) <=> InRange(k, RangeOf[s])
          BY <2>1, <4>1, <4>2, <4>3, <4>4 DEF Readers
        <4>6. QED
          BY <3>2, <4>5, IntervalIsRange
      <3>3. QED
        BY <3>1, <3>2
    <2>3. Readers(id) = Owners
      BY <2>2 DEF Readers, Accepted
    <2>4. QED
      BY <2>3 DEF Tiling
  <1>4. QED
    BY <1>1, <1>2, <1>3, Invariance, ScanStaysStable, PTL DEF Spec

-----------------------------------------------------------------------------
(* Both streams on one table.                                              *)

\* The assumption MySqlStreamProofs makes about its constants holds here.
LEMMA MyAssumption ==
    /\ MyP!KeyRanges = KeyRanges
    /\ Keys \subseteq Int
    /\ NullKey \notin Int /\ Absent \notin Int /\ NoBound \notin Int
    /\ NullKey # Absent /\ NullKey # NoBound
    /\ RangeOf \in [Streams -> MyP!KeyRanges]
    /\ MaxWrites \in Nat
  <1>1. MyP!KeyRanges = KeyRanges
    BY DEF MyP!KeyRanges, KeyRanges, MyP!Bounds, Bounds
  <1>2. QED
    BY <1>1, TableAssumption

\* The stream proved about is the stream of the pair.
LEMMA SameStream ==
    /\ My!Init <=> MyP!Init
    /\ \A s \in Streams : MySide(s) <=> MyP!Step(s) \/ MyP!Fail(s) \/ MyP!Drop(s)
    /\ MyP!OtherSession <=> OtherSession
  <1>1. My!Init <=> MyP!Init
    BY DEF My!Init, MyP!Init, My!TableInit, MyP!TableInit, My!Cells, MyP!Cells
  <1>2. ASSUME NEW s \in Streams
        PROVE  MySide(s) <=> MyP!Step(s) \/ MyP!Fail(s) \/ MyP!Drop(s)
    BY DEF MySide, My!Step, My!Fail, My!Drop, My!Call, My!Acquire, My!FirstPoll, My!Yield,
           My!YieldError, My!Finish, My!Close, My!Goto, My!tableVars, My!Final,
           My!EmptyRange, My!Selected, My!Rows, My!Cells, My!InRange,
           MyP!Step, MyP!Fail, MyP!Drop, MyP!Call, MyP!Acquire, MyP!FirstPoll, MyP!Yield,
           MyP!YieldError, MyP!Finish, MyP!Close, MyP!Goto, MyP!tableVars, MyP!Final,
           MyP!EmptyRange, MyP!Selected, MyP!Rows, MyP!Cells, MyP!InRange
  <1>3. MyP!OtherSession <=> OtherSession
    BY DEF MyP!OtherSession, OtherSession, MyP!Write, Write, MyP!Cells, Cells
  <1>4. QED
    BY <1>1, <1>2, <1>3

\* A step of the pair is a step of the Postgres stream, or leaves it alone.
LEMMA PgSide == [ParityNext]_<<vars, myVars>> => [Next]_vars
  <1>1. ASSUME NEW s \in Streams, MySide(s), UNCHANGED <<column, alters, streamVars>>
        PROVE  UNCHANGED vars
    <2>1. UNCHANGED tableVars
      BY <1>1, SameStream, MyAssumption, MyP!StreamsReadOnly DEF MyP!tableVars, tableVars
    <2>2. QED
      BY <1>1, <2>1 DEF vars, envVars
  <1>2. QED
    BY <1>1 DEF ParityNext

\* A step of the pair is a step of the MySQL stream, or leaves it alone.
LEMMA MySqlSide == [ParityNext]_<<vars, myVars>> => [MyP!Next]_MyP!vars
  <1> SUFFICES ASSUME [ParityNext]_<<vars, myVars>> PROVE MyP!Next \/ UNCHANGED MyP!vars
    OBVIOUS
  <1> USE SameStream DEF MyP!vars, MyP!tableVars, tableVars
  <1>1. CASE OtherSession /\ UNCHANGED myVars
    BY <1>1 DEF myVars, MyP!Next
  <1>2. CASE UNCHANGED <<vars, myVars>>
    BY <1>2 DEF vars, envVars, myVars
  <1>3. CASE Alter /\ UNCHANGED myVars
    BY <1>3 DEF Alter, myVars
  <1>4. ASSUME NEW s \in Streams, Progress(s) \/ Poll(s) \/ Break(s) \/ Drop(s), UNCHANGED myVars
        PROVE  UNCHANGED MyP!vars
    <2>1. UNCHANGED tableVars
      BY <1>4, CloseSteps
      DEF Progress, Poll, Call, Plan, Acquire, Begin, Declare, Fetch, Yield, Finish, Close, envVars
    <2>2. QED
      BY <1>4, <2>1 DEF myVars
  <1>5. ASSUME NEW s \in Streams, MySide(s) PROVE MyP!Next
    BY <1>5 DEF MyP!Next
  <1>6. QED
    BY <1>1, <1>2, <1>3, <1>4, <1>5 DEF ParityNext, Next

\* Both streams keep their invariants beside each other.
THEOREM ParityInvariance == ParitySpec => [](IInv /\ ScanIsStable /\ MyP!IInv)
  <1>1. ParityInit => Init /\ MyP!Init
    BY SameStream DEF ParityInit
  <1>2. ParitySpec => Spec
    BY <1>1, PgSide, PTL DEF ParitySpec, Spec
  <1>3. MyP!Init => MyP!IInv
    BY MyP!InitInv, MyAssumption
  <1>4. MyP!IInv /\ [MyP!Next]_MyP!vars => MyP!IInv'
    BY MyP!StepInv, MyAssumption
  <1>5. ParitySpec => []MyP!IInv
    BY <1>1, <1>3, <1>4, MySqlSide, PTL DEF ParitySpec
  <1>6. QED
    BY <1>2, <1>5, Invariance, ScanStaysStable, PTL

\* The MySQL stream of the pair is well formed and holds a session only while it
\* can still yield, whatever the Postgres one did before it (MySQL stream.rs
\* 63-81).
THEOREM MySqlTypeCorrectness == ParitySpec => []MySqlTypeOK
  <1>1. MyP!IInv => MySqlTypeOK
    BY DEF MyP!IInv, MySqlTypeOK, MyP!TypeOK, My!TypeOK, MyP!TableTypeOK, My!TableTypeOK,
           MyP!Final, My!Final, MyP!Rows, My!Rows, MyP!Cells, My!Cells
  <1>2. QED
    BY <1>1, ParityInvariance, PTL

\* For every table, every set of undecodable rows, every batch size and every
\* number of streams: on a table nobody writes to, both engines return the same
\* rows (stream.rs 153-202; MySQL stream.rs 26-85).
THEOREM EnginesReturnTheSame == ParitySpec => []SameRowsWhenQuiet
  <1>1. IInv /\ ScanIsStable /\ MyP!IInv => SameRowsWhenQuiet
    <2> SUFFICES ASSUME IInv, ScanIsStable, MyP!IInv, touched = {}, NEW s \in Streams
                 PROVE  /\ BothEnded(s) => delivered[s] = myDelivered[s]
                        /\ pc[s] = "ended" => myDelivered[s] \subseteq delivered[s]
                        /\ myPc[s] = "ended" => delivered[s] \subseteq myDelivered[s]
      BY DEF SameRowsWhenQuiet
    <2>0. MyP!Rows = Rows /\ MyP!Selected(table, s) = Selected(table, s)
      BY DEF MyP!Rows, Rows, MyP!Cells, Cells, MyP!Selected, Selected, MyP!InRange, InRange
    <2>1. /\ scan[s] \subseteq Selected(table, s) /\ delivered[s] \subseteq scan[s]
          /\ pc[s] = "ended" => delivered[s] = Selected(table, s)
      <3>1. /\ scan[s] \subseteq Rows /\ delivered[s] \subseteq scan[s]
            /\ pc[s] = "ended" => delivered[s] = scan[s]
        BY DEF IInv, TypeOK, RowsAccounted
      <3>2. Selected(table, s) \subseteq Rows
        BY DEF Selected
      <3>3. QED
        BY <3>1, <3>2 DEF ScanIsStable
    <2>2. /\ myScan[s] \subseteq Selected(table, s) /\ myDelivered[s] \subseteq myScan[s]
          /\ myPc[s] = "ended" => myDelivered[s] = Selected(table, s)
      <3>1. /\ myScan[s] \subseteq MyP!Rows /\ myDelivered[s] \subseteq myScan[s]
            /\ myPc[s] = "ended" => myDelivered[s] = myScan[s]
        BY DEF MyP!IInv, MyP!TypeOK, MyP!RowsAccounted
      <3>2. MyP!Selected(table, s) \subseteq MyP!Rows
        BY DEF MyP!Selected
      <3>3. QED
        BY <2>0, <3>1, <3>2 DEF MyP!IInv, MyP!ScanIsStable
    <2>3. QED
      BY <2>1, <2>2 DEF BothEnded
  <1>2. QED
    BY <1>1, ParityInvariance, PTL

\* The abstract stream that MySqlStreamProofs refines is the one of the pair.
LEMMA SameAbstractStream ==
    /\ MyP!RS!Init <=> My!RS!Init
    /\ [MyP!RS!Next]_MyP!RS!vars <=> [My!RS!Next]_My!RS!vars
  <1>1. \A l : MyP!Shown(l) = My!Shown(l)
    BY DEF MyP!Shown, My!Shown, MyP!Final, My!Final
  <1>2. MyP!RS!Init <=> My!RS!Init
    BY <1>1 DEF MyP!RS!Init, My!RS!Init, MyP!RS!TableInit, My!RS!TableInit, MyP!RS!Cells, My!RS!Cells
  <1>3. UNCHANGED MyP!RS!vars <=> UNCHANGED My!RS!vars
    BY <1>1 DEF MyP!RS!vars, My!RS!vars, MyP!RS!tableVars, My!RS!tableVars
  <1>4. MyP!RS!OtherSession <=> My!RS!OtherSession
    BY DEF MyP!RS!OtherSession, My!RS!OtherSession, MyP!RS!Write, My!RS!Write, MyP!RS!Cells, My!RS!Cells
  <1>5. ASSUME NEW s \in Streams
        PROVE  /\ MyP!RS!Connect(s) <=> My!RS!Connect(s)
               /\ MyP!RS!Snapshot(s) <=> My!RS!Snapshot(s)
               /\ MyP!RS!Deliver(s) <=> My!RS!Deliver(s)
               /\ MyP!RS!End(s) <=> My!RS!End(s)
               /\ \A how : MyP!RS!Stop(s, how) <=> My!RS!Stop(s, how)
    BY <1>1
    DEF MyP!RS!Connect, My!RS!Connect, MyP!RS!Snapshot, My!RS!Snapshot, MyP!RS!Deliver, My!RS!Deliver,
        MyP!RS!End, My!RS!End, MyP!RS!Stop, My!RS!Stop, MyP!RS!tableVars, My!RS!tableVars,
        MyP!RS!FinalStates, My!RS!FinalStates, MyP!RS!Selected, My!RS!Selected,
        MyP!RS!Rows, My!RS!Rows, MyP!RS!Cells, My!RS!Cells, MyP!RS!InRange, My!RS!InRange
  <1>6. MyP!RS!Next <=> My!RS!Next
    BY <1>1, <1>4, <1>5 DEF MyP!RS!Next, My!RS!Next
  <1>7. QED
    BY <1>2, <1>3, <1>6

\* The MySQL stream of the pair is a read of one committed state of the table
\* (MySQL stream.rs 26-85).
THEOREM MySqlRefinement == ParitySpec => MySqlImplements
  <1>1. ParityInit => MyP!Init
    BY SameStream DEF ParityInit
  <1>2. MyP!Init => MyP!RS!Init
    BY MyP!RefinementInit, MyAssumption
  <1>3. MyP!IInv /\ [MyP!Next]_MyP!vars => [MyP!RS!Next]_MyP!RS!vars
    BY MyP!RefinementStep, MyAssumption
  <1>4. QED
    BY <1>1, <1>2, <1>3, SameAbstractStream, MySqlSide, ParityInvariance, PTL
    DEF ParitySpec, MySqlImplements, My!ImplementsRowStream, My!RS!Spec
=============================================================================
