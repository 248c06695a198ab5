-------------------------- MODULE MySqlStreamProofs --------------------------
(***************************************************************************)
(* Theorems about MySqlStream, for every set of streams, every table and   *)
(* every number of writes.                                                 *)
(***************************************************************************)
EXTENDS MySqlStream, TLAPS

\* A dedicated session exists from the acquire to the end of the stream.
SessionsExact == session = {s \in Streams : pc[s] \in {"returned", "open"}}

\* Where each row of the result set is, for every place the stream may be at.
RowsAccounted ==
    \A s \in Streams :
        /\ pc[s] \in {"called", "acquiring", "returned"} =>
              unread[s] = {} /\ delivered[s] = {}
        /\ pc[s] = "open" =>
              scan[s] = unread[s] \cup delivered[s] /\ unread[s] \cap delivered[s] = {}
        /\ pc[s] = "ended" => delivered[s] = scan[s]
        /\ \A r \in delivered[s] : r \in scan[s] /\ r.id \notin BadRows

\* A row that nobody wrote to and that a result set has is one its SELECT would
\* return now, and the result set of a stream that did not fail has all of them.
ScanIsStable ==
    \A s \in Streams : \A r \in Rows : r.id \notin touched =>
        /\ r \in scan[s] => r \in Selected(table, s)
        /\ pc[s] \in {"open", "ended"} /\ r \in Selected(table, s) => r \in scan[s]

\* The inductive invariant.
IInv == TypeOK /\ SessionsExact /\ RowsAccounted /\ ScanIsStable

-----------------------------------------------------------------------------

\* The steps that end a stream touch nothing but its place and its session.
LEMMA CloseSteps ==
    ASSUME NEW s \in Streams, YieldError(s) \/ Finish(s) \/ Fail(s) \/ Drop(s)
    PROVE  \E how \in {"ended", "failed", "dropped"} : Close(s, how)
  BY DEF YieldError, Finish, Fail, Drop

\* Only the steps of other sessions change the table.
LEMMA StreamsReadOnly ==
    ASSUME NEW s \in Streams, Step(s) \/ Fail(s) \/ Drop(s)
    PROVE  UNCHANGED tableVars
  BY CloseSteps DEF Step, Call, Acquire, FirstPoll, Yield, Close

\* Every step leaves the variables in their types and keeps the sessions exact.
LEMMA TypeStep ==
    TypeOK /\ SessionsExact /\ [Next]_vars => TypeOK' /\ SessionsExact'
  <1> SUFFICES ASSUME TypeOK, SessionsExact, [Next]_vars PROVE TypeOK' /\ SessionsExact'
    OBVIOUS
  <1> USE DEF TypeOK, SessionsExact, Goto, Final
  <1>1. CASE OtherSession /\ UNCHANGED <<pc, scan, unread, delivered, session>>
    <2>1. TableTypeOK'
      BY <1>1, TableAssumption DEF TableTypeOK, OtherSession, Write
    <2>2. QED
      BY <1>1, <2>1
  <1>2. ASSUME NEW s \in Streams, Step(s) \/ Fail(s) \/ Drop(s)
        PROVE  TypeOK' /\ SessionsExact'
    <2>1. TableTypeOK'
      BY <1>2, StreamsReadOnly DEF TableTypeOK, tableVars
    <2>2. CASE Call(s)
      BY <2>1, <2>2 DEF Call
    <2>3. CASE Acquire(s)
      BY <2>1, <2>3 DEF Acquire
    <2>4. CASE FirstPoll(s)
      BY <2>1, <2>4 DEF FirstPoll, Selected
    <2>5. CASE Yield(s)
      BY <2>1, <2>5 DEF Yield
    <2>6. CASE YieldError(s) \/ Finish(s) \/ Fail(s) \/ Drop(s)
      BY <2>1, <2>6, CloseSteps DEF Close
    <2>7. QED
      BY <1>2, <2>2, <2>3, <2>4, <2>5, <2>6 DEF Step
  <1>3. CASE UNCHANGED vars
    BY <1>3 DEF vars, tableVars, TableTypeOK
  <1>4. QED
    BY <1>1, <1>2, <1>3 DEF Next

\* Every step keeps account of the rows.
LEMMA AccountStep == TypeOK /\ RowsAccounted /\ [Next]_vars => RowsAccounted'
  <1> SUFFICES ASSUME TypeOK, RowsAccounted, [Next]_vars PROVE RowsAccounted'
    OBVIOUS
  <1> USE DEF TypeOK, RowsAccounted, Goto
  <1>1. CASE (OtherSession /\ UNCHANGED <<pc, scan, unread, delivered, session>>) \/ UNCHANGED vars
    <2>1. UNCHANGED <<pc, scan, unread, delivered>>
      BY <1>1 DEF vars
    <2>2. QED
      BY <2>1
  <1>2. ASSUME NEW s \in Streams, Step(s) \/ Fail(s) \/ Drop(s) PROVE RowsAccounted'
    <2>1. CASE Call(s) \/ Acquire(s)
      BY <2>1 DEF Call, Acquire
    <2>2. CASE FirstPoll(s)
      BY <2>2 DEF FirstPoll
    <2>3. CASE Yield(s)
      BY <2>3 DEF Yield
    <2>4. CASE Finish(s)
      BY <2>4 DEF Finish, Close
    <2>5. CASE YieldError(s) \/ Fail(s) \/ Drop(s)
      BY <2>5 DEF YieldError, Fail, Drop, Close
    <2>6. QED
      BY <1>2, <2>1, <2>2, <2>3, <2>4, <2>5 DEF Step
  <1>3. QED
    BY <1>1, <1>2 DEF Next

\* Every step keeps the result sets in line with the rows nobody wrote to.
LEMMA ScanStep == TypeOK /\ ScanIsStable /\ [Next]_vars => ScanIsStable'
  <1> SUFFICES ASSUME TypeOK, ScanIsStable, [Next]_vars PROVE ScanIsStable'
    OBVIOUS
  <1> USE DEF TypeOK, ScanIsStable, Goto
  <1>1. CASE OtherSession /\ UNCHANGED <<pc, scan, unread, delivered, session>>
    <2>1. PICK w \in RowIds, c \in Cells \cup {Absent} : Write(w, c)
      BY <1>1 DEF OtherSession
    <2>2. ASSUME NEW s \in Streams, NEW r \in Rows, r.id \notin touched'
          PROVE  r.id \notin touched /\ (r \in Selected(table', s) <=> r \in Selected(table, s))
      <3>1. r.id # w /\ r.id \notin touched /\ r.id \in RowIds
        BY <2>1, <2>2 DEF Write, Rows
      <3>2. table'[r.id] = table[r.id]
        BY <2>1, <3>1 DEF Write, TableTypeOK
      <3>3. QED
        BY <3>1, <3>2 DEF Selected
    <2>3. QED
      BY <1>1, <2>2
  <1>2. ASSUME NEW s \in Streams, Step(s) \/ Fail(s) \/ Drop(s) PROVE ScanIsStable'
    <2>1. UNCHANGED <<table, touched>>
      BY <1>2, StreamsReadOnly DEF tableVars
    <2>2. CASE FirstPoll(s)
      BY <2>1, <2>2 DEF FirstPoll
    <2>3. CASE ~FirstPoll(s)
      <3>1. UNCHANGED scan /\ \A t \in Streams : pc'[t] \in {"open", "ended"} => pc[t] \in {"open", "ended"}
        BY <1>2, <2>3 DEF Step, Call, Acquire, Yield, YieldError, Finish, Fail, Drop, Close
      <3>2. QED
        BY <2>1, <3>1
    <2>4. QED
      BY <2>2, <2>3
  <1>3. CASE UNCHANGED vars
    BY <1>3 DEF vars, tableVars
  <1>4. QED
    BY <1>1, <1>2, <1>3 DEF Next

\* The inductive invariant holds initially.
LEMMA InitInv == Init => IInv
  BY TableAssumption
  DEF Init, TableInit, IInv, TypeOK, TableTypeOK, SessionsExact, RowsAccounted, ScanIsStable, Final

\* Every step keeps the inductive invariant.
LEMMA StepInv == IInv /\ [Next]_vars => IInv'
  BY TypeStep, AccountStep, ScanStep DEF IInv

-----------------------------------------------------------------------------

\* The inductive invariant holds in every reachable state.
THEOREM Invariance == Spec => []IInv
  BY InitInv, StepInv, PTL DEF Spec

-----------------------------------------------------------------------------
(* The MySQL stream implements the abstract row stream.                    *)

\* The places of a stream whose SELECT has not run yet.
Early == {"called", "acquiring", "returned"}

\* What is shown of every place.
LEMMA ShownValues ==
    /\ \A l \in Early : Shown(l) = "requested"
    /\ Shown("open") = "reading" /\ Shown("refused") = "failed"
    /\ \A l \in {"ended", "failed", "dropped"} : Shown(l) = l
  <1>1. Shown("open") = "reading" /\ Shown("refused") = "failed"
    BY DEF Shown, Final
  <1>2. ASSUME NEW l \in {"ended", "failed", "dropped"} PROVE Shown(l) = l
    <2>1. l # "open" /\ l # "refused" /\ l \in Final \ {"refused"}
      BY DEF Final
    <2>2. QED
      BY <2>1 DEF Shown
  <1>3. ASSUME NEW l \in Early PROVE Shown(l) = "requested"
    <2>1. l # "open" /\ l # "refused" /\ l \notin Final
      BY DEF Early, Final
    <2>2. QED
      BY <2>1 DEF Shown
  <1>4. QED
    BY <1>1, <1>2, <1>3

\* The abstract module's table is this one.
LEMMA SameTable ==
    /\ RS!TableInit <=> TableInit
    /\ RS!OtherSession <=> OtherSession
    /\ \A s : RS!Selected(table, s) = Selected(table, s)
  BY DEF RS!TableInit, TableInit, RS!OtherSession, OtherSession, RS!Write, Write,
         RS!Selected, Selected, RS!Rows, Rows, RS!Cells, Cells, RS!InRange, InRange

\* A step of one stream's place is a step of its shown state.
LEMMA ShownStep ==
    ASSUME NEW s \in Streams, NEW l, TypeOK, Goto(s, l)
    PROVE  /\ [t \in Streams |-> Shown(pc[t])]'
                 = [[t \in Streams |-> Shown(pc[t])] EXCEPT ![s] = Shown(l)]
           /\ Shown(l) = Shown(pc[s]) =>
                 [t \in Streams |-> Shown(pc[t])]' = [t \in Streams |-> Shown(pc[t])]
  BY DEF TypeOK, Goto

\* A stream that is refused, fails or is dropped stops, in the abstract.
LEMMA StopStep ==
    ASSUME NEW s \in Streams, NEW how \in {"failed", "refused", "dropped"},
           TypeOK, pc[s] \notin Final, Goto(s, how), session' = session \ {s},
           UNCHANGED <<tableVars, scan, delivered>>
    PROVE  RS!Stop(s, "failed") \/ RS!Stop(s, "dropped")
  <1>1. [t \in Streams |-> Shown(pc[t])]'
              = [[t \in Streams |-> Shown(pc[t])] EXCEPT ![s] = Shown(how)]
    BY ShownStep
  <1>2. Shown(how) \in {"failed", "dropped"}
    BY ShownValues
  <1>3. pc[s] \in Early \cup {"open"}
    BY DEF TypeOK, Final, Early
  <1>4. [t \in Streams |-> Shown(pc[t])][s] \notin RS!FinalStates
    BY <1>3, ShownValues DEF RS!FinalStates
  <1>5. QED
    BY <1>1, <1>2, <1>4 DEF RS!Stop, RS!tableVars, tableVars

\* Every step of the MySQL stream is a step of the abstract one, or none.
LEMMA RefinementStep == IInv /\ [Next]_vars => [RS!Next]_RS!vars
  <1> SUFFICES ASSUME TypeOK, SessionsExact, RowsAccounted, [Next]_vars
               PROVE  RS!Next \/ UNCHANGED RS!vars
    BY DEF IInv
  <1> DEFINE shown == [t \in Streams |-> Shown(pc[t])]
  <1> USE SameTable DEF RS!tableVars, tableVars
  <1>1. CASE OtherSession /\ UNCHANGED <<pc, scan, unread, delivered, session>>
    BY <1>1 DEF RS!Next
  <1>2. CASE UNCHANGED vars
    BY <1>2 DEF vars, RS!vars
  <1>3. ASSUME NEW s \in Streams, Step(s) \/ Fail(s) \/ Drop(s)
        PROVE  RS!Next \/ UNCHANGED RS!vars
    <2>1. CASE Call(s)
      <3>1. CASE Goto(s, "refused")
        <4>1. pc[s] = "called" /\ session' = session \ {s}
          BY <2>1 DEF Call, SessionsExact
        <4>2. RS!Stop(s, "failed") \/ RS!Stop(s, "dropped")
          BY <2>1, <3>1, <4>1, StopStep DEF Call, Final
        <4>3. QED
          BY <4>2 DEF RS!Next
      <3>2. CASE Goto(s, "acquiring")
        <4>1. Shown("acquiring") = Shown(pc[s])
          BY <2>1, ShownValues DEF Call, Early
        <4>2. UNCHANGED shown
          BY <3>2, <4>1, ShownStep
        <4>3. QED
          BY <2>1, <4>2 DEF Call, RS!vars
      <3>3. QED
        BY <2>1, <3>1, <3>2 DEF Call
    <2>2. CASE Acquire(s)
      <3>1. Shown(pc[s]) = "requested" /\ Shown("returned") = "requested"
        BY <2>2, ShownValues DEF Acquire, Early
      <3>2. UNCHANGED shown
        BY <2>2, <3>1, ShownStep DEF Acquire
      <3>3. RS!Connect(s)
        BY <2>2, <3>1, <3>2 DEF Acquire, RS!Connect
      <3>4. QED
        BY <3>3 DEF RS!Next
    <2>3. CASE FirstPoll(s)
      <3>1. Shown(pc[s]) = "requested" /\ s \in session
        BY <2>3, ShownValues DEF FirstPoll, Early, SessionsExact
      <3>2. shown' = [shown EXCEPT ![s] = "reading"]
        BY <2>3, ShownStep, ShownValues DEF FirstPoll
      <3>3. RS!Snapshot(s)
        BY <2>3, <3>1, <3>2 DEF FirstPoll, RS!Snapshot
      <3>4. QED
        BY <3>3 DEF RS!Next
    <2>4. CASE Yield(s)
      <3>1. PICK r \in unread[s] : delivered' = [delivered EXCEPT ![s] = @ \cup {r}]
        BY <2>4 DEF Yield
      <3>2. r \in scan[s] \ delivered[s]
        BY <2>4 DEF Yield, RowsAccounted
      <3>3. Shown(pc[s]) = "reading"
        BY <2>4, ShownValues DEF Yield
      <3>4. RS!Deliver(s)
        BY <2>4, <3>1, <3>2, <3>3 DEF Yield, RS!Deliver
      <3>5. QED
        BY <3>4 DEF RS!Next
    <2>5. CASE Finish(s)
      <3>1. pc[s] = "open" /\ delivered[s] = scan[s]
        BY <2>5 DEF Finish, RowsAccounted
      <3>2. shown' = [shown EXCEPT ![s] = "ended"] /\ Shown(pc[s]) = "reading"
        BY <2>5, <3>1, ShownStep, ShownValues DEF Finish, Close
      <3>3. RS!End(s)
        BY <2>5, <3>1, <3>2 DEF Finish, Close, RS!End
      <3>4. QED
        BY <3>3 DEF RS!Next
    <2>6. CASE YieldError(s) \/ Fail(s) \/ Drop(s)
      <3>1. PICK how \in {"failed", "dropped"} : pc[s] \notin Final /\ Close(s, how)
        BY <2>6 DEF YieldError, Fail, Drop, Final
      <3>2. RS!Stop(s, "failed") \/ RS!Stop(s, "dropped")
        BY <3>1, StopStep DEF Close
      <3>3. QED
        BY <3>2 DEF RS!Next
    <2>7. QED
      BY <1>3, <2>1, <2>2, <2>3, <2>4, <2>5, <2>6 DEF Step
  <1>4. QED
    BY <1>1, <1>2, <1>3 DEF Next

\* The abstract stream starts where this one starts.
LEMMA RefinementInit == Init => RS!Init
  BY SameTable, ShownValues DEF Init, RS!Init, Early

\* The MySQL stream is a read of one committed state of the table, for every
\* table and every number of streams (MySQL stream.rs 26-85).
THEOREM Refinement == Spec => ImplementsRowStream
  BY RefinementInit, RefinementStep, Invariance, PTL DEF Spec, ImplementsRowStream, RS!Spec
=============================================================================
