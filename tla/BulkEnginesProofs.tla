------------------------- MODULE BulkEnginesProofs --------------------------
(***************************************************************************)
(* Theorems about PgBulk, for every stream of rows, every size of encoded  *)
(* rows and every pair of thresholds; and about BulkEngines, for every set *)
(* of limits: what the MySQL bulk write promises, and that both engines    *)
(* agree on what they accept.                                              *)
(***************************************************************************)
EXTENDS BulkEngines, WellFoundedInduction, TLAPS

-----------------------------------------------------------------------------
(* Induction: the least number of a set, and sets of numbers closed under  *)
(* the successor.  Both are stated of sets, so that a definition by        *)
(* recursion can be reasoned about through the set of the numbers that     *)
(* have the property.                                                      *)

\* A set of numbers that is not empty has a least one.
LEMMA LeastNumber ==
    ASSUME NEW T \in SUBSET Nat, T # {}
    PROVE  \E n \in T : \A m \in T : n <= m
  <1>1. PICK n \in T : \A m \in T : <<m, n>> \notin OpToRel(<, Nat)
    BY NatLessThanWellFounded, WFMin
  <1>2. ASSUME NEW m \in T, m < n PROVE <<m, n>> \in OpToRel(<, Nat)
    BY <1>2, Zenon DEF OpToRel
  <1>3. \A m \in T : ~(m < n)
    BY <1>1, <1>2, Zenon
  <1>4. QED
    BY <1>3

\* A set of numbers with 0 and with the successor of each of its members.
LEMMA AllNumbers ==
    ASSUME NEW T \in SUBSET Nat, 0 \in T, \A n \in T : n + 1 \in T
    PROVE  T = Nat
  <1> SUFFICES ASSUME Nat \ T # {} PROVE FALSE
    OBVIOUS
  <1>1. PICK n \in Nat \ T : \A m \in Nat \ T : n <= m
    BY LeastNumber
  <1>2. n - 1 \in T
    BY <1>1
  <1>3. QED
    BY <1>1, <1>2

-----------------------------------------------------------------------------
(* The rows that no trigger suppresses, and the items before the first one *)
(* that cannot be written.                                                 *)

\* The function that Through is computed by, for the first n of the rows.
IsThrough(kept, src, rows, n) ==
    kept = [i \in 0..n |->
               IF i = 0 THEN <<>>
               ELSE IF src[rows[i]] = "unkept" THEN kept[i - 1]
               ELSE Append(kept[i - 1], rows[i])]

\* What the function is at every number.
LEMMA ThroughAt ==
    ASSUME NEW kept, NEW src, NEW rows, NEW n \in Nat, IsThrough(kept, src, rows, n)
    PROVE  /\ kept[0] = <<>>
           /\ \A i \in 1..n :
                 kept[i] = IF src[rows[i]] = "unkept" THEN kept[i - 1] ELSE Append(kept[i - 1], rows[i])
  <1> DEFINE f == [i \in 0..n |->
                     IF i = 0 THEN <<>>
                     ELSE IF src[rows[i]] = "unkept" THEN kept[i - 1]
                     ELSE Append(kept[i - 1], rows[i])]
  <1>1. kept = f
    BY DEF IsThrough
  <1>2. f[0] = <<>>
    OBVIOUS
  <1>3. ASSUME NEW i \in 1..n
        PROVE  f[i] = IF src[rows[i]] = "unkept" THEN kept[i - 1] ELSE Append(kept[i - 1], rows[i])
    <2>1. i \in 0..n /\ i # 0
      OBVIOUS
    <2>2. QED
      BY <2>1, Zenon
  <1> HIDE DEF f
  <1>4. QED
    BY <1>1, <1>2, <1>3, Zenon

\* There is such a function, for every number of rows.
LEMMA ThroughExists ==
    ASSUME NEW src, NEW rows, NEW n \in Nat
    PROVE  \E kept : IsThrough(kept, src, rows, n)
  <1> DEFINE T == {m \in Nat : \E kept : IsThrough(kept, src, rows, m)}
  <1>1. 0 \in T
    <2>1. IsThrough([i \in 0..0 |-> <<>>], src, rows, 0)
      BY DEF IsThrough
    <2>2. QED
      BY <2>1
  <1>2. ASSUME NEW m \in T PROVE m + 1 \in T
    <2>1. PICK kept : IsThrough(kept, src, rows, m)
      OBVIOUS
    <2> DEFINE next == IF src[rows[m + 1]] = "unkept" THEN kept[m] ELSE Append(kept[m], rows[m + 1])
               more == [i \in 0..(m + 1) |-> IF i = m + 1 THEN next ELSE kept[i]]
    <2>2. \A i \in 0..(m + 1) :
             more[i] = IF i = 0 THEN <<>>
                       ELSE IF src[rows[i]] = "unkept" THEN more[i - 1]
                       ELSE Append(more[i - 1], rows[i])
      <3>1. \A i \in 0..m : more[i] = kept[i]
        OBVIOUS
      <3>2. more[m + 1] = next /\ more[(m + 1) - 1] = kept[m]
        OBVIOUS
      <3>3. ASSUME NEW i \in 1..m
            PROVE  kept[i] = IF src[rows[i]] = "unkept" THEN kept[i - 1] ELSE Append(kept[i - 1], rows[i])
        BY <2>1, ThroughAt
      <3>4. kept[0] = <<>>
        BY <2>1, ThroughAt
      <3> HIDE DEF more
      <3>5. \A i \in 1..m : i - 1 \in 0..m
        OBVIOUS
      <3>6. QED
        BY <3>1, <3>2, <3>3, <3>4, <3>5
    <2>3. IsThrough(more, src, rows, m + 1)
      <3> HIDE DEF next
      <3>1. more = [i \in 0..(m + 1) |-> more[i]]
        OBVIOUS
      <3> HIDE DEF more
      <3>2. QED
        BY <2>2, <3>1 DEF IsThrough
    <2>4. QED
      BY <2>3
  <1> HIDE DEF T
  <1>3. T = Nat
    BY <1>1, <1>2, AllNumbers DEF T
  <1>4. QED
    BY <1>3 DEF T

\* What Through returns is what that function ends with.
LEMMA ThroughIs ==
    ASSUME NEW src, NEW rows, Len(rows) \in Nat
    PROVE  \E kept : IsThrough(kept, src, rows, Len(rows)) /\ Through(src, rows) = kept[Len(rows)]
  <1>1. Through(src, rows) = (CHOOSE kept : IsThrough(kept, src, rows, Len(rows)))[Len(rows)]
    BY DEF Through, IsThrough
  <1>2. \E kept : IsThrough(kept, src, rows, Len(rows))
    BY ThroughExists
  <1>3. QED
    BY <1>1, <1>2

\* The rows that go through are some of the rows.
LEMMA ThroughType ==
    ASSUME NEW src, NEW S, NEW rows \in Seq(S)
    PROVE  Through(src, rows) \in Seq(S)
  <1>1. PICK kept : IsThrough(kept, src, rows, Len(rows)) /\ Through(src, rows) = kept[Len(rows)]
    BY ThroughIs
  <1> DEFINE T == {m \in Nat : m <= Len(rows) => kept[m] \in Seq(S)}
  <1>2. 0 \in T
    <2>1. kept[0] = <<>> /\ <<>> \in Seq(S)
      BY <1>1, ThroughAt
    <2>2. QED
      BY <2>1
  <1>3. ASSUME NEW m \in T PROVE m + 1 \in T
    <2> SUFFICES ASSUME m + 1 <= Len(rows) PROVE kept[m + 1] \in Seq(S)
      OBVIOUS
    <2>1. m \in Nat /\ kept[m] \in Seq(S) /\ rows[m + 1] \in S
      <3>1. m <= Len(rows) /\ m + 1 \in 1..Len(rows)
        OBVIOUS
      <3>2. QED
        BY <3>1
    <2>2. kept[m + 1] = IF src[rows[m + 1]] = "unkept" THEN kept[m] ELSE Append(kept[m], rows[m + 1])
      <3>1. m + 1 \in 1..Len(rows) /\ (m + 1) - 1 = m /\ Len(rows) \in Nat
        OBVIOUS
      <3> HIDE DEF T
      <3>2. QED
        BY <1>1, <3>1, ThroughAt
    <2>3. QED
      BY <2>1, <2>2
  <1> HIDE DEF T
  <1>4. T = Nat
    BY <1>2, <1>3, AllNumbers DEF T
  <1>5. QED
    BY <1>1, <1>4 DEF T

\* When no row is suppressed all rows go through.
LEMMA ThroughAll ==
    ASSUME NEW src, NEW S, NEW rows \in Seq(S),
           \A i \in 1..Len(rows) : src[rows[i]] # "unkept"
    PROVE  Through(src, rows) = rows
  <1>1. PICK kept : IsThrough(kept, src, rows, Len(rows)) /\ Through(src, rows) = kept[Len(rows)]
    BY ThroughIs
  <1> DEFINE T == {m \in Nat : m <= Len(rows) => kept[m] = [i \in 1..m |-> rows[i]]}
  <1>2. 0 \in T
    BY <1>1, ThroughAt
  <1>3. ASSUME NEW m \in T PROVE m + 1 \in T
    <2> SUFFICES ASSUME m + 1 <= Len(rows)
                 PROVE  kept[m + 1] = [i \in 1..(m + 1) |-> rows[i]]
      OBVIOUS
    <2>1. kept[m] = [i \in 1..m |-> rows[i]]
      OBVIOUS
    <2>2. kept[m + 1] = Append(kept[m], rows[m + 1])
      <3>1. m + 1 \in 1..Len(rows) /\ (m + 1) - 1 = m /\ Len(rows) \in Nat
        OBVIOUS
      <3> HIDE DEF T
      <3>2. src[rows[m + 1]] # "unkept"
        BY <3>1
      <3>3. kept[m + 1] = IF src[rows[m + 1]] = "unkept" THEN kept[m] ELSE Append(kept[m], rows[m + 1])
        BY <1>1, <3>1, ThroughAt
      <3>4. QED
        BY <3>2, <3>3
    <2>3. rows[m + 1] \in S
      OBVIOUS
    <2> DEFINE first == [i \in 1..m |-> rows[i]]
    <2>4. first \in Seq(S) /\ Len(first) = m
      OBVIOUS
    <2>5. Append(first, rows[m + 1]) = [i \in 1..(m + 1) |-> rows[i]]
      BY <2>3, <2>4
    <2>6. QED
      BY <2>1, <2>2, <2>5
  <1> HIDE DEF T
  <1>4. T = Nat
    BY <1>2, <1>3, AllNumbers DEF T
  <1>5. kept[Len(rows)] = [i \in 1..Len(rows) |-> rows[i]]
    <2>1. Len(rows) \in T /\ Len(rows) <= Len(rows)
      BY <1>4
    <2>2. QED
      BY <2>1, Zenon DEF T
  <1>6. rows = [i \in 1..Len(rows) |-> rows[i]]
    OBVIOUS
  <1>7. QED
    BY <1>1, <1>5, <1>6

\* Nothing before FirstOf is of these kinds.
LEMMA FirstOfIs ==
    ASSUME NEW src \in Seq(Kinds), NEW kinds
    PROVE  /\ FirstOf(src, kinds) \in 1..(Len(src) + 1)
           /\ \A i \in 1..Len(src) : i < FirstOf(src, kinds) => src[i] \notin kinds
           /\ FirstOf(src, kinds) <= Len(src) => src[FirstOf(src, kinds)] \in kinds
  <1> DEFINE T == {i \in 1..Len(src) : src[i] \in kinds} \cup {Len(src) + 1}
  <1>1. T \in SUBSET Nat /\ T # {}
    OBVIOUS
  <1>2. \E n \in T : \A m \in T : n <= m
    BY <1>1, LeastNumber
  <1>3. FirstOf(src, kinds) = CHOOSE n \in T : \A m \in T : n <= m
    BY DEF FirstOf, Min
  <1>4. FirstOf(src, kinds) \in T /\ \A m \in T : FirstOf(src, kinds) <= m
    BY <1>2, <1>3
  <1>5. QED
    BY <1>1, <1>4

-----------------------------------------------------------------------------
(* The invariant.                                                          *)

\* The types of what bulk_write and the server work with.
Types ==
    /\ source \in Sources /\ pc \in PCs
    /\ total \in 0..Len(source)
    /\ buffer \in Seq(1..Len(source)) /\ received \in Seq(1..Len(source))
    /\ bytes \in Nat /\ bufferedRows = Len(buffer)

\* The rows taken from the stream were sent or are in the buffer, in order;
\* the buffer is emptied before the copy is finished.
RowsInOrder ==
    /\ \A i \in 1..Len(received) : received[i] = i
    /\ pc # "returned" => Len(received) <= total
    /\ pc \in {"start", "pulling", "sending", "last"} =>
          /\ total = Len(received) + Len(buffer)
          /\ \A i \in 1..Len(buffer) : buffer[i] = Len(received) + i
    /\ pc \in {"finish", "confirming"} => Len(received) = total
    /\ pc \in {"last", "finish", "confirming"} => total = Len(source)

\* Where the server is, by where bulk_write is and by what was received.
ServerInStep ==
    /\ copy \in {"none", "copying", "done", "committed", "aborted"}
    /\ pc = "start" => copy = "none"
    /\ pc \in {"pulling", "sending", "last", "finish"} => copy = "copying"
    /\ pc = "confirming" => copy \in {"done", "committed", "aborted"}
    /\ copy \in {"done", "committed"} => Len(received) = Len(source)
    /\ table = IF copy = "committed" THEN Kept(source, Len(source)) ELSE <<>>

\* Ok is returned after the server committed.
ResultInStep ==
    /\ result \in Nat \cup {None, Failed, Dropped}
    /\ pc # "returned" => result = None
    /\ result \in Nat => copy = "committed" /\ result = Len(source)

\* What is known of the items: no error was taken as a row, and the server
\* committed no row it rejects.
ItemsSeen ==
    /\ \A i \in 1..total : source[i] # "error"
    /\ copy \in {"done", "committed"} => \A i \in 1..Len(source) : source[i] # "error"
    /\ copy = "committed" => \A i \in 1..Len(source) : source[i] # "bad"

\* While rows are pulled the buffer is not full.
Room == pc \in {"start", "pulling"} => Len(buffer) < FlushRows /\ bytes < FlushBytes

\* The inductive invariant.
IInv ==
    Types /\ RowsInOrder /\ ServerInStep /\ ResultInStep /\ ItemsSeen /\ Room /\ BufferBound

-----------------------------------------------------------------------------

\* A sequence that holds its own positions is the sequence of its positions.
LEMMA InOrder ==
    ASSUME NEW n \in Nat, NEW s \in Seq(1..n), Len(s) = n, \A i \in 1..n : s[i] = i
    PROVE  s = Positions(n)
  BY DEF Positions

\* The numbers of rows in the buffer and at the server.
LEMMA Lengths == ASSUME Types PROVE Len(buffer) \in Nat /\ Len(received) \in Nat
  BY DEF Types

\* Streams are finite sequences of items.
LEMMA SourceIsSeq == ASSUME Types PROVE source \in Seq(Kinds) /\ Len(source) \in Nat
  BY SourceAssumption DEF Types

\* What a row takes in the buffer.
LEMMA RowSize == ASSUME Types, NEW p \in 1..Len(source) PROVE SizeOf[source[p]] \in Nat \ {0}
  BY SourceIsSeq, PgBulkAssumption

\* The ways to return early change nothing but the copy.
LEMMA ReturnStep ==
    ASSUME IInv, pc # "returned", NEW how \in {Failed, Dropped}, Return(how)
    PROVE  IInv'
  <1> USE DEF Return, Goto, local
  <1>1. Types' /\ RowsInOrder'
    BY DEF IInv, Types, RowsInOrder, PCs
  <1>2. ServerInStep'
    BY DEF IInv, ServerInStep, Hangup
  <1>3. ResultInStep'
    BY SourceAssumption DEF IInv, ResultInStep
  <1>4. Room' /\ BufferBound'
    BY DEF IInv, Room, BufferBound
  <1>5. ItemsSeen'
    BY DEF IInv, ItemsSeen, Hangup
  <1>6. QED
    BY <1>1, <1>2, <1>3, <1>4, <1>5 DEF IInv

\* A row goes into the buffer.
LEMMA PullStep == ASSUME IInv, Pull PROVE IInv'
  <1> USE DEF Pull, Goto, server
  <1>1. total + 1 \in 1..Len(source) /\ total' = total + 1
    BY SourceIsSeq DEF IInv, Types
  <1>2. SizeOf[source[total']] \in Nat \ {0}
    BY <1>1, RowSize DEF IInv
  <1>3. /\ buffer' \in Seq(1..Len(source)) /\ Len(buffer') = Len(buffer) + 1
        /\ \A i \in 1..Len(buffer) : buffer'[i] = buffer[i]
        /\ buffer'[Len(buffer')] = total + 1
    BY <1>1 DEF IInv, Types
  <1>4. Types'
    BY <1>1, <1>2, <1>3 DEF IInv, Types, PCs
  <1>5. RowsInOrder'
    <2>1. /\ total = Len(received) + Len(buffer)
          /\ \A i \in 1..Len(buffer) : buffer[i] = Len(received) + i
          /\ received' = received /\ pc' \in {"pulling", "sending"}
      BY DEF IInv, RowsInOrder
    <2>2. Len(buffer) \in Nat /\ Len(received) \in Nat
      BY Lengths DEF IInv
    <2>3. ASSUME NEW i \in 1..Len(buffer') PROVE buffer'[i] = Len(received) + i
      <3>1. CASE i \in 1..Len(buffer)
        BY <1>3, <2>1, <3>1
      <3>2. CASE i = Len(buffer')
        <4>1. i = Len(buffer) + 1
          BY <1>3, <3>2
        <4>2. total + 1 = Len(received) + (Len(buffer) + 1)
          BY <2>1, <2>2
        <4>3. QED
          BY <1>3, <3>2, <4>1, <4>2
      <3>3. QED
        BY <1>3, <2>2, <3>1, <3>2
    <2>4. QED
      BY <1>1, <1>3, <2>1, <2>2, <2>3 DEF IInv, RowsInOrder
  <1>6. ServerInStep' /\ ResultInStep'
    BY DEF IInv, ServerInStep, ResultInStep
  <1>7. Room'
    <2>1. FlushRows \in Nat /\ FlushBytes \in Nat
      BY PgBulkAssumption
    <2>2. CASE Full
      BY <2>2 DEF Room
    <2>3. CASE ~Full
      BY <2>1, <2>3, <1>4 DEF Full, Room, Types
    <2>4. QED
      BY <2>2, <2>3
  <1>8. BufferBound'
    <2>1. Len(buffer') <= FlushRows
      BY <1>3, PgBulkAssumption DEF IInv, Types, Room
    <2>2. bytes' - SizeOf[source[buffer'[Len(buffer')]]] < FlushBytes
      BY <1>1, <1>2, <1>3 DEF IInv, Types, Room
    <2>3. QED
      BY <2>1, <2>2 DEF BufferBound
  <1>9. ItemsSeen'
    <2>1. \A i \in 1..total' : i \in 1..total \/ i = total + 1
      BY <1>1, SourceIsSeq DEF IInv, Types
    <2>2. QED
      BY <1>1, <2>1 DEF IInv, ItemsSeen
  <1>10. QED
    BY <1>4, <1>5, <1>6, <1>7, <1>8, <1>9 DEF IInv

\* The buffer goes to the server.
LEMMA SendStep == ASSUME IInv, Send \/ SendLast PROVE IInv'
  <1> USE DEF Send, SendLast, Goto, Clear, local
  <1>0. Len(buffer) \in Nat /\ Len(received) \in Nat /\ received' = received \o buffer
    BY Lengths DEF IInv
  <1>1. /\ received' \in Seq(1..Len(source))
        /\ Len(received') = total
        /\ \A i \in 1..Len(received') : received'[i] = i
    <2>1. /\ received' \in Seq(1..Len(source))
          /\ Len(received') = Len(received) + Len(buffer)
          /\ \A i \in 1..Len(received) : received'[i] = received[i]
          /\ \A i \in 1..Len(buffer) : received'[Len(received) + i] = buffer[i]
      BY <1>0 DEF IInv, Types
    <2>2. \A i \in (Len(received) + 1)..Len(received') :
              received'[i] = buffer[i - Len(received)] /\ i - Len(received) \in 1..Len(buffer)
      BY <1>0, <2>1
    <2>3. QED
      BY <1>0, <2>1, <2>2 DEF IInv, RowsInOrder
  <1>2. Types'
    <2>1. CASE Send
      BY <1>1, <2>1 DEF IInv, Types, PCs
    <2>2. CASE SendLast
      BY <1>1, <2>2 DEF IInv, Types, PCs
    <2>3. QED
      BY <2>1, <2>2
  <1>3. RowsInOrder'
    <2>1. CASE Send
      BY <1>0, <1>1, <2>1 DEF IInv, Types, RowsInOrder
    <2>2. CASE SendLast
      BY <1>0, <1>1, <2>2 DEF IInv, Types, RowsInOrder
    <2>3. QED
      BY <2>1, <2>2
  <1>4. ServerInStep' /\ ResultInStep'
    BY DEF IInv, ServerInStep, ResultInStep
  <1>5. Room' /\ BufferBound'
    BY PgBulkAssumption DEF IInv, Types, Room, BufferBound
  <1>6. ItemsSeen'
    BY DEF IInv, ItemsSeen
  <1>7. QED
    BY <1>2, <1>3, <1>4, <1>5, <1>6 DEF IInv

\* The other steps of bulk_write leave the rows where they are.
LEMMA ControlStep == ASSUME IInv, Start \/ SourceEnd \/ Finish \/ Confirm PROVE IInv'
  <1> USE DEF Start, SourceEnd, Finish, Confirm, Goto, local, server
  <1>1. Types'
    BY DEF IInv, Types, PCs, SendRest
  <1>2. RowsInOrder'
    <2>1. CASE SourceEnd
      BY <2>1 DEF IInv, Types, RowsInOrder, SendRest
    <2>2. CASE Start \/ Finish \/ Confirm
      BY <2>2 DEF IInv, Types, RowsInOrder
    <2>3. QED
      BY <2>1, <2>2
  <1>3. ServerInStep'
    BY DEF IInv, Types, RowsInOrder, ServerInStep, SendRest
  <1>4. ResultInStep'
    BY SourceAssumption DEF IInv, Types, RowsInOrder, ServerInStep, ResultInStep, SendRest, Verdict
  <1>5. Room' /\ BufferBound'
    BY DEF IInv, Room, BufferBound, SendRest
  <1>6. ItemsSeen'
    BY DEF IInv, RowsInOrder, ItemsSeen, SendRest
  <1>7. QED
    BY <1>1, <1>2, <1>3, <1>4, <1>5, <1>6 DEF IInv

\* The server decides on the copy.
LEMMA ServerStep == ASSUME IInv, Server PROVE IInv'
  <1> USE DEF Server, ServerCommit, ServerReject, local
  <1>1. Types' /\ RowsInOrder' /\ Room' /\ BufferBound'
    BY DEF IInv, Types, RowsInOrder, Room, BufferBound
  <1>2. ServerInStep'
    <2>1. CASE ServerCommit
      <3>1. received = Positions(Len(source))
        BY <2>1, InOrder, SourceIsSeq DEF IInv, Types, RowsInOrder, ServerInStep
      <3>2. table' = Kept(source, Len(source))
        BY <2>1, <3>1 DEF Kept
      <3>3. QED
        BY <2>1, <3>2 DEF IInv, ServerInStep
    <2>2. CASE ServerReject
      BY <2>2 DEF IInv, ServerInStep
    <2>3. QED
      BY <2>1, <2>2
  <1>3. ResultInStep'
    BY DEF IInv, ResultInStep, ServerInStep
  <1>4. ItemsSeen'
    <2>1. CASE ServerCommit
      <3>1. /\ Len(received) = Len(source) /\ Len(source) \in Nat
            /\ \A i \in 1..Len(received) : received[i] = i /\ source[received[i]] # "bad"
        BY <2>1, SourceIsSeq DEF IInv, RowsInOrder, ServerInStep, Rejected
      <3>2. \A i \in 1..Len(source) : source[i] # "bad"
        BY <3>1
      <3>3. QED
        BY <2>1, <3>2 DEF IInv, ItemsSeen
    <2>2. CASE ServerReject
      BY <2>2 DEF IInv, ItemsSeen
    <2>3. QED
      BY <2>1, <2>2
  <1>5. QED
    BY <1>1, <1>2, <1>3, <1>4 DEF IInv

\* Every step keeps the inductive invariant.
LEMMA StepInv == IInv /\ [Next]_vars => IInv'
  <1> SUFFICES ASSUME IInv, [Next]_vars PROVE IInv'
    OBVIOUS
  <1>1. CASE Client
    <2>1. CASE SourceError
      BY <2>1, ReturnStep DEF SourceError
    <2>2. QED
      BY <1>1, <2>1, PullStep, SendStep, ControlStep DEF Client
  <1>2. CASE Server
    BY <1>2, ServerStep
  <1>3. CASE Break \/ Drop
    BY <1>3, ReturnStep DEF Break, Drop
  <1>4. CASE UNCHANGED vars
    BY <1>4 DEF vars, local, server, IInv, Types, RowsInOrder, ServerInStep,
                ResultInStep, ItemsSeen, Room, BufferBound
  <1>5. QED
    BY <1>1, <1>2, <1>3, <1>4 DEF Next

-----------------------------------------------------------------------------

\* Every write starts in the inductive invariant.
LEMMA InitInv == Init => IInv
  BY SourceAssumption, PgBulkAssumption
  DEF Init, IInv, Types, PCs, RowsInOrder, ServerInStep, ResultInStep, ItemsSeen, Room,
      BufferBound

\* The inductive invariant holds in every reachable state.
THEOREM Invariance == Spec => []IInv
  BY InitInv, StepInv, PTL DEF Spec

\* The table holds all that the server keeps of the stream or nothing,
\* wherever the write is cut short (bulk.rs 26-53).
THEOREM CopyIsAllOrNothing == Spec => []AllOrNothing
  <1>1. IInv => AllOrNothing
    BY DEF IInv, ServerInStep, AllOrNothing
  <1>2. QED
    BY <1>1, Invariance, PTL

\* Ok is returned only after the whole stream went to the table, in order and
\* once, and with the number of rows written unless a trigger suppresses some
\* (bulk.rs 46-53, adapter.rs 231-233).
THEOREM OkIsTrue == Spec => []OkMeansWritten
  <1>1. IInv => OkMeansWritten
    <2> SUFFICES ASSUME IInv, result \in Nat
                 PROVE  /\ table = Kept(source, Len(source))
                        /\ result = Len(table) \/ \E i \in 1..Len(source) : source[i] = "unkept"
      BY DEF OkMeansWritten
    <2>1. table = Kept(source, Len(source)) /\ result = Len(source)
      BY DEF IInv, ServerInStep, ResultInStep
    <2>2. ASSUME \A i \in 1..Len(source) : source[i] # "unkept"
          PROVE  Len(table) = Len(source)
      <3> DEFINE n == Len(source)
                 rows == Positions(n)
      <3>1. n \in Nat
        BY SourceIsSeq DEF IInv
      <3>2. rows \in Seq(1..n) /\ Len(rows) = n /\ \A i \in 1..n : rows[i] = i
        BY <3>1 DEF Positions
      <3>3. \A i \in 1..Len(rows) : source[rows[i]] # "unkept"
        BY <2>2, <3>2
      <3> HIDE DEF rows
      <3>4. Through(source, rows) = rows
        BY <3>2, <3>3, ThroughAll
      <3>5. QED
        BY <2>1, <3>2, <3>4 DEF Kept, rows
    <2>3. QED
      BY <2>1, <2>2
  <1>2. QED
    BY <1>1, Invariance, PTL

\* The buffer stays below both thresholds but for the row that reaches one,
\* whatever the sizes of the rows (bulk.rs 14-16).
THEOREM BufferIsBounded == Spec => []BufferBound
  <1>1. IInv => BufferBound
    BY DEF IInv
  <1>2. QED
    BY <1>1, Invariance, PTL

-----------------------------------------------------------------------------
(* COPY implements the abstract bulk write.                                *)

\* The table holds some of the rows of the stream.
LEMMA KeptType == ASSUME NEW src, NEW n \in Nat PROVE Kept(src, n) \in Seq(1..n)
  <1>1. Positions(n) \in Seq(1..n)
    BY DEF Positions
  <1>2. QED
    BY <1>1, ThroughType DEF Kept

\* The types of all the variables follow from the invariant.
LEMMA TypesHold == IInv => TypeOK
  <1> SUFFICES ASSUME IInv PROVE TypeOK
    OBVIOUS
  <1>1. table \in Seq(1..Len(source))
    <2>1. Kept(source, Len(source)) \in Seq(1..Len(source))
      BY KeptType, SourceIsSeq DEF IInv
    <2>2. table = <<>> \/ table = Kept(source, Len(source))
      BY DEF IInv, ServerInStep
    <2>3. <<>> \in Seq(1..Len(source))
      OBVIOUS
    <2>4. QED
      BY <2>1, <2>2, <2>3
  <1>2. result \in Nat \cup {None, Failed, Dropped}
    BY DEF IInv, ResultInStep
  <1>3. QED
    BY <1>1, <1>2 DEF IInv, Types, ServerInStep, TypeOK

\* Every variable keeps its type, the table included, whatever the triggers
\* suppress (bulk.rs 30-53).
THEOREM TypeCorrectness == Spec => []TypeOK
  BY TypesHold, Invariance, PTL

\* The abstract module counts the rows and the items as this one does.
LEMMA SameRows ==
    /\ \A src, n : BW!Kept(src, n) = Kept(src, n)
    /\ \A src, kinds : BW!FirstOf(src, kinds) = FirstOf(src, kinds)
  <1>1. ASSUME NEW src, NEW n PROVE BW!Kept(src, n) = Kept(src, n)
    BY DEF BW!Kept, Kept, BW!Through, Through, BW!Positions, Positions
  <1>2. ASSUME NEW src, NEW kinds PROVE BW!FirstOf(src, kinds) = FirstOf(src, kinds)
    BY DEF BW!FirstOf, FirstOf, BW!Min, Min
  <1>3. QED
    BY <1>1, <1>2

\* Every row of a stream without an error or a bad row can be written.
LEMMA AllWritable ==
    ASSUME source \in Seq(Kinds), \A i \in 1..Len(source) : source[i] \notin {"error", "bad"}
    PROVE  BW!Writable = Len(source)
  <1>1. /\ FirstOf(source, {"error", "bad"}) \in 1..(Len(source) + 1)
        /\ FirstOf(source, {"error", "bad"}) <= Len(source) =>
              source[FirstOf(source, {"error", "bad"})] \in {"error", "bad"}
    BY FirstOfIs
  <1>2. FirstOf(source, {"error", "bad"}) = Len(source) + 1
    BY <1>1
  <1>3. QED
    BY <1>2, SameRows DEF BW!Writable

\* COPY writes the whole stream in one step or not at all, for every stream,
\* every pair of thresholds and every way to be cut short (bulk.rs 21-54).
THEOREM Refinement == Spec => ImplementsBulkWrite
  <1>1. Init => BW!Init
    BY DEF Init, BW!Init
  <1>2. IInv /\ IInv' /\ [Next]_vars => [BW!Next]_BW!vars
    <2> SUFFICES ASSUME IInv, IInv', [Next]_vars PROVE BW!Next \/ UNCHANGED BW!vars
      OBVIOUS
    <2> USE DEF local, server, Goto, BW!vars
    <2>0. ASSUME NEW how \in {Failed, Dropped}, pc # "returned", Return(how) PROVE BW!Next
      BY <2>0 DEF Return, IInv, ResultInStep, BW!Stop, BW!Next
    <2>1. CASE Start \/ Pull \/ Send \/ SourceEnd \/ SendLast \/ Finish
      BY <2>1 DEF Start, Pull, Send, SourceEnd, SendLast, Finish
    <2>2. CASE Confirm
      <3>1. CASE copy = "aborted"
        BY <2>2, <3>1 DEF Confirm, IInv, ResultInStep, BW!Stop, BW!Next
      <3>2. CASE copy = "committed"
        <4>1. result = None /\ total = Len(source) /\ table = Kept(source, Len(source))
          BY <2>2, <3>2 DEF Confirm, IInv, RowsInOrder, ServerInStep, ResultInStep
        <4>2. BW!Writable = Len(source)
          BY <3>2, AllWritable, SourceIsSeq DEF IInv, ItemsSeen
        <4>3. BW!ReturnOk
          BY <2>2, <3>2, <4>1, <4>2, SameRows DEF Confirm, BW!ReturnOk
        <4>4. QED
          BY <4>3 DEF BW!Next
      <3>3. QED
        BY <2>2, <3>1, <3>2 DEF Confirm, Verdict
    <2>3. CASE ServerCommit
      <3>1. source' = source /\ result' = result /\ copy' = "committed" /\ table = <<>>
        BY <2>3 DEF ServerCommit, IInv, ServerInStep
      <3>2. table' = Kept(source, Len(source)) /\ table' \in Seq(1..Len(source))
        BY <3>1, KeptType, SourceIsSeq DEF IInv, ServerInStep
      <3>3. CASE table' = <<>>
        BY <3>1, <3>3
      <3>4. CASE table' # <<>>
        <4>1. Len(source) \in Nat /\ Len(source) # 0 /\ Len(table') > 0 /\ Len(table) = 0
          BY <3>1, <3>2, <3>4, SourceIsSeq DEF IInv
        <4>2. \A i \in 1..Len(source) : source[i] \notin {"error", "bad"}
          BY <3>1 DEF IInv, ItemsSeen
        <4>3. BW!Writable = Len(source)
          BY <4>2, AllWritable, SourceIsSeq DEF IInv
        <4>4. BW!Write
          BY <3>1, <3>2, <4>1, <4>3, SameRows DEF BW!Write
        <4>5. QED
          BY <4>4 DEF BW!Next
      <3>5. QED
        BY <3>3, <3>4
    <2>4. CASE ServerReject \/ UNCHANGED vars
      BY <2>4 DEF ServerReject, vars
    <2>5. CASE SourceError \/ Break \/ Drop
      BY <2>0, <2>5 DEF SourceError, Break, Drop
    <2>6. QED
      BY <2>1, <2>2, <2>3, <2>4, <2>5 DEF Next, Client, Server
  <1>3. QED
    BY <1>1, <1>2, Invariance, PTL DEF Spec, ImplementsBulkWrite, BW!Spec

-----------------------------------------------------------------------------
(* The MySQL bulk write, and both of them.                                 *)

\* The types of what the MySQL side works with.
MyTypes ==
    /\ MySource \in Sources
    /\ myPc \in {"pulling", "flushing", "awaiting", "flushingRest", "awaitingRest", "returned"}
    /\ pos \in 0..Len(MySource)
    /\ batch \in Seq(1..Len(MySource)) /\ batchBytes \in Nat /\ myTotal \in Nat
    /\ maxRows \in {TargetRows, My!RowLimit}
    /\ insert \in {"none", "sent", "applied", "refused"}
    /\ myTable \in Seq(1..Len(MySource))
    /\ myResult \in Nat \cup {None, Failed, Dropped}

\* The rows taken from the stream are in the table or in the batch, in order;
\* an INSERT at the server is of the rows that follow those in the table.
MyRowsInOrder ==
    /\ \A i \in 1..Len(myTable) : myTable[i] = i
    /\ \A i \in 1..Len(batch) : batch[i] = pos - Len(batch) + i
    /\ Len(batch) <= pos /\ Len(myTable) <= pos
    /\ myPc # "returned" => pos = myTotal + Len(batch)
    /\ myPc \in {"pulling", "flushing", "flushingRest"} => insert = "none" /\ Len(myTable) = myTotal
    /\ myPc \in {"awaiting", "awaitingRest"} => insert # "none"
    /\ insert = "sent" => Len(myTable) = pos - Len(batch)
    /\ insert = "applied" => Len(myTable) = pos
    /\ myPc \in {"flushingRest", "awaitingRest"} => pos = Len(MySource)

\* A batch has at most as many rows as its limit, which the first row sets.
MyLimits ==
    /\ batch # <<>> \/ myTotal > 0 => maxRows = My!RowLimit
    /\ Len(batch) <= maxRows
    /\ myPc = "pulling" => Len(batch) < maxRows /\ batchBytes < ByteBudget
    /\ myPc \in {"flushing", "flushingRest", "awaiting", "awaitingRest"} \/ insert = "sent" => batch # <<>>

\* What is known of the items: no error or array was taken as a row, and the
\* server accepted no row it rejects.
MyItemsSeen ==
    /\ \A i \in 1..pos : MySource[i] \notin {"error", "array"}
    /\ \A i \in 1..Len(myTable) : MySource[i] # "bad"

\* Ok is returned when the table has all the rows and no INSERT is on its way.
MyResultInStep ==
    /\ myPc # "returned" => myResult = None
    /\ myResult \in Nat =>
          myResult = Len(MySource) /\ Len(myTable) = Len(MySource) /\ insert = "none"

\* The inductive invariant of the MySQL side.
MyInv == MyTypes /\ MyRowsInOrder /\ MyLimits /\ MyItemsSeen /\ MyResultInStep

-----------------------------------------------------------------------------
(* The limit of a batch.                                                   *)

\* The greater and the smaller of two numbers.
LEMMA OfTwo ==
    ASSUME NEW a \in Int, NEW b \in Int
    PROVE  /\ My!Max({a, b}) = IF a >= b THEN a ELSE b
           /\ My!Min({a, b}) = IF a <= b THEN a ELSE b
  BY DEF My!Max, My!Min

\* Products grow with their factors.
LEMMA ProductGrows ==
    ASSUME NEW a \in Nat, NEW b \in Nat, NEW c \in Nat, NEW d \in Nat, a <= b, c <= d
    PROVE  a * c <= b * d
  <1>1. a * c <= b * c
    OBVIOUS
  <1>2. b * c <= b * d
    OBVIOUS
  <1>3. a * c \in Nat /\ b * c \in Nat /\ b * d \in Nat
    OBVIOUS
  <1>4. QED
    BY <1>1, <1>2, <1>3

\* A quotient fits into what was divided.
LEMMA QuotientFits ==
    ASSUME NEW a \in Nat, NEW b \in Nat \ {0}
    PROVE  a \div b \in Nat /\ (a \div b) * b <= a
  OBVIOUS

\* A batch at its limit has no more placeholders than a statement may have.
LEMMA LimitFits ==
    /\ My!RowLimit \in 1..TargetRows
    /\ My!RowLimit * Columns <= MaxPlaceholders
  <1> DEFINE width == IF Columns >= 1 THEN Columns ELSE 1
             fit   == MaxPlaceholders \div width
             most  == IF TargetRows <= fit THEN TargetRows ELSE fit
  <1>1. /\ TargetRows \in Nat \ {0} /\ MaxPlaceholders \in Nat \ {0}
        /\ Columns \in Nat /\ Columns <= MaxPlaceholders
    BY BulkEnginesAssumption
  <1>2. width \in Nat \ {0} /\ Columns <= width
    BY <1>1
  <1>3. fit \in Nat /\ fit * width <= MaxPlaceholders
    BY <1>1, <1>2, QuotientFits
  <1>4. My!RowLimit = IF most >= 1 THEN most ELSE 1
    <2>1. My!Max({Columns, 1}) = width
      BY <1>1, OfTwo
    <2>2. My!Min({TargetRows, fit}) = most
      <3> HIDE DEF fit
      <3>1. TargetRows \in Int /\ fit \in Int
        BY <1>1, <1>3
      <3>2. QED
        BY <3>1, OfTwo
    <2>3. most \in Int
      BY <1>1, <1>3
    <2>4. My!Max({most, 1}) = IF most >= 1 THEN most ELSE 1
      BY <2>3, OfTwo
    <2>5. My!RowLimit = My!Max({My!Min({TargetRows, fit}), 1})
      BY <2>1 DEF My!RowLimit
    <2>6. QED
      BY <2>2, <2>4, <2>5
  <1> HIDE DEF fit, width
  <1>5. CASE most >= 1
    <2>1. most \in Nat /\ most <= fit /\ most <= TargetRows
      BY <1>1, <1>3
    <2>2. most * Columns <= fit * width
      BY <1>1, <1>2, <1>3, <2>1, ProductGrows
    <2>3. most * Columns \in Nat /\ fit * width \in Nat
      BY <1>1, <1>2, <1>3, <2>1
    <2>4. My!RowLimit = most
      BY <1>4, <1>5
    <2> HIDE DEF most
    <2>5. most * Columns <= MaxPlaceholders
      BY <1>1, <1>3, <2>2, <2>3
    <2>6. QED
      BY <1>1, <1>5, <2>1, <2>4, <2>5
  <1>6. CASE ~(most >= 1)
    BY <1>1, <1>4, <1>6
  <1>7. QED
    BY <1>5, <1>6

-----------------------------------------------------------------------------
(* The steps of the MySQL side.                                            *)

\* The numbers of rows, and the limits.
LEMMA MyNumbers ==
    ASSUME MyTypes
    PROVE  /\ MySource \in Seq(Kinds) /\ Len(MySource) \in Nat
           /\ Len(batch) \in Nat /\ Len(myTable) \in Nat /\ pos \in Nat
           /\ TargetRows \in Nat \ {0} /\ ByteBudget \in Nat \ {0} /\ maxRows \in Nat \ {0}
           /\ My!RowLimit \in Nat \ {0}
  BY SourceAssumption, BulkEnginesAssumption, LimitFits DEF MyTypes

\* A row goes into the batch.
LEMMA MyPullStep == ASSUME MyInv, My!Pull PROVE MyInv'
  <1>0. /\ MySource \in Seq(Kinds) /\ Len(MySource) \in Nat
        /\ Len(batch) \in Nat /\ Len(myTable) \in Nat /\ pos \in Nat
        /\ ByteBudget \in Nat \ {0} /\ maxRows \in Nat \ {0} /\ My!RowLimit \in Nat \ {0}
    BY MyNumbers DEF MyInv
  <1> USE DEF My!Pull, My!Goto
  <1>1. /\ myPc = "pulling" /\ pos' = pos + 1 /\ pos + 1 \in 1..Len(MySource)
        /\ MySource[pos + 1] \notin {"error", "array"}
        /\ MySource' = MySource /\ myTotal' = myTotal /\ myTable' = myTable /\ myResult' = myResult
        /\ insert' = insert /\ insert = "none"
    BY <1>0 DEF MyInv, MyTypes, MyRowsInOrder
  <1>2. /\ batch' \in Seq(1..Len(MySource)) /\ Len(batch') = Len(batch) + 1
        /\ \A i \in 1..Len(batch) : batch'[i] = batch[i]
        /\ batch'[Len(batch')] = pos + 1 /\ batch' # <<>>
    <2>1. batch' = Append(batch, pos + 1) /\ batch \in Seq(1..Len(MySource))
      BY <1>1 DEF MyInv, MyTypes
    <2> HIDE DEF My!Pull
    <2>2. QED
      BY <1>0, <1>1, <2>1
  <1>3. batchBytes' \in Nat
    <2>1. MySource[pos + 1] \in Kinds
      BY <1>0, <1>1 DEF MyInv
    <2>2. My!EstimatedRowBytes(MySource[pos + 1]) \in Nat
      BY <2>1, BulkEnginesAssumption DEF My!EstimatedRowBytes
    <2>3. QED
      BY <1>0, <1>1, <2>2 DEF MyInv, MyTypes
  <1>4. maxRows' = My!RowLimit
    BY <1>0 DEF MyInv, MyLimits, MyTypes
  <1>5. MyTypes'
    BY <1>0, <1>1, <1>2, <1>3, <1>4 DEF MyInv, MyTypes
  <1>6. MyRowsInOrder'
    <2>1. ASSUME NEW i \in 1..Len(batch') PROVE batch'[i] = pos' - Len(batch') + i
      <3>1. CASE i \in 1..Len(batch)
        BY <1>0, <1>1, <1>2, <3>1 DEF MyInv, MyRowsInOrder
      <3>2. CASE i = Len(batch')
        BY <1>0, <1>1, <1>2, <3>2 DEF MyInv
      <3>3. QED
        BY <1>0, <1>2, <3>1, <3>2 DEF MyInv
    <2>2. QED
      BY <1>0, <1>1, <1>2, <2>1 DEF MyInv, MyTypes, MyRowsInOrder
  <1>7. MyLimits'
    <2>1. Len(batch) < My!RowLimit
      <3>1. CASE batch = <<>>
        <4> HIDE DEF My!Pull
        <4>1. Len(batch) = 0
          BY <3>1
        <4>2. QED
          BY <1>0, <4>1
      <3>2. CASE batch # <<>>
        BY <1>0, <1>1, <3>2 DEF MyInv, MyLimits
      <3>3. QED
        BY <3>1, <3>2
    <2>2. My!Full \/ (Len(batch') < maxRows' /\ batchBytes' < ByteBudget)
      BY <1>0, <1>2, <1>3, <1>4, <1>5 DEF My!Full, MyInv
    <2>3. QED
      BY <1>0, <1>1, <1>2, <1>4, <2>1, <2>2 DEF MyInv, MyLimits
  <1>8. MyItemsSeen'
    <2>1. \A i \in 1..pos' : i \in 1..pos \/ i = pos + 1
      BY <1>0, <1>1 DEF MyInv
    <2>2. QED
      BY <1>0, <1>1, <2>1 DEF MyInv, MyItemsSeen
  <1>9. MyResultInStep'
    BY <1>0, <1>1, SourceAssumption DEF MyInv, MyResultInStep
  <1>10. QED
    BY <1>5, <1>6, <1>7, <1>8, <1>9 DEF MyInv

\* The end of the stream, and an INSERT that goes to the server.
LEMMA MyControlStep == ASSUME MyInv, My!SourceEnd \/ My!Execute PROVE MyInv'
  <1>0. /\ MySource \in Seq(Kinds) /\ Len(MySource) \in Nat
        /\ Len(batch) \in Nat /\ Len(myTable) \in Nat /\ pos \in Nat
        /\ TargetRows \in Nat \ {0} /\ ByteBudget \in Nat \ {0} /\ maxRows \in Nat \ {0}
        /\ (batch = <<>> <=> Len(batch) = 0)
    BY MyNumbers DEF MyInv, MyTypes
  <1> USE DEF My!SourceEnd, My!Execute, My!Goto, My!Return, My!local
  <1>1. MyTypes'
    BY DEF MyInv, MyTypes
  <1>2. MyRowsInOrder'
    <2>1. CASE My!SourceEnd
      BY <1>0, <2>1 DEF MyInv, MyRowsInOrder
    <2>2. CASE My!Execute
      BY <1>0, <2>2 DEF MyInv, MyRowsInOrder
    <2>3. QED
      BY <2>1, <2>2
  <1>3. MyLimits'
    BY DEF MyInv, MyTypes, MyLimits
  <1>4. MyItemsSeen'
    BY DEF MyInv, MyItemsSeen
  <1>5. MyResultInStep'
    BY <1>0, SourceAssumption DEF MyInv, MyTypes, MyRowsInOrder, MyResultInStep
  <1>6. QED
    BY <1>1, <1>2, <1>3, <1>4, <1>5 DEF MyInv

\* The answer to an INSERT that was applied.
LEMMA MyConfirmStep == ASSUME MyInv, My!Confirm \/ My!ConfirmRest PROVE MyInv'
  <1>0. /\ MySource \in Seq(Kinds) /\ Len(MySource) \in Nat
        /\ Len(batch) \in Nat /\ Len(myTable) \in Nat /\ pos \in Nat
        /\ TargetRows \in Nat \ {0} /\ ByteBudget \in Nat \ {0} /\ maxRows \in Nat \ {0}
        /\ (batch = <<>> <=> Len(batch) = 0)
    BY MyNumbers DEF MyInv, MyTypes
  <1> USE DEF My!Confirm, My!ConfirmRest, My!Goto, My!Return, My!Clear
  <1>1. MyTypes'
    <2>1. <<>> \in Seq(1..Len(MySource)) /\ myTotal + Len(batch) \in Nat
      BY <1>0 DEF MyInv, MyTypes
    <2>2. CASE My!Confirm
      BY <2>1, <2>2 DEF MyInv, MyTypes
    <2>3. CASE My!ConfirmRest
      BY <2>1, <2>3 DEF MyInv, MyTypes
    <2>4. QED
      BY <2>2, <2>3
  <1>2. MyRowsInOrder'
    <2>1. CASE My!Confirm
      <3>1. /\ Len(batch') = 0 /\ pos' = pos /\ myTable' = myTable /\ myTotal' = myTotal + Len(batch)
            /\ myPc = "awaiting" /\ myPc' = "pulling" /\ insert = "applied" /\ insert' = "none"
        BY <2>1
      <3> HIDE DEF My!Confirm
      <3>2. QED
        BY <1>0, <3>1 DEF MyInv, MyTypes, MyRowsInOrder
    <2>2. CASE My!ConfirmRest
      BY <1>0, <2>2 DEF MyInv, MyTypes, MyRowsInOrder
    <2>3. QED
      BY <2>1, <2>2
  <1>3. MyLimits'
    <2>1. CASE My!Confirm
      <3>1. batch # <<>> /\ maxRows = My!RowLimit /\ insert = "applied"
        BY <2>1 DEF MyInv, MyLimits
      <3>2. Len(batch') = 0 /\ batchBytes' = 0 /\ maxRows' = maxRows /\ insert' = "none"
        BY <2>1
      <3>3. myPc' = "pulling" /\ batch' = <<>>
        BY <2>1
      <3> HIDE DEF My!Confirm
      <3>4. QED
        BY <1>0, <3>1, <3>2, <3>3 DEF MyLimits
    <2>2. CASE My!ConfirmRest
      BY <2>2 DEF MyInv, MyTypes, MyLimits
    <2>3. QED
      BY <2>1, <2>2
  <1>4. MyItemsSeen'
    BY DEF MyInv, MyItemsSeen
  <1>5. MyResultInStep'
    BY <1>0, SourceAssumption DEF MyInv, MyTypes, MyRowsInOrder, MyResultInStep
  <1>6. QED
    BY <1>1, <1>2, <1>3, <1>4, <1>5 DEF MyInv

\* The ways to give up.
LEMMA MyReturnStep ==
    ASSUME MyInv, My!Refused \/ My!SourceError \/ My!Break \/ My!Drop PROVE MyInv'
  <1> USE MyNumbers DEF My!Refused, My!SourceError, My!Break, My!Drop, My!Goto, My!Return, My!local
  <1>1. /\ myPc' = "returned" /\ myResult' \in {Failed, Dropped}
        /\ insert' = insert \/ (insert = "sent" /\ insert' \in {"sent", "refused"})
        /\ UNCHANGED <<MySource, pos, batch, batchBytes, maxRows, myTotal, myTable>>
    BY DEF MyInv, MyTypes
  <1>2. MyTypes'
    BY <1>1 DEF MyInv, MyTypes
  <1>3. MyRowsInOrder'
    BY <1>1 DEF MyInv, MyRowsInOrder
  <1>4. MyLimits'
    BY <1>1 DEF MyInv, MyLimits
  <1>5. MyItemsSeen' /\ MyResultInStep'
    BY <1>1, SourceAssumption DEF MyInv, MyItemsSeen, MyResultInStep
  <1>6. QED
    BY <1>2, <1>3, <1>4, <1>5 DEF MyInv

\* The rows of an INSERT that is applied follow those in the table.
LEMMA Appended ==
    ASSUME MyInv, insert = "sent", myTable' = myTable \o batch
    PROVE  /\ myTable' \in Seq(1..Len(MySource)) /\ Len(myTable') = pos
           /\ \A i \in 1..Len(myTable') : myTable'[i] = i
           /\ \A i \in 1..Len(myTable') : i \in 1..Len(myTable)
                 \/ (i - Len(myTable) \in 1..Len(batch) /\ batch[i - Len(myTable)] = i)
  <1>0. /\ MySource \in Seq(Kinds) /\ Len(MySource) \in Nat
        /\ Len(batch) \in Nat /\ Len(myTable) \in Nat /\ pos \in Nat
        /\ TargetRows \in Nat \ {0} /\ ByteBudget \in Nat \ {0} /\ maxRows \in Nat \ {0}
        /\ (batch = <<>> <=> Len(batch) = 0)
    BY MyNumbers DEF MyInv, MyTypes
  <1>1. /\ myTable' \in Seq(1..Len(MySource))
        /\ Len(myTable') = Len(myTable) + Len(batch)
        /\ \A i \in 1..Len(myTable) : myTable'[i] = myTable[i]
        /\ \A i \in 1..Len(batch) : myTable'[Len(myTable) + i] = batch[i]
    BY <1>0 DEF MyInv, MyTypes
  <1>2. /\ Len(myTable) = pos - Len(batch)
        /\ \A i \in 1..Len(batch) : batch[i] = Len(myTable) + i
    BY <1>0 DEF MyInv, MyRowsInOrder
  <1>3. Len(myTable') = pos
    BY <1>0, <1>1, <1>2
  <1>4. ASSUME NEW i \in 1..Len(myTable'), i \notin 1..Len(myTable)
        PROVE  i - Len(myTable) \in 1..Len(batch) /\ batch[i - Len(myTable)] = i /\ myTable'[i] = i
    <2>1. i - Len(myTable) \in 1..Len(batch) /\ Len(myTable) + (i - Len(myTable)) = i
      BY <1>0, <1>1, <1>4
    <2>2. QED
      BY <1>1, <1>2, <2>1
  <1>5. ASSUME NEW i \in 1..Len(myTable') PROVE myTable'[i] = i
    BY <1>1, <1>4 DEF MyInv, MyRowsInOrder
  <1>6. ASSUME NEW i \in 1..Len(myTable')
        PROVE  i \in 1..Len(myTable)
                  \/ (i - Len(myTable) \in 1..Len(batch) /\ batch[i - Len(myTable)] = i)
    BY <1>4
  <1>7. QED
    BY <1>1, <1>3, <1>5, <1>6

\* The server applies an INSERT or refuses it.
LEMMA MyServerStep == ASSUME MyInv, My!Server PROVE MyInv'
  <1> USE MyNumbers DEF My!Server, My!ServerApply, My!ServerRefuse, My!local
  <1>1. CASE My!ServerRefuse
    <2>1. insert = "sent" /\ insert' = "refused"
            /\ UNCHANGED <<MySource, myPc, pos, batch, batchBytes, maxRows, myTotal, myTable, myResult>>
      BY <1>1
    <2>2. QED
      BY <2>1 DEF MyInv, MyTypes, MyRowsInOrder, MyLimits, MyItemsSeen, MyResultInStep
  <1>2. CASE My!ServerApply
    <2>1. /\ insert = "sent" /\ insert' = "applied" /\ myTable' = myTable \o batch
          /\ \A i \in 1..Len(batch) : MySource[batch[i]] # "bad"
          /\ UNCHANGED <<MySource, myPc, pos, batch, batchBytes, maxRows, myTotal, myResult>>
      BY <1>2 DEF My!Accepted
    <2>2. /\ myTable' \in Seq(1..Len(MySource)) /\ Len(myTable') = pos
          /\ \A i \in 1..Len(myTable') : myTable'[i] = i
          /\ \A i \in 1..Len(myTable') : i \in 1..Len(myTable)
                \/ (i - Len(myTable) \in 1..Len(batch) /\ batch[i - Len(myTable)] = i)
      BY <2>1, Appended
    <2>3. MyTypes' /\ MyLimits'
      BY <2>1, <2>2 DEF MyInv, MyTypes, MyLimits
    <2>4. MyRowsInOrder'
      <3>1. Len(batch) \in Nat /\ pos \in Nat
        BY MyNumbers DEF MyInv
      <3>2. \A i \in 1..Len(batch') : batch'[i] = pos' - Len(batch') + i
        BY <2>1 DEF MyInv, MyRowsInOrder
      <3>3. myPc \notin {"pulling", "flushing", "flushingRest"} /\ Len(batch) <= pos
        BY <2>1 DEF MyInv, MyRowsInOrder
      <3>4. \A i \in 1..Len(myTable') : myTable'[i] = i
        BY <2>2
      <3> HIDE DEF My!ServerApply
      <3>5. QED
        BY <2>1, <2>2, <3>1, <3>2, <3>3, <3>4 DEF MyInv, MyRowsInOrder
    <2>5. MyItemsSeen'
      <3>1. ASSUME NEW i \in 1..Len(myTable') PROVE MySource[i] # "bad"
        <4>1. CASE i \in 1..Len(myTable)
          BY <4>1 DEF MyInv, MyItemsSeen
        <4>2. CASE i - Len(myTable) \in 1..Len(batch) /\ batch[i - Len(myTable)] = i
          BY <2>1, <4>2
        <4>3. QED
          BY <2>2, <4>1, <4>2
      <3>2. \A i \in 1..pos' : MySource'[i] \notin {"error", "array"}
        BY <2>1 DEF MyInv, MyItemsSeen
      <3>3. \A i \in 1..Len(myTable') : MySource'[i] # "bad"
        BY <2>1, <3>1
      <3>4. QED
        BY <3>2, <3>3 DEF MyItemsSeen
    <2>6. MyResultInStep'
      BY <2>1 DEF MyInv, MyResultInStep
    <2>7. QED
      BY <2>3, <2>4, <2>5, <2>6 DEF MyInv
  <1>3. QED
    BY <1>1, <1>2

\* Every step of the MySQL side keeps its invariant.
LEMMA MyStepInv == MyInv /\ [My!Next]_My!vars => MyInv'
  <1> SUFFICES ASSUME MyInv, [My!Next]_My!vars PROVE MyInv'
    OBVIOUS
  <1>1. CASE My!Next
    BY <1>1, MyPullStep, MyControlStep, MyConfirmStep, MyReturnStep, MyServerStep
    DEF My!Next, My!Client
  <1>2. CASE UNCHANGED My!vars
    BY <1>2 DEF My!vars, My!local, MyInv, MyTypes, MyRowsInOrder, MyLimits, MyItemsSeen, MyResultInStep
  <1>3. QED
    BY <1>1, <1>2

\* The MySQL side starts in its invariant.
LEMMA MyInitInv == My!Init => MyInv
  <1> SUFFICES ASSUME My!Init PROVE MyInv
    OBVIOUS
  <1>1. MySource \in Seq(Kinds) /\ <<>> \in Seq(1..Len(MySource)) /\ Len(<<>>) = 0
    BY SourceAssumption DEF My!Init
  <1>2. QED
    BY <1>1, SourceAssumption, BulkEnginesAssumption, LimitFits
    DEF My!Init, MyInv, MyTypes, MyRowsInOrder, MyLimits, MyItemsSeen, MyResultInStep

-----------------------------------------------------------------------------
(* Both sides together.                                                    *)

\* Every step is a step of the Postgres side or leaves it as it is.
LEMMA PgSide == [EnginesNext]_<<vars, myVars>> => [Next]_vars
  BY DEF EnginesNext, vars

\* The stream stays what it is.
LEMMA SourceFixed == Next => source' = source
  BY DEF Next, Client, Server, Start, Pull, Send, SourceEnd, SendLast, Finish, Confirm,
         SourceError, ServerCommit, ServerReject, Break, Drop, Return

\* Every step is a step of the MySQL side or leaves it as it is.
LEMMA MySide == [EnginesNext]_<<vars, myVars>> => [My!Next]_My!vars
  <1> SUFFICES ASSUME EnginesNext \/ UNCHANGED <<vars, myVars>>
               PROVE  My!Next \/ UNCHANGED My!vars
    OBVIOUS
  <1>1. source' = source /\ UNCHANGED myVars => UNCHANGED My!vars
    BY DEF My!vars, My!local, myVars, MySource
  <1>2. CASE Next /\ UNCHANGED myVars
    BY <1>1, <1>2, SourceFixed
  <1>3. CASE My!Next
    BY <1>3
  <1>4. CASE UNCHANGED <<vars, myVars>>
    BY <1>1, <1>4 DEF vars
  <1>5. QED
    BY <1>2, <1>3, <1>4 DEF EnginesNext

\* The invariants of both sides hold in every reachable state.
THEOREM EnginesInvariance == EnginesSpec => [](IInv /\ MyInv)
  <1>1. EnginesInit => IInv /\ MyInv
    BY MyInitInv, InitInv DEF EnginesInit
  <1>2. IInv /\ MyInv /\ [EnginesNext]_<<vars, myVars>> => (IInv /\ MyInv)'
    BY PgSide, MySide, StepInv, MyStepInv
  <1>3. QED
    BY <1>1, <1>2, PTL DEF EnginesSpec

\* The types of both sides hold, and a batch never outgrows the limit that its
\* first row set, whatever the limits are (bulk.rs 30-44; MySQL bulk.rs 36-61).
THEOREM BothKeepTheirTypes == EnginesSpec => []BulkTypeOK
  <1>1. ASSUME MyInv PROVE My!TypeOK
    <2>1. maxRows \in 1..TargetRows
      BY <1>1, LimitFits, BulkEnginesAssumption DEF MyInv, MyTypes
    <2>2. QED
      BY <1>1, <2>1 DEF MyInv, MyTypes, MyLimits, My!TypeOK
  <1>2. IInv /\ MyInv => BulkTypeOK
    BY <1>1, TypesHold DEF BulkTypeOK
  <1>3. QED
    BY <1>2, EnginesInvariance, PTL

\* No INSERT has more placeholders than the protocol allows, for every number
\* of columns and every target (MySQL bulk.rs 25-27).
THEOREM PlaceholdersFit == EnginesSpec => []PlaceholderCap
  <1>1. ASSUME MyInv PROVE PlaceholderCap
    <2> SUFFICES ASSUME My!Awaiting PROVE Len(batch) * Columns <= MaxPlaceholders
      BY DEF PlaceholderCap, My!PlaceholderCap
    <2>1. Len(batch) <= My!RowLimit
      BY <1>1 DEF My!Awaiting, MyInv, MyLimits
    <2>2. Len(batch) \in Nat /\ My!RowLimit \in Nat /\ Columns \in Nat /\ MaxPlaceholders \in Nat
      BY <1>1, MyNumbers, BulkEnginesAssumption DEF MyInv
    <2>3. Len(batch) * Columns <= My!RowLimit * Columns
      BY <2>1, <2>2, ProductGrows
    <2>4. My!RowLimit * Columns <= MaxPlaceholders
      BY LimitFits
    <2> DEFINE had == Len(batch) * Columns
               fits == My!RowLimit * Columns
    <2>5. had \in Nat /\ fits \in Nat
      BY <2>2
    <2>6. had <= fits /\ fits <= MaxPlaceholders
      BY <2>3, <2>4
    <2> HIDE DEF had, fits
    <2>7. had <= MaxPlaceholders
      BY <2>2, <2>5, <2>6
    <2>8. QED
      BY <2>7 DEF had
  <1>2. QED
    BY <1>1, EnginesInvariance, PTL

\* No row is an unkept one for MySQL, and the other kinds are what they were.
LEMMA MyKinds ==
    ASSUME Types
    PROVE  /\ Len(MySource) = Len(source)
           /\ \A i \in 1..Len(source) : MySource[i] # "unkept"
           /\ \A i \in 1..Len(source) :
                 source[i] # "unkept" => MySource[i] = source[i]
  <1>1. source \in Seq(Kinds) /\ Len(source) \in Nat
    BY SourceIsSeq
  <1>2. Len(MySource) = Len(source)
    BY <1>1 DEF MySource
  <1>3. \A i \in 1..Len(source) : MySource[i] = OnMySql(source[i])
    BY DEF MySource
  <1>4. QED
    BY <1>2, <1>3 DEF OnMySql

\* A sequence that holds its own positions.
LEMMA OwnPositions ==
    ASSUME NEW S, NEW seq \in Seq(S), \A i \in 1..Len(seq) : seq[i] = i
    PROVE  seq = Positions(Len(seq))
  <1>1. seq = [i \in 1..Len(seq) |-> seq[i]]
    OBVIOUS
  <1>2. QED
    BY <1>1 DEF Positions

\* The table holds the first rows in order.
LEMMA MyTableIs ==
    ASSUME MyInv PROVE myTable = Positions(Len(myTable))
  BY OwnPositions DEF MyInv, MyTypes, MyRowsInOrder

\* What both engines accept they report and store alike, for every stream, every
\* pair of batch and buffer sizes and every way to fail; neither accepts a
\* stream that breaks off or has a row its server rejects (bulk.rs 34-53; MySQL
\* bulk.rs 42-67).
THEOREM BothAccept == EnginesSpec => []EnginesAgree
  <1>1. ASSUME IInv, MyInv PROVE EnginesAgree
    <2>0. Len(MySource) = Len(source) /\ Len(source) \in Nat
      BY <1>1, MyKinds, SourceIsSeq DEF IInv
    <2>1. ASSUME result \in Nat
          PROVE  /\ result = Len(source) /\ table = Kept(source, Len(source))
                 /\ \A i \in 1..Len(source) : source[i] \notin {"error", "bad"}
      BY <1>1, <2>1 DEF IInv, ResultInStep, ServerInStep, ItemsSeen
    <2>2. ASSUME myResult \in Nat
          PROVE  /\ myResult = Len(source) /\ myTable = Positions(Len(source))
                 /\ \A i \in 1..Len(source) : source[i] \notin {"error", "bad"}
      <3>1. myResult = Len(source) /\ Len(myTable) = Len(source)
        BY <1>1, <2>0, <2>2 DEF MyInv, MyResultInStep
      <3>2. pos = Len(source)
        BY <1>1, <2>0, <3>1 DEF MyInv, MyTypes, MyRowsInOrder
      <3>3. \A i \in 1..Len(source) : MySource[i] \notin {"error", "array", "bad"}
        BY <1>1, <3>1, <3>2 DEF MyInv, MyItemsSeen
      <3>4. \A i \in 1..Len(source) : source[i] \notin {"error", "bad"}
        BY <1>1, <3>3, MyKinds DEF IInv
      <3>5. QED
        BY <1>1, <3>1, <3>4, MyTableIs
    <2>3. QED
      BY <2>1, <2>2 DEF EnginesAgree, Kept
  <1>2. QED
    BY <1>1, EnginesInvariance, PTL
-----------------------------------------------------------------------------
(* The MySQL side implements the abstract bulk write, without atomicity.   *)

\* The abstract module counts the rows and the items as this one does.
LEMMA MySameRows ==
    /\ \A src, n : My!BW!Kept(src, n) = Kept(src, n)
    /\ \A src, kinds : My!BW!FirstOf(src, kinds) = FirstOf(src, kinds)
  <1>1. ASSUME NEW src, NEW n PROVE My!BW!Kept(src, n) = Kept(src, n)
    BY DEF My!BW!Kept, Kept, My!BW!Through, Through, My!BW!Positions, Positions
  <1>2. ASSUME NEW src, NEW kinds PROVE My!BW!FirstOf(src, kinds) = FirstOf(src, kinds)
    BY DEF My!BW!FirstOf, FirstOf, My!BW!Min, Min
  <1>3. QED
    BY <1>1, <1>2

\* MySQL keeps all the rows it is given.
LEMMA MyKeepsAll ==
    ASSUME Types, NEW n \in 0..Len(source)
    PROVE  My!BW!Kept(MySource, n) = Positions(n)
  <1>1. /\ Positions(n) \in Seq(1..n) /\ Len(Positions(n)) = n
        /\ \A i \in 1..n : Positions(n)[i] = i
    BY DEF Positions
  <1>2. \A i \in 1..Len(Positions(n)) : MySource[Positions(n)[i]] # "unkept"
    BY <1>1, MyKinds, SourceIsSeq
  <1>3. Through(MySource, Positions(n)) = Positions(n)
    BY <1>1, <1>2, ThroughAll
  <1>4. QED
    BY <1>3, MySameRows DEF Kept

\* The rows before the first item that cannot be written.
LEMMA MyWritable ==
    ASSUME MyInv, NEW n \in 0..Len(MySource),
           \A i \in 1..n : MySource[i] \notin {"error", "bad", "array"}
    PROVE  My!BW!Writable \in Nat /\ n <= My!BW!Writable /\ My!BW!Writable <= Len(MySource)
  <1> DEFINE first == FirstOf(MySource, {"error", "bad", "array"})
  <1>1. MySource \in Seq(Kinds) /\ Len(MySource) \in Nat
    BY MyNumbers DEF MyInv
  <1>2. /\ first \in 1..(Len(MySource) + 1)
        /\ first <= Len(MySource) => MySource[first] \in {"error", "bad", "array"}
    BY <1>1, FirstOfIs
  <1>3. My!BW!Writable = first - 1
    BY MySameRows DEF My!BW!Writable
  <1> HIDE DEF first
  <1>4. ~(first <= n)
    BY <1>1, <1>2
  <1>5. QED
    BY <1>1, <1>2, <1>3, <1>4

\* Ok is said with all the rows in the table.
LEMMA MyOkStep ==
    ASSUME IInv, MyInv, pos = Len(MySource), Len(myTable) = pos,
           myResult = None, myResult' = pos, UNCHANGED <<MySource, myTable>>
    PROVE  My!BW!ReturnOk
  <1>1. Len(MySource) = Len(source) /\ Len(MySource) \in Nat
    BY MyKinds, SourceIsSeq DEF IInv
  <1>2. My!BW!Kept(MySource, Len(MySource)) = myTable
    BY <1>1, MyKeepsAll, MyTableIs DEF IInv
  <1>3. \A i \in 1..Len(MySource) : MySource[i] \notin {"error", "bad", "array"}
    BY DEF MyInv, MyItemsSeen
  <1>4. My!BW!Writable = Len(MySource)
    BY <1>1, <1>3, MyWritable
  <1>5. QED
    BY <1>2, <1>4 DEF My!BW!ReturnOk

\* An INSERT that is applied writes the rows up to the last one taken.
LEMMA MyApplyStep ==
    ASSUME IInv, MyInv, MyInv', My!ServerApply, UNCHANGED MySource
    PROVE  My!BW!Write
  <1>1. /\ insert = "sent" /\ insert' = "applied" /\ myTable' = myTable \o batch
        /\ UNCHANGED <<MySource, pos, batch, myResult>>
    BY DEF My!ServerApply, My!local
  <1>2. /\ Len(batch) \in Nat /\ Len(batch) # 0 /\ Len(myTable) = pos - Len(batch)
        /\ pos \in 0..Len(MySource) /\ pos # 0 /\ Len(myTable') = pos
    <2>1. batch # <<>> /\ batch \in Seq(1..Len(MySource))
      BY <1>1 DEF MyInv, MyTypes, MyLimits
    <2>2. /\ Len(myTable) = pos - Len(batch) /\ Len(batch) <= pos
          /\ pos \in 0..Len(MySource)
      BY <1>1 DEF MyInv, MyTypes, MyRowsInOrder
    <2>3. Len(batch) \in Nat /\ Len(batch) # 0
      BY <2>1
    <2>4. QED
      BY <1>1, <2>2, <2>3, Appended
  <1>3. myTable' = Positions(pos)
    BY <1>2, OwnPositions DEF MyInv, MyTypes, MyRowsInOrder
  <1>4. \A i \in 1..pos : MySource[i] \notin {"error", "bad", "array"}
    BY <1>1, <1>2 DEF MyInv, MyItemsSeen
  <1>5. My!BW!Writable \in Nat /\ pos <= My!BW!Writable
    BY <1>2, <1>4, MyWritable
  <1>6. Len(MySource) = Len(source) /\ Len(source) \in Nat
    BY MyKinds, SourceIsSeq DEF IInv
  <1>7. My!BW!Kept(MySource, pos) = Positions(pos)
    BY <1>2, <1>6, MyKeepsAll DEF IInv
  <1>8. /\ pos \in 1..My!BW!Writable
        /\ Len(myTable) < Len(My!BW!Kept(MySource, pos))
        /\ myTable' = My!BW!Kept(MySource, pos)
    BY <1>2, <1>3, <1>5, <1>7
  <1>9. QED
    BY <1>1, <1>8 DEF My!BW!Write

\* Whatever fails, the MySQL table holds the first rows of the stream, in order
\* and each once, and Ok is returned only with all of them: for every stream,
\* every limit of a batch and every way to be cut short (MySQL bulk.rs 31-68).
THEOREM MySqlRefinement == EnginesSpec => MySqlImplements
  <1>1. My!Init => My!BW!Init
    BY DEF My!Init, My!BW!Init
  <1>2. ASSUME IInv, MyInv, MyInv', [My!Next]_My!vars
        PROVE  [My!BW!Next]_My!BW!vars
    <2> SUFFICES My!BW!Next \/ UNCHANGED My!BW!vars
      OBVIOUS
    <2> USE <1>2 DEF My!local, My!Goto, My!Return, My!BW!vars
    <2>1. CASE My!Pull \/ My!Execute \/ My!Confirm \/ My!ServerRefuse \/ UNCHANGED My!vars
      BY <2>1 DEF My!Pull, My!Execute, My!Confirm, My!ServerRefuse, My!vars
    <2>2. CASE My!SourceEnd
      <3>1. CASE batch # <<>>
        BY <2>2, <3>1 DEF My!SourceEnd
      <3>2. CASE batch = <<>>
        <4>1. Len(batch) = 0 /\ myTotal \in Nat
          BY <3>2 DEF MyInv, MyTypes
        <4>2. /\ pos = Len(MySource) /\ Len(myTable) = pos /\ myResult = None
              /\ myResult' = pos /\ UNCHANGED <<MySource, myTable>>
          BY <2>2, <3>2, <4>1 DEF My!SourceEnd, MyInv, MyRowsInOrder, MyResultInStep
        <4>3. QED
          BY <4>2, MyOkStep DEF My!BW!Next
      <3>3. QED
        BY <3>1, <3>2
    <2>3. CASE My!ConfirmRest
      <3>1. /\ pos = Len(MySource) /\ Len(myTable) = pos /\ myResult = None
            /\ myResult' = pos /\ UNCHANGED <<MySource, myTable>>
        BY <2>3 DEF My!ConfirmRest, MyInv, MyRowsInOrder, MyResultInStep
      <3>2. QED
        BY <3>1, MyOkStep DEF My!BW!Next
    <2>4. CASE My!ServerApply
      <3>1. UNCHANGED MySource
        BY <2>4 DEF My!ServerApply
      <3>2. QED
        BY <2>4, <3>1, MyApplyStep DEF My!BW!Next
    <2>5. CASE My!Refused \/ My!SourceError \/ My!Break \/ My!Drop
      <3>1. /\ myResult = None /\ myResult' \in {Failed, Dropped}
            /\ UNCHANGED <<MySource, myTable>>
        BY <2>5 DEF My!Refused, My!SourceError, My!Break, My!Drop, My!Awaiting, MyInv,
                    MyResultInStep
      <3>2. QED
        BY <3>1 DEF My!BW!Stop, My!BW!Next
    <2>6. QED
      BY <2>1, <2>2, <2>3, <2>4, <2>5 DEF My!Next, My!Client, My!Server
  <1>3. EnginesInit => My!BW!Init
    BY <1>1 DEF EnginesInit
  <1>4. IInv /\ MyInv /\ MyInv' /\ [EnginesNext]_<<vars, myVars>> => [My!BW!Next]_My!BW!vars
    BY <1>2, MySide
  <1>5. QED
    BY <1>3, <1>4, EnginesInvariance, PTL
    DEF EnginesSpec, MySqlImplements, My!ImplementsBulkWrite, My!BW!Spec
-----------------------------------------------------------------------------
(* The size of an INSERT.                                                  *)

\* The function that SumOver is computed by, for the first n rows of a batch.
IsSum(sum, src, seq, n) ==
    sum = [i \in 0..n |-> IF i = 0 THEN 0 ELSE sum[i - 1] + WireOf[src[seq[i]]]]

\* What the rows of a batch take in the INSERT: SumOver of any stream.
Weight(src, seq) ==
    LET sum[i \in 0..Len(seq)] == IF i = 0 THEN 0 ELSE sum[i - 1] + WireOf[src[seq[i]]]
    IN  sum[Len(seq)]

\* What the function is at every number.
LEMMA SumAt ==
    ASSUME NEW sum, NEW src, NEW seq, NEW n \in Nat, IsSum(sum, src, seq, n)
    PROVE  /\ sum[0] = 0
           /\ \A i \in 1..n : sum[i] = sum[i - 1] + WireOf[src[seq[i]]]
  <1> DEFINE f == [i \in 0..n |-> IF i = 0 THEN 0 ELSE sum[i - 1] + WireOf[src[seq[i]]]]
  <1>1. sum = f
    BY DEF IsSum
  <1>2. f[0] = 0
    OBVIOUS
  <1>3. ASSUME NEW i \in 1..n PROVE f[i] = sum[i - 1] + WireOf[src[seq[i]]]
    <2>1. i \in 0..n /\ i # 0
      OBVIOUS
    <2>2. QED
      BY <2>1, Zenon
  <1> HIDE DEF f
  <1>4. QED
    BY <1>1, <1>2, <1>3, Zenon

\* There is such a function, for every number of rows.
LEMMA SumExists ==
    ASSUME NEW src, NEW seq, NEW n \in Nat
    PROVE  \E sum : IsSum(sum, src, seq, n)
  <1> DEFINE T == {m \in Nat : \E sum : IsSum(sum, src, seq, m)}
  <1>1. 0 \in T
    <2>1. IsSum([i \in 0..0 |-> 0], src, seq, 0)
      BY DEF IsSum
    <2>2. QED
      BY <2>1
  <1>2. ASSUME NEW m \in T PROVE m + 1 \in T
    <2>1. PICK sum : IsSum(sum, src, seq, m)
      OBVIOUS
    <2> DEFINE next == sum[m] + WireOf[src[seq[m + 1]]]
               more == [i \in 0..(m + 1) |-> IF i = m + 1 THEN next ELSE sum[i]]
    <2>2. \A i \in 0..(m + 1) :
             more[i] = IF i = 0 THEN 0 ELSE more[i - 1] + WireOf[src[seq[i]]]
      <3>1. \A i \in 0..m : more[i] = sum[i]
        OBVIOUS
      <3>2. more[m + 1] = next /\ more[(m + 1) - 1] = sum[m]
        OBVIOUS
      <3>3. ASSUME NEW i \in 1..m PROVE sum[i] = sum[i - 1] + WireOf[src[seq[i]]]
        BY <2>1, SumAt
      <3>4. sum[0] = 0
        BY <2>1, SumAt
      <3> HIDE DEF more
      <3>5. \A i \in 1..m : i - 1 \in 0..m
        OBVIOUS
      <3>6. QED
        BY <3>1, <3>2, <3>3, <3>4, <3>5
    <2>3. IsSum(more, src, seq, m + 1)
      <3> HIDE DEF next
      <3>1. more = [i \in 0..(m + 1) |-> more[i]]
        OBVIOUS
      <3> HIDE DEF more
      <3>2. QED
        BY <2>2, <3>1 DEF IsSum
    <2>4. QED
      BY <2>3
  <1> HIDE DEF T
  <1>3. T = Nat
    BY <1>1, <1>2, AllNumbers DEF T
  <1>4. QED
    BY <1>3 DEF T

\* What Weight returns is what that function ends with.
LEMMA WeightIs ==
    ASSUME NEW src, NEW seq, Len(seq) \in Nat
    PROVE  \E sum : IsSum(sum, src, seq, Len(seq)) /\ Weight(src, seq) = sum[Len(seq)]
  <1>1. Weight(src, seq) = (CHOOSE sum : IsSum(sum, src, seq, Len(seq)))[Len(seq)]
    BY DEF Weight, IsSum
  <1>2. \E sum : IsSum(sum, src, seq, Len(seq))
    BY SumExists
  <1>3. QED
    BY <1>1, <1>2

\* An empty batch takes nothing.
LEMMA WeightOfNone == ASSUME NEW src PROVE Weight(src, <<>>) = 0
  <1>1. Len(<<>>) = 0
    OBVIOUS
  <1>2. PICK sum : IsSum(sum, src, <<>>, 0) /\ Weight(src, <<>>) = sum[0]
    BY <1>1, WeightIs
  <1>3. QED
    BY <1>2, SumAt

\* A row adds what it takes.
LEMMA WeightGrows ==
    ASSUME NEW src \in Seq(Kinds), NEW seq \in Seq(1..Len(src)), NEW p \in 1..Len(src)
    PROVE  /\ Weight(src, seq) \in Nat
           /\ Weight(src, Append(seq, p)) = Weight(src, seq) + WireOf[src[p]]
  <1> DEFINE n    == Len(seq)
             long == Append(seq, p)
  <1>1. /\ n \in Nat /\ Len(long) = n + 1 /\ long[n + 1] = p
        /\ \A i \in 1..n : long[i] = seq[i]
    OBVIOUS
  <1>2. PICK sum : IsSum(sum, src, seq, n) /\ Weight(src, seq) = sum[n]
    BY <1>1, WeightIs
  <1>3. PICK more : IsSum(more, src, long, n + 1) /\ Weight(src, long) = more[n + 1]
    <2>1. Len(long) \in Nat
      BY <1>1
    <2>2. \E more : IsSum(more, src, long, Len(long)) /\ Weight(src, long) = more[Len(long)]
      BY <2>1, WeightIs, Zenon
    <2>3. QED
      BY <1>1, <2>2
  <1>4. \A i \in 1..n : WireOf[src[seq[i]]] \in Nat
    <2>1. ASSUME NEW i \in 1..n PROVE src[seq[i]] \in Kinds
      OBVIOUS
    <2>2. WireOf \in [Kinds -> Nat]
      BY BulkEnginesAssumption
    <2>3. QED
      BY <2>1, <2>2
  <1> HIDE DEF n, long
  <1> DEFINE T == {m \in Nat : m <= n => sum[m] = more[m] /\ sum[m] \in Nat}
  <1>5. 0 \in T
    BY <1>1, <1>2, <1>3, SumAt
  <1>6. ASSUME NEW m \in T PROVE m + 1 \in T
    <2> SUFFICES ASSUME m + 1 <= n PROVE sum[m + 1] = more[m + 1] /\ sum[m + 1] \in Nat
      OBVIOUS
    <2>1. /\ m \in Nat /\ m <= n /\ m + 1 \in 1..n /\ m + 1 \in 1..(n + 1) /\ (m + 1) - 1 = m
          /\ sum[m] = more[m] /\ sum[m] \in Nat
      BY <1>1
    <2> HIDE DEF T
    <2>2. sum[m + 1] = sum[m] + WireOf[src[seq[m + 1]]]
      BY <1>1, <1>2, <2>1, SumAt
    <2>3. n + 1 \in Nat
      BY <1>1
    <2>4. more[m + 1] = more[m] + WireOf[src[long[m + 1]]]
      BY <1>3, <2>1, <2>3, SumAt
    <2>5. QED
      BY <1>1, <1>4, <2>1, <2>2, <2>4
  <1> HIDE DEF T
  <1>7. T = Nat
    BY <1>5, <1>6, AllNumbers DEF T
  <1>8. sum[n] = more[n] /\ sum[n] \in Nat
    BY <1>1, <1>7 DEF T
  <1>9. more[n + 1] = more[n] + WireOf[src[long[n + 1]]]
    <2>1. n + 1 \in Nat /\ n + 1 \in 1..(n + 1) /\ (n + 1) - 1 = n
      BY <1>1
    <2>2. QED
      BY <1>3, <2>1, SumAt
  <1>10. Weight(src, long) = Weight(src, seq) + WireOf[src[p]]
    BY <1>1, <1>2, <1>3, <1>8, <1>9
  <1>11. QED
    BY <1>2, <1>8, <1>10 DEF long

\* No row of a stream takes more than it is taken for: the streams have no
\* document that is larger than its fixed estimate (MySQL bulk.rs 71-89).
EstimatesHold ==
    \A stream \in Sources : \A i \in 1..Len(stream) :
        WireOf[stream[i]] <= My!EstimatedRowBytes(stream[i])

\* The batch takes at most what its rows were taken for, and stays below the
\* budget but for its last row.
MyBytes ==
    /\ Weight(MySource, batch) \in Nat /\ Weight(MySource, batch) <= batchBytes
    /\ batch # <<>> =>
          Weight(MySource, batch) < ByteBudget + WireOf[MySource[batch[Len(batch)]]]

\* The counted bytes cover a batch, with every row and every INSERT.
LEMMA MyBytesStep ==
    ASSUME EstimatesHold, MyInv, MyBytes, [My!Next]_My!vars
    PROVE  MyBytes'
  <1>0. /\ MySource \in Seq(Kinds) /\ MySource \in Sources /\ batch \in Seq(1..Len(MySource))
        /\ pos \in 0..Len(MySource) /\ ByteBudget \in Nat /\ batchBytes \in Nat
        /\ Len(MySource) \in Nat
    BY MyNumbers DEF MyInv, MyTypes
  <1>1. CASE My!Pull
    <2>1. /\ myPc = "pulling" /\ pos' = pos + 1 /\ pos + 1 \in 1..Len(MySource)
          /\ MySource' = MySource /\ batch' = Append(batch, pos + 1)
          /\ batchBytes' = batchBytes + My!EstimatedRowBytes(MySource[pos + 1])
      BY <1>0, <1>1 DEF My!Pull
    <2>2. batchBytes < ByteBudget
      BY <2>1 DEF MyInv, MyLimits
    <2>3. /\ MySource[pos + 1] \in Kinds
          /\ WireOf[MySource[pos + 1]] \in Nat
          /\ My!EstimatedRowBytes(MySource[pos + 1]) \in Nat
          /\ WireOf[MySource[pos + 1]] <= My!EstimatedRowBytes(MySource[pos + 1])
      <3>1. MySource[pos + 1] \in Kinds
        BY <1>0, <2>1
      <3>2. QED
        BY <1>0, <2>1, <3>1, BulkEnginesAssumption DEF EstimatesHold, My!EstimatedRowBytes
    <2>4. /\ Weight(MySource, batch) \in Nat
          /\ Weight(MySource, batch') = Weight(MySource, batch) + WireOf[MySource[pos + 1]]
      BY <1>0, <2>1, WeightGrows
    <2>5. batch'[Len(batch')] = pos + 1
      BY <1>0, <2>1
    <2>6. batch' # <<>> => MySource'[batch'[Len(batch')]] = MySource[pos + 1]
      BY <2>1, <2>5
    <2>7. Weight(MySource', batch') = Weight(MySource, batch) + WireOf[MySource[pos + 1]]
      BY <2>1, <2>4
    <2>8. Weight(MySource', batch') \in Nat /\ Weight(MySource', batch') <= batchBytes'
      BY <1>0, <2>1, <2>3, <2>4, <2>7 DEF MyBytes
    <2>9. Weight(MySource', batch') < ByteBudget + WireOf[MySource[pos + 1]]
      BY <1>0, <2>2, <2>3, <2>4, <2>7 DEF MyBytes
    <2>10. QED
      BY <2>6, <2>8, <2>9 DEF MyBytes
  <1>2. CASE My!Confirm
    <2>1. batch' = <<>> /\ batchBytes' = 0 /\ MySource' = MySource
      BY <1>2 DEF My!Confirm, My!Clear
    <2>2. QED
      BY <2>1, WeightOfNone DEF MyBytes
  <1>3. CASE ~(My!Pull \/ My!Confirm)
    <2>1. UNCHANGED <<MySource, batch, batchBytes>>
      BY <1>3 DEF My!Next, My!Client, My!Server, My!SourceEnd, My!Execute, My!ConfirmRest,
                  My!Refused, My!SourceError, My!ServerApply, My!ServerRefuse, My!Break, My!Drop,
                  My!vars, My!local
    <2>2. QED
      BY <2>1 DEF MyBytes
  <1>4. QED
    BY <1>1, <1>2, <1>3

\* No INSERT is larger than max_allowed_packet where the byte budget leaves room
\* for the largest row, for every limit and every stream of rows whose estimates
\* hold (MySQL bulk.rs 28-30).  Without that hypothesis the run MySqlBulkPacket
\* shows the bound violated.
THEOREM PacketsFit == EstimatesHold => (EnginesSpec => []PacketBound)
  <1> SUFFICES ASSUME EstimatesHold PROVE EnginesSpec => []PacketBound
    OBVIOUS
  <1>1. EnginesInit => MyBytes
    <2> SUFFICES ASSUME My!Init PROVE MyBytes
      BY DEF EnginesInit
    <2>1. batch = <<>> /\ batchBytes = 0
      BY DEF My!Init
    <2>2. QED
      BY <2>1, WeightOfNone DEF MyBytes
  <1>2. IInv /\ MyInv /\ MyBytes /\ [EnginesNext]_<<vars, myVars>> => MyBytes'
    BY MySide, MyBytesStep
  <1>3. ASSUME MyInv, MyBytes PROVE PacketBound
    <2> SUFFICES ASSUME My!Awaiting,
                        \A i \in 1..Len(batch) : ByteBudget + WireOf[MySource[batch[i]]] <= MaxPacket
                 PROVE  My!SumOver(batch, WireOf) <= MaxPacket
      BY DEF PacketBound, My!PacketBound
    <2>1. batch # <<>> /\ batch \in Seq(1..Len(MySource))
      BY <1>3 DEF My!Awaiting, MyInv, MyTypes, MyLimits
    <2>2. Len(batch) \in 1..Len(batch) /\ batch[Len(batch)] \in 1..Len(MySource)
      BY <2>1
    <2>3. WireOf[MySource[batch[Len(batch)]]] \in Nat
      BY <1>3, <2>2, MyNumbers, BulkEnginesAssumption DEF MyInv
    <2>4. My!SumOver(batch, WireOf) = Weight(MySource, batch)
      BY DEF My!SumOver, Weight
    <2>5. ByteBudget + WireOf[MySource[batch[Len(batch)]]] <= MaxPacket
      BY <2>2
    <2>6. ByteBudget \in Nat /\ MaxPacket \in Nat
      BY BulkEnginesAssumption
    <2>7. QED
      BY <1>3, <2>1, <2>3, <2>4, <2>5, <2>6 DEF MyBytes
  <1>4. QED
    BY <1>1, <1>2, <1>3, EnginesInvariance, PTL DEF EnginesSpec
=============================================================================
