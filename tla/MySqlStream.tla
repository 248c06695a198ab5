---------------------------- MODULE MySqlStream ----------------------------
(***************************************************************************)
(* The MySQL row stream (ddbcore-mysql/src/stream.rs): the call checks its *)
(* options and takes a session out of the pool; nothing is sent to the     *)
(* server before the first poll, which runs the SELECT.  Every poll then   *)
(* reads one row off the socket and yields it.                             *)
(***************************************************************************)
EXTENDS StreamTable

CONSTANTS
    BatchSizes,   \* values of StreamOptions::batch_size the callers pass
    BadRows       \* rows with a value no decoder accepts

VARIABLES
    pc,           \* per stream: where it is
    scan,         \* per stream: the rows of the result set
    unread,       \* per stream: the rows not read off the socket yet
    delivered,    \* per stream: the rows yielded
    session       \* streams with a dedicated session

vars == <<tableVars, pc, scan, unread, delivered, session>>

Final == {"ended", "failed", "refused", "dropped"}

TypeOK ==
    /\ TableTypeOK
    /\ pc \in [Streams -> {"called", "acquiring", "returned", "open"} \cup Final]
    /\ scan \in [Streams -> SUBSET Rows] /\ unread \in [Streams -> SUBSET Rows]
    /\ delivered \in [Streams -> SUBSET Rows]
    /\ session \subseteq {s \in Streams : pc[s] \in {"returned", "open"}}

Init ==
    /\ TableInit
    /\ pc = [s \in Streams |-> "called"]
    /\ scan = [s \in Streams |-> {}]
    /\ unread = [s \in Streams |-> {}]
    /\ delivered = [s \in Streams |-> {}]
    /\ session = {}

Goto(s, l) == pc' = [pc EXCEPT ![s] = l]

\* Mutant: the stream gives its socket up without closing it.
Keep(s, how) == Goto(s, how) /\ UNCHANGED <<tableVars, scan, unread, delivered, session>>

\* The socket closes with the stream, however it ends.
Close(s, how) ==
    /\ Goto(s, how)
    /\ session' = session \ {s}
    /\ UNCHANGED <<tableVars, scan, unread, delivered>>

\* The options are checked before anything else; a NULL bound is accepted.
Call(s) ==
    /\ pc[s] = "called"
    /\ \E b \in BatchSizes :
          Goto(s, IF b = 0 \/ EmptyRange(RangeOf[s]) THEN "refused" ELSE "acquiring")
    /\ UNCHANGED <<tableVars, scan, unread, delivered, session>>

\* Mutant: the stream borrows a session that stays in the pool.
Borrow(s) ==
    /\ pc[s] = "acquiring"
    /\ Goto(s, "returned")
    /\ UNCHANGED <<tableVars, scan, unread, delivered, session>>

\* pool.acquire().await?.detach(), and the call returns its stream.
Acquire(s) ==
    /\ pc[s] = "acquiring"
    /\ session' = session \cup {s}
    /\ Goto(s, "returned")
    /\ UNCHANGED <<tableVars, scan, unread, delivered>>

\* The first poll runs the SELECT: its result is the state committed then.
FirstPoll(s) ==
    /\ pc[s] = "returned"
    /\ scan' = [scan EXCEPT ![s] = Selected(table, s)]
    /\ unread' = [unread EXCEPT ![s] = Selected(table, s)]
    /\ Goto(s, "open")
    /\ UNCHANGED <<tableVars, delivered, session>>

\* One row is read off the socket, decoded and yielded.
Yield(s) ==
    /\ pc[s] = "open"
    /\ \E r \in unread[s] :
          /\ r.id \notin BadRows
          /\ unread' = [unread EXCEPT ![s] = @ \ {r}]
          /\ delivered' = [delivered EXCEPT ![s] = @ \cup {r}]
    /\ UNCHANGED <<tableVars, pc, scan, session>>

\* The next row on the socket does not decode.
YieldError(s) ==
    /\ pc[s] = "open"
    /\ \E r \in unread[s] : r.id \in BadRows
    /\ Close(s, "failed")

\* try_next() returned None: the result set is exhausted.
Finish(s) == pc[s] = "open" /\ unread[s] = {} /\ Close(s, "ended")

\* No connection can be had, the server refuses the SELECT, or the
\* connection breaks.
Fail(s) ==
    /\ pc[s] \in {"acquiring", "returned", "open"}
    /\ Close(s, "failed")

Drop(s) == pc[s] \notin Final /\ Close(s, "dropped")

Step(s) ==
    Call(s) \/ Acquire(s) \/ FirstPoll(s) \/ Yield(s) \/ YieldError(s) \/ Finish(s)

Next ==
    \/ OtherSession /\ UNCHANGED <<pc, scan, unread, delivered, session>>
    \/ \E s \in Streams : Step(s) \/ Fail(s) \/ Drop(s)

Spec == Init /\ [][Next]_vars

-----------------------------------------------------------------------------
(* What the stream promises.                                               *)

\* What the caller can tell of a stream at l.
Shown(l) ==
    CASE l = "open"    -> "reading"
      [] l = "refused" -> "failed"
      [] l \in Final \ {"refused"} -> l
      [] OTHER         -> "requested"

RS == INSTANCE RowStream WITH state <- [s \in Streams |-> Shown(pc[s])]

\* The MySQL stream keeps the same promise as the Postgres one: a read of one
\* committed state, every row once, a session of its own until it ends
\* (stream.rs 26-85).
ImplementsRowStream == RS!Spec

\* A stream that is polled ends.
EveryStreamEnds == \A s \in Streams : (pc[s] = "called") ~> (pc[s] \in Final)

=============================================================================
