---------------------------- MODULE StreamParity ----------------------------
(***************************************************************************)
(* The same stream opened through both adapters on the same table, first   *)
(* on Postgres and, when that one is done, on MySQL: "every method here    *)
(* must behave identically from the caller's perspective regardless of     *)
(* which engine is behind it" (ddbcore/adapter.rs 197-199).                *)
(***************************************************************************)
EXTENDS PgStream

VARIABLES myPc, myScan, myUnread, myDelivered, mySession

My == INSTANCE MySqlStream WITH
    pc <- myPc, scan <- myScan, unread <- myUnread,
    delivered <- myDelivered, session <- mySession

myVars == <<myPc, myScan, myUnread, myDelivered, mySession>>

ParityInit == Init /\ My!Init

MySide(s) == My!Step(s) \/ My!Fail(s) \/ My!Drop(s)

ParityNext ==
    \/ Next /\ UNCHANGED myVars
    \/ \E s \in Streams :
          pc[s] \in Final /\ MySide(s) /\ UNCHANGED <<column, alters, streamVars>>

\* The runtime drives both calls, and the caller polls both streams to their end.
ParitySpec ==
    /\ ParityInit /\ [][ParityNext]_<<vars, myVars>>
    /\ Fairness
    /\ \A s \in Streams : WF_myVars(pc[s] \in Final /\ My!Step(s))

-----------------------------------------------------------------------------

BothEnded(s) == pc[s] = "ended" /\ myPc[s] = "ended"

\* On a table nobody writes to, a stream read to its end yields the same rows
\* whichever engine is behind it: neither loses, repeats or adds one, and a
\* row that neither can decode ends neither normally (stream.rs of both).
SameRowsWhenQuiet ==
    \A s \in Streams :
        touched = {} =>
            /\ BothEnded(s) => delivered[s] = myDelivered[s]
            /\ pc[s] = "ended" => myDelivered[s] \subseteq delivered[s]
            /\ myPc[s] = "ended" => delivered[s] \subseteq myDelivered[s]

\* The state of the MySQL stream is well formed, with a session only while the
\* stream can still yield (MySQL stream.rs 63-81).
MySqlTypeOK == My!TypeOK

\* The MySQL stream, too, is a read of one committed state of the table, every row
\* once, under a session of its own until it ends (MySQL stream.rs 26-85).
MySqlImplements == My!ImplementsRowStream

\* Both streams end when they are polled: they run out of rows or fail, a row that
\* does not decode and a batch size of zero included (stream.rs 154-157,
\* 176-199; MySQL stream.rs 27-29, 75-82).
BothStreamsEnd == EveryStreamEnds /\ My!EveryStreamEnds
=============================================================================
