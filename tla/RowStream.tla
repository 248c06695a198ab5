----------------------------- MODULE RowStream -----------------------------
(***************************************************************************)
(* What Connection::stream_rows promises, whatever the engine: a stream is *)
(* a read of ONE committed state of the table.  It yields each row of that *)
(* state at most once, and it ends normally only after all of them; its    *)
(* dedicated session exists only while the stream can still yield.         *)
(***************************************************************************)
EXTENDS StreamTable

VARIABLES
    state,        \* per stream: requested, reading or one of the final states
    scan,         \* per stream: the rows of the state it reads
    delivered,    \* per stream: the rows yielded so far
    session       \* the streams that hold a dedicated session

vars == <<tableVars, state, scan, delivered, session>>

FinalStates == {"ended", "failed", "dropped"}
States == {"requested", "reading"} \cup FinalStates

Init ==
    /\ TableInit
    /\ state = [s \in Streams |-> "requested"]
    /\ scan = [s \in Streams |-> {}]
    /\ delivered = [s \in Streams |-> {}]
    /\ session = {}

Connect(s) ==
    /\ state[s] = "requested"
    /\ session' = session \cup {s}
    /\ UNCHANGED <<tableVars, state, scan, delivered>>

\* The one moment whose committed state the stream returns.
Snapshot(s) ==
    /\ state[s] = "requested" /\ s \in session
    /\ state' = [state EXCEPT ![s] = "reading"]
    /\ scan' = [scan EXCEPT ![s] = Selected(table, s)]
    /\ UNCHANGED <<tableVars, delivered, session>>

Deliver(s) ==
    /\ state[s] = "reading"
    /\ \E r \in scan[s] \ delivered[s] :
          delivered' = [delivered EXCEPT ![s] = @ \cup {r}]
    /\ UNCHANGED <<tableVars, state, scan, session>>

End(s) ==
    /\ state[s] = "reading" /\ delivered[s] = scan[s]
    /\ state' = [state EXCEPT ![s] = "ended"]
    /\ session' = session \ {s}
    /\ UNCHANGED <<tableVars, scan, delivered>>

Stop(s, how) ==
    /\ state[s] \notin FinalStates
    /\ state' = [state EXCEPT ![s] = how]
    /\ session' = session \ {s}
    /\ UNCHANGED <<tableVars, scan, delivered>>

Next ==
    \/ OtherSession /\ UNCHANGED <<state, scan, delivered, session>>
    \/ \E s \in Streams :
          \/ Connect(s) \/ Snapshot(s) \/ Deliver(s) \/ End(s)
          \/ Stop(s, "failed") \/ Stop(s, "dropped")

Spec == Init /\ [][Next]_vars

=============================================================================
