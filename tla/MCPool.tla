------------------------------- MODULE MCPool -------------------------------
(* Values for the model checking of Pool. *)
EXTENDS Pool

CONSTANTS c1, c2, p1, p2, p3

MCCallers == {c1, c2}
MCSessions == {p1, p2, p3}

\* Callers keep their transactions to the sessions of their own streams.
MCQuerySql == {"write"}
MCStreamSql == {"begin"}

\* A caller opens a transaction with execute_query.
MCTransactions == {"begin", "commit"}
MCNoSql == {"read"}
=============================================================================
