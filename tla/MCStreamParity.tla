--------------------------- MODULE MCStreamParity ---------------------------
(* Values for the model checking of StreamParity. *)
EXTENDS StreamParity, TLC

CONSTANTS s1, r1, r2, r3

MCOneStream == {s1}
MCRows == {r1, r2, r3}
MCBad == {r3}
MCKeys == {1}
MCBatchSizes == {0, 1, 2}

From(k) == [given |-> TRUE, lower |-> k, upper |-> NoBound]

\* A range: it leaves out the rows with NULL in its column.
MCRange == s1 :> From(1)
=============================================================================
