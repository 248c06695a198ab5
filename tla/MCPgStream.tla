----------------------------- MODULE MCPgStream -----------------------------
(* Values for the model checking of PgStream and KeyRangeTiling. *)
EXTENDS KeyRangeTiling

CONSTANTS s1, s2, s3, r1, r2, r3

MCOneStream == {s1}
MCThreeStreams == {s1, s2, s3}
MCRows == {r1, r2, r3}
MCTwoRows == {r1, r2}
MCNone == {}
MCBad == {r2}

MCKeys == {1, 2}
MCOneBatchSize == {1}

Unbounded == [given |-> FALSE, lower |-> NoBound, upper |-> NoBound]
From(k) == [given |-> TRUE, lower |-> k, upper |-> NoBound]
UpTo(k) == [given |-> TRUE, lower |-> NoBound, upper |-> k]

\* One stream over the whole table.
MCWhole == s1 :> Unbounded
\* Two ranges that tile the keys, and one that is refused.
MCTiles == s1 :> UpTo(2) @@ s2 :> From(2) @@ s3 :> From(NullKey)
=============================================================================
