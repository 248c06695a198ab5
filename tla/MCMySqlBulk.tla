---------------------------- MODULE MCMySqlBulk ----------------------------
(* Values for the model checking of MySqlBulk: streams of JSON documents. *)
EXTENDS MySqlBulk, SequencesExt

MCJson == BoundedSeq({"small", "json"}, 3)

\* A large value or document.
MCWireOf == [k \in Kinds |-> IF k \in {"big", "json"} THEN 4 ELSE 1]
=============================================================================
