---------------------------- MODULE MCBulkEngines ----------------------------
(* Values for the model checking of BulkEngines: every stream of a few items. *)
EXTENDS BulkEngines, SequencesExt

MCSources ==
    BoundedSeq({"small", "big", "bad", "error"}, 4)
    \cup BoundedSeq({"small", "big", "unkept", "array"}, 4) \cup BoundedSeq({"small", "big"}, 5)

\* A large row is longer than the rest of the budget.
MCSizeOf == [k \in Kinds |-> IF k = "big" THEN 5 ELSE 1]

\* A large value or document.
MCWireOf == [k \in Kinds |-> IF k \in {"big", "json"} THEN 4 ELSE 1]
=============================================================================
