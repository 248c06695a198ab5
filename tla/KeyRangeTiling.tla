--------------------------- MODULE KeyRangeTiling ---------------------------
(***************************************************************************)
(* Several sub-streams of one table over key ranges that tile its keys,    *)
(* each with a cursor and a snapshot of its own: the read parallelism that *)
(* StreamOptions::key_range is for (ddbcore/adapter.rs 50-72).             *)
(***************************************************************************)
EXTENDS PgStream, TLC

\* The half-open interval a caller means by a range.
Interval(range) ==
    {k \in Keys : (range.lower = NoBound \/ range.lower <= k)
                  /\ (range.upper = NoBound \/ k < range.upper)}

\* The streams whose range the call accepts.
Accepted == {s \in Streams : ~RefusedRange(RangeOf[s])}

\* Every key is in exactly one of the intervals.
Tiling == \A k \in Keys : Cardinality({s \in Accepted : k \in Interval(RangeOf[s])}) = 1

AllEnded == \A s \in Accepted : pc[s] = "ended"

Readers(id) == {s \in Streams : \E r \in delivered[s] : r.id = id}

\* Streams over ranges that tile the keys yield, between them, every row that
\* nobody wrote to exactly once, although their snapshots differ (adapter.rs
\* 50-52, 62-64; stream.rs 74-87).
StableRowsOnce ==
    (Tiling /\ AllEnded) =>
        \A id \in RowIds \ touched :
            table[id] \in Keys => Cardinality(Readers(id)) = 1
=============================================================================
