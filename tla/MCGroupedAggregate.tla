------------------------- MODULE MCGroupedAggregate -------------------------
(* GroupedAggregate with a map of one group, so that every change of key      *)
(* flushes, batches of two records, and up to three runs: a pair and an odd   *)
(* run in the first pass, a pair in the second.                               *)
EXTENDS GroupedAggregate

MCKeys == 1..3
MCRecordBytes == [k \in MCKeys |-> IF k = 3 THEN 3 ELSE 2]

\* Sums of keys 1 and 3 leave INT64 on the way and may come back; the rows of
\* key 2 may mix kinds.
Float == [type |-> "float", value |-> 0]
IntOf(v) == [type |-> "int", value |-> v]
MCObservations == <<{IntOf(2), IntOf(-2)}, {IntOf(1), Float}, {IntOf(2), IntOf(-1)}>>

MCForeignRuns == {<<0, 1>>, <<1, 0>>}

=============================================================================
