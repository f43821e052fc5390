--------------------------- MODULE MCSpillReport ----------------------------
(* SpillReport with two jobs on the same paths, two metrics, three rows of   *)
(* at most two groups, an output limit that the largest report reaches to    *)
(* the byte, and a caller with limits it exceeds.                            *)
EXTENDS SpillReport, TLC

CONSTANTS j1, j2

MCJobs == {j1, j2}
MCLimits == {[rows |-> 2, groups |-> 2, bytes |-> 24], [rows |-> 0, groups |-> 1, bytes |-> 13]}
MCSymmetry == Permutations(MCJobs)

=============================================================================
