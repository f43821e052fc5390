------------------------- MODULE MCPartitionResults -------------------------
(* PartitionResults on plans of no, one, two and three partitions, run up to *)
(* twice.  A sum tells which values were added, and how often.               *)
EXTENDS PartitionResults

MCPlan(n) == [parts |-> PlanFor(n, 1), input |-> n, target |-> 1]
MCPlans == {MCPlan(n) : n \in 0..3}
MCResult(s, v, f, x) == [status |-> s, valid |-> v, finite |-> f, value |-> x]
MCResults ==
    {MCResult(0, TRUE, TRUE, 1), MCResult(0, FALSE, FALSE, 2), MCResult(5, TRUE, TRUE, 1),
     MCResult(0, TRUE, FALSE, 1), MCResult(-1, TRUE, TRUE, 1)}
MCStrays == {[id |-> 3, status |-> 0, valid |-> TRUE, value |-> 64, intact |-> TRUE]}

=============================================================================
