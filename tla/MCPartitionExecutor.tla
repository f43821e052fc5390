------------------------ MODULE MCPartitionExecutor -------------------------
(* PartitionExecutor with more partitions than workers, more workers than    *)
(* partitions, and a budget that one worker exhausts and two do not.         *)
EXTENDS PartitionExecutor

\* Plans as milena_physical_plan_build makes them, for inputs of these sizes.
MCPlans ==
    {[input |-> n, target |-> 2, parts |-> PlanFor(n, 2)] :
        n \in {m \in {0, 2, 5, 7} : Buildable(m, 2, MaxPartitions)}}

MCBudgets == {0, 4}

=============================================================================
