---------------------------- MODULE PartitionPlan ----------------------------
(***************************************************************************)
(* The physical plan of src/src/partition_plan.c: an input of some bytes   *)
(* cut into contiguous partitions of at most a target size.                *)
(*                                                                         *)
(* A plan is the sequence of its partitions [id, offset, length]; id 0 is  *)
(* the first.  Sizes are naturals: build only multiplies and adds offsets  *)
(* that stay below the input size, a size_t.                               *)
(***************************************************************************)
EXTENDS Integers, Sequences

CONSTANT MaxPartitions      \* MILENA_PARTITION_MAX_COUNT

ASSUME MaxPartitionsAssumption == MaxPartitions \in Nat \ {0}

Partitions == [id : Nat, offset : Nat, length : Nat]

\* milena_physical_plan_validate.
ValidPlan(plan, input, target) ==
    /\ Len(plan) <= MaxPartitions
    /\ target > 0
    /\ \A i \in 1..Len(plan) :
        /\ plan[i].id = i - 1
        /\ plan[i].offset = IF i = 1 THEN 0 ELSE plan[i-1].offset + plan[i-1].length
        /\ plan[i].length \in 1..target
    /\ input = IF plan = << >> THEN 0 ELSE plan[Len(plan)].offset + plan[Len(plan)].length

\* milena_physical_plan_build: how many partitions the input takes, and the plan.
CountFor(input, target) ==
    (input \div target) + (IF input % target = 0 THEN 0 ELSE 1)

Buildable(input, target, max) ==
    target > 0 /\ max \in 1..MaxPartitions /\ CountFor(input, target) <= max

PlanFor(input, target) ==
    [i \in 1..CountFor(input, target) |->
        [id     |-> i - 1,
         offset |-> (i - 1) * target,
         length |-> IF input - (i - 1) * target < target
                    THEN input - (i - 1) * target
                    ELSE target]]

=============================================================================
