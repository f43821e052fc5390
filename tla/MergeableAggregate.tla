------------------------- MODULE MergeableAggregate -------------------------
(***************************************************************************)
(* The mergeable aggregate state of src/src/mergeable_aggregate.c: what    *)
(* one group accumulates, and how two partial states of the same group are *)
(* combined.  Counters and the exact INT64 sum keep their limits; the      *)
(* binary64 statistics (sum, mean, m2, min, max) are left out, so a FLOAT64*)
(* state is known by its counters and its kind.                            *)
(***************************************************************************)
EXTENDS Integers

CONSTANTS
    MaxCount,       \* UINT64_MAX, the limit of all observations of one state
    MaxInt,         \* INT64_MAX; INT64_MIN is -MaxInt - 1
    Refused         \* the outcome of an addition or a merge that fails

ASSUME AggregateAssumption ==
    /\ MaxCount \in Nat \ {0}
    /\ MaxInt \in Nat

Kinds == {"none", "float", "int"}
Int64 == (-MaxInt - 1)..MaxInt

\* milena_aggregate_state_init.
NewState == [count |-> 0, nulls |-> 0, invalid |-> 0, kind |-> "none", sum |-> 0]

Observed(s) == s.count + s.nulls + s.invalid

\* state_is_valid: what every operation demands of the states it is given.
States ==
    {s \in [count : Nat, nulls : Nat, invalid : Nat, kind : Kinds, sum : Int64] :
        /\ Observed(s) <= MaxCount
        /\ (s.kind = "none") <=> (s.count = 0)
        /\ s.kind # "int" => s.sum = 0}

-----------------------------------------------------------------------------
\* milena_aggregate_state_add_int64, milena_aggregate_state_add (the value of a
\* FLOAT64 is abstracted), milena_aggregate_state_add_null and _add_invalid.

AddInt(s, v) ==
    IF \/ s.count # 0 /\ s.kind # "int"
       \/ Observed(s) = MaxCount
       \/ s.sum + v \notin Int64
    THEN Refused
    ELSE [s EXCEPT !.count = @ + 1, !.kind = "int", !.sum = @ + v]

AddFloat(s) ==
    IF (s.count # 0 /\ s.kind # "float") \/ Observed(s) = MaxCount
    THEN Refused
    ELSE [s EXCEPT !.count = @ + 1, !.kind = "float"]

AddNull(s) ==
    IF Observed(s) = MaxCount THEN Refused ELSE [s EXCEPT !.nulls = @ + 1]

AddInvalid(s) ==
    IF Observed(s) = MaxCount THEN Refused ELSE [s EXCEPT !.invalid = @ + 1]

\* One observation as the callers name it.
Observe(s, o) ==
    CASE o.type = "int" -> AddInt(s, o.value)
      [] o.type = "float" -> AddFloat(s)
      [] o.type = "null" -> AddNull(s)
      [] o.type = "invalid" -> AddInvalid(s)

-----------------------------------------------------------------------------
\* (mutant) A sum that leaves INT64 stops at its limit.
Merge_Saturates(s, t) ==
    IF \/ s.count # 0 /\ t.count # 0 /\ s.kind # t.kind
       \/ Observed(s) + Observed(t) > MaxCount
    THEN Refused
    ELSE [count |-> s.count + t.count, nulls |-> s.nulls + t.nulls,
          invalid |-> s.invalid + t.invalid,
          kind |-> IF s.count = 0 THEN t.kind ELSE s.kind,
          sum |-> CASE s.sum + t.sum > MaxInt -> MaxInt
                    [] s.sum + t.sum < -MaxInt - 1 -> -MaxInt - 1
                    [] OTHER -> s.sum + t.sum]

\* milena_aggregate_state_merge.  A state with no values takes the other's kind
\* and sum; the missing observations always add up.
Merge(s, t) ==
    IF \/ s.count # 0 /\ t.count # 0 /\ s.kind # t.kind
       \/ Observed(s) + Observed(t) > MaxCount
       \/ s.sum + t.sum \notin Int64
    THEN Refused
    ELSE [count |-> s.count + t.count, nulls |-> s.nulls + t.nulls,
          invalid |-> s.invalid + t.invalid,
          kind |-> IF s.count = 0 THEN t.kind ELSE s.kind,
          sum |-> s.sum + t.sum]

=============================================================================
