------------------------------ MODULE GroupBy -------------------------------
(***************************************************************************)
(* What a grouped aggregation promises.  Rows are taken in and counted;    *)
(* then every key that had a row is given out once, in ascending order,    *)
(* with the exact aggregate of all its rows.  It may give up at any time,  *)
(* but it is done only when nothing is missing, and a key whose rows mix   *)
(* kinds or whose sum leaves INT64 is never given out.                     *)
(***************************************************************************)
EXTENDS MergeableAggregate, Sequences

CONSTANTS
    Keys,           \* the group keys, in their byte order
    Observations    \* key -> what its rows may hold: [type, value]

VARIABLES
    total,      \* key -> what has been observed, by plain counting
    out,        \* what has been given out: [key, agg]
    phase       \* "adding", "emitting", "done" or "failed"

Nothing == [ints |-> 0, floats |-> 0, nulls |-> 0, invalid |-> 0, sum |-> 0]

Counted(t, o) ==
    [ints    |-> t.ints    + (IF o.type = "int" THEN 1 ELSE 0),
     floats  |-> t.floats  + (IF o.type = "float" THEN 1 ELSE 0),
     nulls   |-> t.nulls   + (IF o.type = "null" THEN 1 ELSE 0),
     invalid |-> t.invalid + (IF o.type = "invalid" THEN 1 ELSE 0),
     sum     |-> t.sum     + (IF o.type = "int" THEN o.value ELSE 0)]

\* The aggregate that reports what was counted, when there is one.
Reportable(t) == (t.ints = 0 \/ t.floats = 0) /\ t.sum \in Int64

Report(t) ==
    [count |-> t.ints + t.floats, nulls |-> t.nulls, invalid |-> t.invalid,
     kind |-> IF t.ints > 0 THEN "int" ELSE IF t.floats > 0 THEN "float" ELSE "none",
     sum |-> t.sum]

-----------------------------------------------------------------------------
Init ==
    /\ total = [k \in Keys |-> Nothing]
    /\ out = << >>
    /\ phase = "adding"

Add(k, o) ==
    /\ phase = "adding"
    /\ total' = [total EXCEPT ![k] = Counted(@, o)]
    /\ UNCHANGED <<out, phase>>

Seal ==
    /\ phase = "adding"
    /\ phase' = "emitting"
    /\ UNCHANGED <<total, out>>

\* Keys with rows that come after everything given out so far.
Pending ==
    {k \in Keys : total[k] # Nothing /\ \A i \in 1..Len(out) : out[i].key < k}

Emit ==
    /\ phase = "emitting"
    /\ \E k \in Pending :
        /\ \A j \in Pending : k <= j
        /\ Reportable(total[k])
        /\ out' = Append(out, [key |-> k, agg |-> Report(total[k])])
    /\ UNCHANGED <<total, phase>>

Finish ==
    /\ phase = "emitting"
    /\ Pending = {}
    /\ phase' = "done"
    /\ UNCHANGED <<total, out>>

GiveUp ==
    /\ phase \in {"adding", "emitting"}
    /\ phase' = "failed"
    /\ UNCHANGED <<total, out>>

Next ==
    \/ \E k \in Keys : \E o \in Observations[k] : Add(k, o)
    \/ Seal
    \/ Emit
    \/ Finish
    \/ GiveUp

Spec == Init /\ [][Next]_<<total, out, phase>>

=============================================================================
