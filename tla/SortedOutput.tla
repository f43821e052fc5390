---------------------------- MODULE SortedOutput -----------------------------
(***************************************************************************)
(* What an external sort promises: values are taken in one at a time, and  *)
(* the output appears once, whole: every value taken, in ascending order.  *)
(* It may give up at any time before, and then there is no output.         *)
(***************************************************************************)
EXTENDS Integers, Sequences, FiniteSets

CONSTANTS
    Values,
    NoOutput

VARIABLES
    taken,      \* the values taken in, in the order they came
    out,        \* the sorted output, or NoOutput
    open        \* still working

Occurrences(v, s) == Cardinality({i \in 1..Len(s) : s[i] = v})

Sorts(s, t) ==
    /\ \A i, j \in 1..Len(s) : i < j => s[i] <= s[j]
    /\ \A v \in Values : Occurrences(v, s) = Occurrences(v, t)
    /\ Len(s) = Len(t)

Init ==
    /\ taken = << >>
    /\ out = NoOutput
    /\ open = TRUE

Take(v) ==
    /\ open
    /\ taken' = Append(taken, v)
    /\ UNCHANGED <<out, open>>

Publish ==
    /\ open
    /\ out' # NoOutput
    /\ Sorts(out', taken)
    /\ open' = FALSE
    /\ UNCHANGED taken

GiveUp ==
    /\ open
    /\ open' = FALSE
    /\ UNCHANGED <<taken, out>>

Next ==
    \/ \E v \in Values : Take(v)
    \/ Publish
    \/ GiveUp

Spec == Init /\ [][Next]_<<taken, out, open>>

=============================================================================
