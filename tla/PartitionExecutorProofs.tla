----------------------- MODULE PartitionExecutorProofs -----------------------
(***************************************************************************)
(* Proofs about physical plans and the local executor, for inputs, targets *)
(* and plans of any size, any number of workers and any budgets: that a    *)
(* valid plan cuts the input into partitions that overlap nowhere and      *)
(* leave nothing out; the executor's types, that no partition is given out *)
(* twice, that OK is never returned for a part of the input, that the      *)
(* report is true, and that fail_fast hands nothing out after a failure.   *)
(*                                                                         *)
(* Spec is without failing locks; with them (SpecWithLockFaults) OkMeansAll*)
(* is violated, which a run of MCPartitionExecutor shows.                  *)
(***************************************************************************)
EXTENDS PartitionExecutor, LeastElements, FiniteSetTheorems

-----------------------------------------------------------------------------
(* Plans *)

PartEnd(p) == p.offset + p.length

\* What validation says of the members of a plan.
LEMMA PlanMembers ==
    ASSUME NEW parts \in Seq(Partitions), NEW input \in Nat, NEW target \in Nat,
           ValidPlan(parts, input, target)
    PROVE  /\ Len(parts) \in Nat
           /\ \A i \in 1..Len(parts) :
                /\ parts[i].offset \in Nat /\ parts[i].length \in Nat
                /\ parts[i].length > 0
                /\ i = 1 => parts[i].offset = 0
                /\ i > 1 => i - 1 \in 1..Len(parts) /\ parts[i].offset = PartEnd(parts[i - 1])
           /\ Len(parts) = 0 => input = 0
           /\ Len(parts) > 0 => input = PartEnd(parts[Len(parts)])
<1>1. Len(parts) \in Nat /\ \A i \in 1..Len(parts) : parts[i] \in Partitions
  OBVIOUS
<1>2. \A i \in 1..Len(parts) : parts[i].offset \in Nat /\ parts[i].length \in Nat
  BY <1>1 DEF Partitions
<1>3. Len(parts) = 0 <=> parts = << >>
  OBVIOUS
<1> QED
  BY <1>1, <1>2, <1>3 DEF ValidPlan, PartEnd

\* A partition ends before every later one begins.
LEMMA PlanOrdered ==
    ASSUME NEW parts \in Seq(Partitions), NEW input \in Nat, NEW target \in Nat,
           ValidPlan(parts, input, target),
           NEW i \in 1..Len(parts), NEW j \in 1..Len(parts), i < j
    PROVE  PartEnd(parts[i]) <= parts[j].offset
<1> DEFINE Bad == {k \in 1..Len(parts) : i < k /\ ~(PartEnd(parts[i]) <= parts[k].offset)}
<1>1. SUFFICES ASSUME Bad # {} PROVE FALSE
  OBVIOUS
<1>2. PICK k \in Bad : \A l \in Bad : k <= l
  <2>1. Bad \subseteq Nat
    BY PlanMembers
  <2> HIDE DEF Bad
  <2> QED
    BY <1>1, <2>1, LeastElement
<1>3. /\ k \in 1..Len(parts) /\ i < k /\ k > 1
      /\ parts[k].offset = PartEnd(parts[k - 1])
      /\ k - 1 \in 1..Len(parts)
  BY PlanMembers
<1>4. CASE k - 1 = i
  BY <1>3, <1>4, PlanMembers DEF PartEnd
<1>5. CASE k - 1 # i
  <2>1. i < k - 1 /\ k - 1 \notin Bad
    BY <1>2, <1>3, <1>5
  <2>2. PartEnd(parts[i]) <= parts[k - 1].offset
    BY <1>3, <2>1
  <2>3. /\ parts[k - 1].offset \in Nat /\ parts[k - 1].length \in Nat
        /\ parts[i].offset \in Nat /\ parts[i].length \in Nat
    BY <1>3, PlanMembers
  <2>4. /\ parts[k - 1].offset + parts[k - 1].length = parts[k].offset
        /\ parts[i].offset + parts[i].length <= parts[k - 1].offset
        /\ ~(parts[i].offset + parts[i].length <= parts[k].offset)
    BY <1>3, <2>2 DEF PartEnd
  <2> HIDE DEF Bad
  <2> QED
    BY <2>3, <2>4
<1> QED
  BY <1>4, <1>5

\* A valid plan tiles its input: every byte is in one partition and in no other, so
\* executing the partitions reads every byte of the source once.
THEOREM PlanTiles ==
    ASSUME NEW parts \in Seq(Partitions), NEW input \in Nat, NEW target \in Nat,
           ValidPlan(parts, input, target),
           NEW byte \in 0..(input - 1)
    PROVE  \E p \in 1..Len(parts) :
            /\ byte \in parts[p].offset..(PartEnd(parts[p]) - 1)
            /\ \A q \in 1..Len(parts) :
                byte \in parts[q].offset..(PartEnd(parts[q]) - 1) => q = p
<1> DEFINE Reached == {k \in 1..Len(parts) : byte < PartEnd(parts[k])}
<1>1. /\ Len(parts) \in Nat /\ Len(parts) > 0
      /\ input = PartEnd(parts[Len(parts)])
  BY PlanMembers
<1>2. Len(parts) \in Reached
  BY <1>1
<1>3. PICK p \in Reached : \A k \in Reached : p <= k
  <2>1. Reached \subseteq Nat
    BY <1>1
  <2> HIDE DEF Reached
  <2> QED
    BY <1>2, <2>1, LeastElement
<1>4. /\ byte \in Nat
      /\ parts[p].offset \in Nat /\ parts[p].length \in Nat /\ p \in 1..Len(parts)
      /\ byte < PartEnd(parts[p])
  BY PlanMembers
<1>5. parts[p].offset <= byte
  <2>1. CASE p = 1
    <3>1. parts[p].offset = 0
      BY <1>4, <2>1, PlanMembers
    <3> QED
      BY <1>4, <3>1
  <2>2. CASE p > 1
    <3>1. p - 1 \in 1..Len(parts) /\ p - 1 \notin Reached
      BY <1>1, <1>3, <1>4, <2>2
    <3>2. parts[p].offset = PartEnd(parts[p - 1])
      BY <1>4, <2>2, PlanMembers
    <3> QED
      BY <1>4, <3>1, <3>2
  <2> QED
    BY <1>4, <2>1, <2>2
<1>6. ASSUME NEW q \in 1..Len(parts), byte \in parts[q].offset..(PartEnd(parts[q]) - 1)
      PROVE  q = p
  <2>1. /\ parts[q].offset \in Nat /\ parts[q].length \in Nat
        /\ parts[q].offset <= byte /\ byte < PartEnd(parts[q])
    BY <1>6, PlanMembers DEF PartEnd
  <2>2. ~(q < p)
    <3>1. q < p => PartEnd(parts[q]) <= parts[p].offset
      BY <1>4, PlanOrdered
    <3> QED
      BY <1>4, <1>5, <2>1, <3>1 DEF PartEnd
  <2>3. ~(p < q)
    <3>1. p < q => PartEnd(parts[p]) <= parts[q].offset
      BY <1>4, PlanOrdered
    <3> QED
      BY <1>4, <1>5, <2>1, <3>1 DEF PartEnd
  <2> QED
    BY <1>1, <1>4, <2>2, <2>3
<1>7. p \in 1..Len(parts) /\ byte \in parts[p].offset..(PartEnd(parts[p]) - 1)
  BY <1>4, <1>5 DEF PartEnd
<1> HIDE DEF Reached
<1> QED
  BY <1>6, <1>7

-----------------------------------------------------------------------------
(* The plans that milena_physical_plan_build makes *)

\* The number of partitions is the least whose targets cover the input.
LEMMA CountCovers ==
    ASSUME NEW input \in Nat, NEW target \in Nat \ {0}
    PROVE  LET n == CountFor(input, target) IN
           /\ n \in Nat
           /\ n = 0 => input = 0
           /\ n > 0 => (n - 1) * target < input
           /\ input <= n * target
<1> DEFINE q == input \div target
           r == input % target
<1>1. /\ q \in Nat /\ r \in 0..(target - 1)
      /\ input = target * q + r
  OBVIOUS
<1>2. CASE r = 0
  <2>1. CountFor(input, target) = q
    BY <1>1, <1>2 DEF CountFor
  <2>2. input = q * target
    BY <1>1, <1>2
  <2>3. (q - 1) * target = q * target - target
    BY <1>1
  <2> HIDE DEF q
  <2> QED
    BY <1>1, <2>1, <2>2, <2>3
<1>3. CASE r # 0
  <2>1. CountFor(input, target) = q + 1
    BY <1>1, <1>3 DEF CountFor
  <2>2. input = q * target + r
    BY <1>1
  <2>3. (q + 1) * target = q * target + target /\ (q + 1) - 1 = q
    BY <1>1
  <2> HIDE DEF q, r
  <2>4. q * target \in Nat
    BY <1>1
  <2> QED
    BY <1>1, <1>3, <2>1, <2>2, <2>3, <2>4
<1> QED
  BY <1>2, <1>3

\* Where partition i of a built plan begins and how long it is.
LEMMA BuiltMember ==
    ASSUME NEW input \in Nat, NEW target \in Nat \ {0},
           NEW i \in 1..CountFor(input, target)
    PROVE  LET p == PlanFor(input, target)[i] IN
           /\ p.id = i - 1
           /\ p.offset = (i - 1) * target /\ p.offset \in Nat
           /\ p.length \in 1..target
           /\ i < CountFor(input, target) => PartEnd(p) = i * target
           /\ i = CountFor(input, target) => PartEnd(p) = input
<1> DEFINE n == CountFor(input, target)
<1>1. n \in Nat /\ (n - 1) * target < input /\ input <= n * target
  BY CountCovers
<1> HIDE DEF n
<1>2. i \in 1..n
  BY DEF n
<1>3. /\ (i - 1) * target \in Nat /\ i * target \in Nat
      /\ i * target = (i - 1) * target + target
  BY <1>1, <1>2
<1>4. (i - 1) * target <= (n - 1) * target
  <2>1. (n - 1) * target - (i - 1) * target = (n - i) * target
    BY <1>1, <1>2
  <2>2. (n - i) * target >= 0
    BY <1>1, <1>2
  <2> QED
    BY <1>1, <1>2, <2>1, <2>2
<1>5. i < n => i * target <= (n - 1) * target
  <2>1. SUFFICES ASSUME i < n PROVE i * target <= (n - 1) * target
    OBVIOUS
  <2>2. (n - 1) * target - i * target = (n - 1 - i) * target
    BY <1>1, <1>2
  <2>3. (n - 1 - i) * target >= 0
    BY <1>1, <1>2, <2>1
  <2> QED
    BY <1>1, <1>2, <2>2, <2>3
<1>6. PlanFor(input, target)[i] =
        [id |-> i - 1, offset |-> (i - 1) * target,
         length |-> IF input - (i - 1) * target < target
                    THEN input - (i - 1) * target ELSE target]
  BY DEF PlanFor
<1>7. (i - 1) * target < input /\ (n - 1) * target \in Int
  BY <1>1, <1>2, <1>3, <1>4
<1>8. i = n => i * target = n * target
  OBVIOUS
<1> DEFINE start == (i - 1) * target
           last == (n - 1) * target
           end == i * target
           all == n * target
<1>9. /\ start \in Nat /\ end \in Nat /\ end = start + target
      /\ start < input /\ last \in Int /\ last < input
      /\ i < n => end <= last
      /\ i = n => input <= end
  BY <1>1, <1>3, <1>5, <1>7, <1>8
<1>10. PlanFor(input, target)[i] =
        [id |-> i - 1, offset |-> start,
         length |-> IF input - start < target THEN input - start ELSE target]
  BY <1>6
<1> HIDE DEF start, last, end, all
<1>11. /\ PlanFor(input, target)[i].id = i - 1
       /\ PlanFor(input, target)[i].offset = start
       /\ PlanFor(input, target)[i].length =
            IF input - start < target THEN input - start ELSE target
  BY <1>10
<1>12. /\ PlanFor(input, target)[i].length \in 1..target
       /\ i < n => PartEnd(PlanFor(input, target)[i]) = end
       /\ i = n => PartEnd(PlanFor(input, target)[i]) = input
  BY <1>9, <1>11 DEF PartEnd
<1> QED
  BY <1>9, <1>11, <1>12 DEF n, start, end

\* build and validate agree: a plan that is built, for any input that takes no more
\* partitions than allowed, is one that validate accepts, so the executors never
\* refuse it.
THEOREM BuiltPlansValid ==
    ASSUME NEW input \in Nat, NEW target \in Nat, NEW max \in Nat,
           Buildable(input, target, max)
    PROVE  /\ PlanFor(input, target) \in Seq(Partitions)
           /\ ValidPlan(PlanFor(input, target), input, target)
<1> DEFINE n == CountFor(input, target)
           parts == PlanFor(input, target)
<1>1. target \in Nat \ {0} /\ max \in 1..MaxPartitions /\ n <= max
  BY DEF Buildable
<1>2. n \in Nat /\ (n = 0 => input = 0)
  BY <1>1, CountCovers
<1>3. \A i \in 1..n :
        /\ parts[i].id = i - 1
        /\ parts[i].offset = (i - 1) * target /\ parts[i].offset \in Nat
        /\ parts[i].length \in 1..target
        /\ i < n => PartEnd(parts[i]) = i * target
        /\ i = n => PartEnd(parts[i]) = input
  BY <1>1, BuiltMember
<1>4. parts \in Seq(Partitions) /\ Len(parts) = n
  <2>1. parts \in [1..n -> Partitions]
    <3>1. \A i \in 1..n : (i - 1) * target \in Nat
      BY <1>1, <1>2
    <3>2. \A i \in 1..n : parts[i] \in Partitions
      <4> SUFFICES ASSUME NEW i \in 1..n PROVE parts[i] \in Partitions
        OBVIOUS
      <4>1. parts[i].length \in Nat /\ parts[i].offset \in Nat /\ i - 1 \in Nat
        BY <1>1, <1>2, <1>3
      <4>2. parts[i] = [id |-> i - 1, offset |-> parts[i].offset, length |-> parts[i].length]
        BY DEF PlanFor
      <4> QED
        BY <4>1, <4>2 DEF Partitions
    <3> QED
      BY <3>2 DEF PlanFor
  <2> HIDE DEF parts, n
  <2> QED
    BY <1>2, <2>1
<1> HIDE DEF parts, n
<1>5. \A i \in 1..n :
        parts[i].offset = IF i = 1 THEN 0 ELSE parts[i-1].offset + parts[i-1].length
  <2> SUFFICES ASSUME NEW i \in 1..n
               PROVE  parts[i].offset = IF i = 1 THEN 0
                                       ELSE parts[i-1].offset + parts[i-1].length
    OBVIOUS
  <2>1. CASE i = 1
    BY <1>1, <1>2, <1>3, <2>1
  <2>2. CASE i # 1
    <3>1. i - 1 \in 1..n /\ i - 1 < n
      BY <1>2, <2>2
    <3> QED
      BY <1>3, <2>2, <3>1 DEF PartEnd
  <2> QED
    BY <2>1, <2>2
<1>6. input = IF parts = << >> THEN 0 ELSE parts[Len(parts)].offset + parts[Len(parts)].length
  <2>1. CASE n = 0
    BY <1>2, <1>4, <2>1
  <2>2. CASE n # 0
    <3>1. n \in 1..n /\ parts # << >>
      BY <1>2, <1>4, <2>2
    <3> QED
      BY <1>3, <1>4, <3>1 DEF PartEnd
  <2> QED
    BY <2>1, <2>2
<1>7. n <= MaxPartitions /\ target > 0
  BY <1>1, <1>2, MaxPartitionsAssumption
<1>8. ValidPlan(parts, input, target)
  BY <1>3, <1>4, <1>5, <1>6, <1>7 DEF ValidPlan
<1> QED
  BY <1>4, <1>8 DEF parts

-----------------------------------------------------------------------------
(* The invariant *)

\* Types, with the counts of the report not yet bounded.
Typed ==
    /\ plan \in Plans
    /\ options \in [fail_fast : BOOLEAN, max_bytes : Budgets]
    /\ caller \in {"creating", "joining", "returned"}
    /\ created \in 0..Used
    /\ pc \in [Workers -> {"unborn", "top", "admitted", "running", "ran", "exited"}]
    /\ claim \in [Workers -> [part : 0..Count, ok : BOOLEAN]]
    /\ next_index \in 0..Count
    /\ failed \in BOOLEAN
    /\ first_error \in {"ok", "worker", "overflow", "cancelled"}
    /\ bytes \in [Workers -> Nat]
    /\ report \in [completed : Nat, failed : Nat, assigned : Nat, cancelled : BOOLEAN]
    /\ result \in {"none", "ok", "data", "internal"}
    /\ ran \subseteq Workers \X (1..Count) \X {"entered", "ok", "failed"}
    /\ recorder \in {"nobody", "worker", "caller"}
    /\ late \subseteq 1..Count

\* One worker at a time is past the test with the mutex, and what it was admitted for
\* is still there.
Admission ==
    /\ \A v, w \in Workers : pc[v] = "admitted" /\ pc[w] = "admitted" => v = w
    /\ \A w \in Workers : pc[w] = "admitted" => next_index < Count

\* A worker in or behind its callback holds a partition that was entered by it.
Holding ==
    \A w \in Workers : pc[w] \in {"running", "ran"} =>
        /\ claim[w].part \in 1..next_index
        /\ <<w, claim[w].part, "entered">> \in ran
        /\ pc[w] = "running" => \A v \in Workers : \A how \in {"ok", "failed"} :
                                    <<v, claim[w].part, how>> \notin ran
        /\ pc[w] = "ran" => <<w, claim[w].part, IF claim[w].ok THEN "ok" ELSE "failed">> \in ran

\* Only claimed partitions have been entered, each by one worker, and a callback
\* ends where it was entered, one way or the other.
Once ==
    /\ \A w \in Workers, p \in 1..Count :
        <<w, p, "entered">> \in ran =>
            /\ p <= next_index
            /\ \A v \in Workers : <<v, p, "entered">> \in ran => v = w
    /\ \A w \in Workers, p \in 1..Count, how \in {"ok", "failed"} :
        <<w, p, how>> \in ran => <<w, p, "entered">> \in ran
    /\ \A w, v \in Workers, p \in 1..Count :
        ~(<<w, p, "ok">> \in ran /\ <<v, p, "failed">> \in ran)

\* Partitions whose callback has ended and whose worker has told the report so.
Counted(how) ==
    {p \in 1..Count : /\ \E w \in Workers : <<w, p, how>> \in ran
                      /\ \A w \in Workers : ~(pc[w] = "ran" /\ claim[w].part = p)}

Counts ==
    /\ report.completed = Cardinality(Counted("ok"))
    /\ report.failed = Cardinality(Counted("failed"))

\* Why an OK is earned: without a failure, a claimed partition has succeeded or is
\* still at a worker, and workers leave when everything has been claimed.
Progress ==
    /\ report.cancelled => failed
    /\ \A w \in Workers : pc[w] = "unborn" <=> w > created
    /\ \A w \in Workers : pc[w] = "exited" => failed \/ next_index = Count
    /\ \A p \in 1..next_index :
        \/ failed
        \/ \E w \in Workers : <<w, p, "ok">> \in ran
        \/ \E w \in Workers : pc[w] = "running" /\ claim[w].part = p
        \/ \E w \in Workers : pc[w] = "ran" /\ ~claim[w].ok

\* What an OK has established; the workers are gone by then.
Earned ==
    /\ caller = "returned" => \A w \in Workers : pc[w] \in {"unborn", "exited"}
    /\ result # "none" => caller = "returned"
    /\ result = "ok" =>
        /\ ~report.cancelled
        /\ \A p \in 1..Count : \E w \in Workers : <<w, p, "ok">> \in ran

Inv == Typed /\ Admission /\ Holding /\ Once /\ Counts /\ Progress /\ Earned

-----------------------------------------------------------------------------
(* Plans and workers *)

LEMMA PlanFacts ==
    ASSUME plan \in Plans
    PROVE  /\ plan.parts \in Seq(Partitions)
           /\ plan.input \in Nat /\ plan.target \in Nat
           /\ ValidPlan(plan.parts, plan.input, plan.target)
           /\ Count \in Nat
           /\ \A part \in 1..Count : Bytes(part) \in Nat
<1>1. /\ plan.parts \in Seq(Partitions)
      /\ plan.input \in Nat /\ plan.target \in Nat
      /\ ValidPlan(plan.parts, plan.input, plan.target)
  BY ExecutorAssumption
<1>2. /\ Len(plan.parts) \in Nat
      /\ \A i \in 1..Len(plan.parts) : plan.parts[i].length \in Nat
  BY <1>1, PlanMembers
<1> QED
  BY <1>1, <1>2 DEF Count, Bytes

LEMMA WorkerFacts ==
    /\ MaxWorkers \in Nat \ {0}
    /\ plan \in Plans => /\ Used \in 0..MaxWorkers /\ Used <= Count
                         /\ Count > 0 => Used > 0
<1>1. MaxWorkers \in Nat \ {0}
  BY ExecutorAssumption, MaxPartitionsAssumption
<1> QED
  BY <1>1, PlanFacts DEF Used

-----------------------------------------------------------------------------
(* The initial state *)

LEMMA InitInv == Init => Inv
<1> SUFFICES ASSUME Init PROVE Inv
  OBVIOUS
<1>1. plan \in Plans
  BY DEF Init
<1>2. Count \in Nat /\ Used \in 0..MaxWorkers
  BY <1>1, PlanFacts, WorkerFacts
<1>3. Typed
  <2>1. claim \in [Workers -> [part : 0..Count, ok : BOOLEAN]]
    BY <1>2 DEF Init, NoClaim
  <2>2. /\ options \in [fail_fast : BOOLEAN, max_bytes : Budgets]
        /\ pc \in [Workers -> {"unborn", "top", "admitted", "running", "ran", "exited"}]
        /\ bytes \in [Workers -> Nat]
        /\ report \in [completed : Nat, failed : Nat, assigned : Nat, cancelled : BOOLEAN]
    BY DEF Init
  <2>3. created \in 0..Used /\ next_index \in 0..Count
    BY <1>2, WorkerFacts DEF Init
  <2> QED
    BY <1>1, <2>1, <2>2, <2>3 DEF Init, Typed
<1>4. Admission /\ Holding /\ Once /\ Earned
  BY DEF Init, Admission, Holding, Once, Earned
<1>5. Counts
  <2>1. Counted("ok") = {} /\ Counted("failed") = {}
    BY DEF Init, Counted
  <2> QED
    BY <2>1, FS_EmptySet DEF Init, Counts
<1>6. Progress
  BY <1>2, WorkerFacts DEF Init, Progress, Workers
<1> QED
  BY <1>3, <1>4, <1>5, <1>6 DEF Inv

-----------------------------------------------------------------------------
(* Steps *)

LEMMA AdmissionStep ==
    ASSUME Inv, [Next]_vars
    PROVE  Admission'
<1>1. Typed /\ Admission
  BY DEF Inv
<1>2. next_index \in 0..Count /\ Count \in Nat
  BY <1>1, PlanFacts DEF Typed
<1>3. ASSUME plan' = plan, next_index' = next_index,
             \A w \in Workers : pc'[w] = "admitted" => pc[w] = "admitted"
      PROVE  Admission'
  BY <1>1, <1>3 DEF Admission, Count
<1>4. CASE Caller
  <2>1. plan' = plan /\ next_index' = next_index
    BY <1>4 DEF Caller, Create, CreateFails, AllCreated, ReturnResult
  <2>2. \A w \in Workers : pc'[w] = "admitted" => pc[w] = "admitted"
    BY <1>1, <1>4 DEF Caller, Create, CreateFails, AllCreated, ReturnResult, Typed
  <2> QED
    BY <1>3, <2>1, <2>2
<1>5. ASSUME NEW w \in Workers, Worker(w) PROVE Admission'
  <2>1. plan' = plan
    BY <1>5 DEF Worker, Stop, Admit, Cancel, OverBudget, Claim, WorkerReturns, RecordCompleted,
                RecordFailed, CallerUnchanged
  <2>2. CASE Admit(w)
    <3>1. /\ next_index' = next_index /\ next_index < Count
          /\ \A v \in Workers : pc[v] # "admitted"
          /\ \A v \in Workers : v # w => pc'[v] = pc[v]
      BY <1>1, <1>2, <2>2 DEF Admit, MustStop, MutexFree, Typed
    <3> QED
      BY <2>1, <3>1 DEF Admission, Count
  <2>3. CASE Cancel(w) \/ OverBudget(w) \/ Claim(w)
    <3>1. /\ pc[w] = "admitted" /\ pc'[w] # "admitted"
          /\ \A v \in Workers : v # w => pc'[v] = pc[v]
      BY <1>1, <2>3 DEF Cancel, OverBudget, Claim, Typed
    <3>2. \A v \in Workers : pc'[v] # "admitted"
      BY <1>1, <3>1 DEF Admission
    <3> QED
      BY <3>2 DEF Admission
  <2>4. CASE \/ Stop(w) \/ RecordCompleted(w) \/ RecordFailed(w)
             \/ \E ok \in BOOLEAN : WorkerReturns(w, ok)
    <3>1. /\ next_index' = next_index
          /\ \A v \in Workers : pc'[v] = "admitted" => pc[v] = "admitted"
      BY <1>1, <2>4 DEF Stop, RecordCompleted, RecordFailed, WorkerReturns, Typed
    <3> QED
      BY <1>3, <2>1, <3>1
  <2> QED
    BY <1>5, <2>2, <2>3, <2>4 DEF Worker
<1>6. CASE UNCHANGED vars
  BY <1>3, <1>6 DEF vars
<1> QED
  BY <1>4, <1>5, <1>6 DEF Next, Returned

LEMMA TypedStep ==
    ASSUME Inv, [Next]_vars
    PROVE  Typed'
<1>1. Typed /\ Admission
  BY DEF Inv
<1>2. /\ Count \in Nat /\ \A part \in 1..Count : Bytes(part) \in Nat
      /\ MaxWorkers \in Nat /\ Used \in 0..MaxWorkers
  BY <1>1, PlanFacts, WorkerFacts DEF Typed
<1>3. plan' = plan => Count' = Count /\ Used' = Used
  BY DEF Count, Used
<1>4. ASSUME Caller PROVE Typed'
  <2>1. plan' = plan
    BY <1>4 DEF Caller, Create, CreateFails, AllCreated, ReturnResult
  <2>2. Outcome \in {"ok", "data", "internal"}
    BY DEF Outcome
  <2>3. CASE Create
    <3>1. created' \in 0..Used /\ created' = created + 1
      BY <1>1, <1>2, <1>3, <2>1, <2>3 DEF Create, Typed
    <3>2. pc' \in [Workers -> {"unborn", "top", "admitted", "running", "ran", "exited"}]
      BY <1>1, <2>3 DEF Create, Typed
    <3> QED
      BY <1>1, <1>3, <2>1, <2>3, <3>1, <3>2 DEF Create, Typed
  <2>4. CASE CreateFails
    BY <1>1, <1>2, <1>3, <2>1, <2>4 DEF CreateFails, RecordsFailure, Typed
  <2>5. CASE AllCreated
    BY <1>1, <1>2, <1>3, <2>1, <2>5 DEF AllCreated, Typed
  <2>6. CASE ReturnResult
    BY <1>1, <1>2, <1>3, <2>1, <2>2, <2>6 DEF ReturnResult, Typed
  <2> QED
    BY <1>4, <2>3, <2>4, <2>5, <2>6 DEF Caller
<1>5. ASSUME NEW w \in Workers, Worker(w) PROVE Typed'
  <2>1. plan' = plan /\ options' = options /\ caller' = caller /\ created' = created
        /\ result' = result
    BY <1>5 DEF Worker, Stop, Admit, Cancel, OverBudget, Claim, WorkerReturns, RecordCompleted,
                RecordFailed, CallerUnchanged
  <2>2. CASE Stop(w)
    BY <1>1, <1>3, <2>1, <2>2 DEF Stop, Typed
  <2>3. CASE Cancel(w)
    BY <1>1, <1>3, <2>1, <2>3 DEF Cancel, RecordsFailure, Typed
  <2>4. CASE OverBudget(w)
    BY <1>1, <1>2, <1>3, <2>1, <2>4 DEF OverBudget, RecordsFailure, Admission, Typed
  <2>5. CASE Claim(w)
    <3>1. next_index + 1 \in 1..Count /\ next_index' = next_index + 1
      BY <1>1, <1>2, <2>5 DEF Claim, Admission, Advanced, Typed
    <3>2. Bytes(next_index + 1) \in Nat
      BY <1>2, <3>1
    <3>3. bytes' \in [Workers -> Nat]
      BY <1>1, <2>5, <3>2 DEF Claim, Typed
    <3>4. report' \in [completed : Nat, failed : Nat, assigned : Nat, cancelled : BOOLEAN]
      BY <1>1, <2>5, <3>2 DEF Claim, Typed
    <3>5. claim' \in [Workers -> [part : 0..Count, ok : BOOLEAN]]
      BY <1>1, <1>2, <2>5, <3>1 DEF Claim, Typed
    <3>6. pc' \in [Workers -> {"unborn", "top", "admitted", "running", "ran", "exited"}]
      BY <1>1, <2>5 DEF Claim, Typed
    <3>7. ran' \subseteq Workers \X (1..Count) \X {"entered", "ok", "failed"}
      BY <1>1, <1>5, <2>5, <3>1 DEF Claim, Typed
    <3>8. /\ next_index' \in 0..Count /\ failed' = failed /\ first_error' = first_error
          /\ recorder' = recorder /\ late' \subseteq 1..Count
      BY <1>1, <1>2, <2>5, <3>1 DEF Claim, Typed
    <3> QED
      BY <1>1, <1>3, <2>1, <3>3, <3>4, <3>5, <3>6, <3>7, <3>8 DEF Typed
  <2>6. ASSUME NEW ok \in BOOLEAN, WorkerReturns(w, ok) PROVE Typed'
    <3>1. claim[w].part \in 1..Count
      BY <1>1, <1>2, <2>6 DEF Inv, Holding, WorkerReturns, Typed
    <3>2. ran' \subseteq Workers \X (1..Count) \X {"entered", "ok", "failed"}
      BY <1>1, <1>5, <2>6, <3>1 DEF WorkerReturns, Typed
    <3>3. claim' \in [Workers -> [part : 0..Count, ok : BOOLEAN]]
      BY <1>1, <2>6 DEF WorkerReturns, Typed
    <3>4. pc' \in [Workers -> {"unborn", "top", "admitted", "running", "ran", "exited"}]
      BY <1>1, <2>6 DEF WorkerReturns, Typed
    <3> QED
      BY <1>1, <1>3, <2>1, <2>6, <3>2, <3>3, <3>4 DEF WorkerReturns, Typed
  <2>7. CASE RecordCompleted(w)
    BY <1>1, <1>3, <2>1, <2>7 DEF RecordCompleted, Typed
  <2>8. CASE RecordFailed(w)
    BY <1>1, <1>3, <2>1, <2>8 DEF RecordFailed, RecordsFailure, Typed
  <2>9. CASE Admit(w)
    BY <1>1, <1>3, <2>1, <2>9 DEF Admit, Typed
  <2> QED
    BY <1>5, <2>2, <2>3, <2>4, <2>5, <2>6, <2>7, <2>8, <2>9 DEF Worker
<1>6. CASE UNCHANGED vars
  BY <1>1, <1>3, <1>6 DEF vars, Typed
<1> QED
  BY <1>4, <1>5, <1>6 DEF Next, Returned

\* What the steps of a worker leave of the records: the shape of each of them.
LEMMA HoldingStep ==
    ASSUME Inv, [Next]_vars
    PROVE  Holding' /\ Once'
<1>1. Typed /\ Admission /\ Holding /\ Once
  BY DEF Inv
<1>2. Count \in Nat /\ next_index \in 0..Count
  BY <1>1, PlanFacts DEF Typed
<1>3. ASSUME UNCHANGED <<plan, claim, next_index, ran>>,
             \A w \in Workers : pc'[w] \in {"running", "ran"} => pc'[w] = pc[w]
      PROVE  Holding' /\ Once'
  BY <1>1, <1>3 DEF Holding, Once, Count
<1>4. ASSUME Caller PROVE Holding' /\ Once'
  <2>1. UNCHANGED <<plan, claim, next_index, ran>>
    BY <1>4 DEF Caller, Create, CreateFails, AllCreated, ReturnResult
  <2>2. \A w \in Workers : pc'[w] \in {"running", "ran"} => pc'[w] = pc[w]
    BY <1>1, <1>4 DEF Caller, Create, CreateFails, AllCreated, ReturnResult, Typed
  <2> QED
    BY <1>3, <2>1, <2>2
<1>5. ASSUME NEW w \in Workers, Worker(w) PROVE Holding' /\ Once'
  <2>1. CASE Stop(w) \/ Admit(w) \/ Cancel(w) \/ RecordCompleted(w) \/ RecordFailed(w)
    <3>1. UNCHANGED <<plan, claim, next_index, ran>>
      BY <2>1 DEF Stop, Admit, Cancel, RecordCompleted, RecordFailed, CallerUnchanged
    <3>2. \A v \in Workers : pc'[v] \in {"running", "ran"} => pc'[v] = pc[v]
      BY <1>1, <2>1 DEF Stop, Admit, Cancel, RecordCompleted, RecordFailed, Typed
    <3> QED
      BY <1>3, <3>1, <3>2
  <2>2. CASE OverBudget(w)
    <3>1. UNCHANGED <<plan, claim, ran>> /\ next_index' = next_index + 1
      BY <2>2 DEF OverBudget, CallerUnchanged
    <3>2. \A v \in Workers : pc'[v] \in {"running", "ran"} => pc'[v] = pc[v]
      BY <1>1, <2>2 DEF OverBudget, Typed
    <3>3. Holding'
      BY <1>1, <1>2, <3>1, <3>2 DEF Holding
    <3>4. Once'
      BY <1>1, <1>2, <3>1 DEF Once, Count
    <3> QED
      BY <3>3, <3>4
  <2>3. CASE Claim(w)
    <3> DEFINE new == next_index + 1
    <3>1. /\ plan' = plan /\ next_index' = new /\ new \in 1..Count
          /\ ran' = ran \cup {<<w, new, "entered">>}
          /\ pc' = [pc EXCEPT ![w] = "running"]
          /\ claim' = [claim EXCEPT ![w] = [part |-> new, ok |-> FALSE]]
      BY <1>1, <1>2, <2>3 DEF Claim, Admission, Advanced, CallerUnchanged
    <3>2. \A v \in Workers : \A how \in {"entered", "ok", "failed"} : <<v, new, how>> \notin ran
      <4>1. \A v \in Workers : <<v, new, "entered">> \notin ran
        <5>1. ~(new <= next_index)
          BY <1>2
        <5> HIDE DEF new
        <5> QED
          BY <1>1, <3>1, <5>1 DEF Once
      <4> HIDE DEF new
      <4>2. \A v \in Workers : \A how \in {"ok", "failed"} : <<v, new, how>> \notin ran
        BY <1>1, <3>1, <4>1 DEF Once
      <4> QED
        BY <4>1, <4>2
    <3> HIDE DEF new
    <3>3. new > next_index /\ new \in Nat
      BY <1>2 DEF new
    <3>4. Holding'
      <4> SUFFICES ASSUME NEW v \in Workers, pc'[v] \in {"running", "ran"}
                   PROVE  /\ claim'[v].part \in 1..new
                          /\ <<v, claim'[v].part, "entered">> \in ran'
                          /\ pc'[v] = "running" =>
                                \A u \in Workers : \A how \in {"ok", "failed"} :
                                    <<u, claim'[v].part, how>> \notin ran'
                          /\ pc'[v] = "ran" =>
                                <<v, claim'[v].part, IF claim'[v].ok THEN "ok" ELSE "failed">>
                                    \in ran'
        BY <3>1 DEF Holding
      <4>1. CASE v = w
        <5>1. pc'[v] = "running" /\ claim'[v].part = new
          BY <1>1, <3>1, <4>1 DEF Typed
        <5>2. \A u \in Workers : \A how \in {"ok", "failed"} : <<u, new, how>> \notin ran'
          BY <3>1, <3>2
        <5>3. <<w, new, "entered">> \in ran' /\ new \in 1..new
          BY <3>1, <3>3
        <5> QED
          BY <4>1, <5>1, <5>2, <5>3
      <4>2. CASE v # w
        <5>1. pc'[v] = pc[v] /\ claim'[v] = claim[v]
          BY <1>1, <3>1, <4>2 DEF Typed
        <5>2. /\ claim[v].part \in 1..next_index
              /\ <<v, claim[v].part, "entered">> \in ran
              /\ pc[v] = "running" =>
                    \A u \in Workers : \A how \in {"ok", "failed"} :
                        <<u, claim[v].part, how>> \notin ran
              /\ pc[v] = "ran" =>
                    <<v, claim[v].part, IF claim[v].ok THEN "ok" ELSE "failed">> \in ran
          BY <1>1, <5>1 DEF Holding
        <5> QED
          BY <1>2, <3>1, <3>3, <5>1, <5>2
      <4> QED
        BY <4>1, <4>2
    <3>5. Once'
      BY <1>1, <1>2, <3>1, <3>2, <3>3 DEF Once, Count
    <3> QED
      BY <3>4, <3>5
  <2>4. ASSUME NEW ok \in BOOLEAN, WorkerReturns(w, ok) PROVE Holding' /\ Once'
    <3> DEFINE part == claim[w].part
               how == IF ok THEN "ok" ELSE "failed"
    <3>1. /\ plan' = plan /\ next_index' = next_index
          /\ ran' = ran \cup {<<w, part, how>>}
          /\ pc[w] = "running"
          /\ pc' = [pc EXCEPT ![w] = "ran"]
          /\ claim' = [claim EXCEPT ![w].ok = ok]
      BY <2>4 DEF WorkerReturns, CallerUnchanged
    <3>2. /\ part \in 1..next_index /\ part \in 1..Count
          /\ <<w, part, "entered">> \in ran
          /\ \A v \in Workers : \A h \in {"ok", "failed"} : <<v, part, h>> \notin ran
          /\ \A v \in Workers : <<v, part, "entered">> \in ran => v = w
      <4>1. /\ part \in 1..next_index
            /\ <<w, part, "entered">> \in ran
            /\ \A v \in Workers : \A h \in {"ok", "failed"} : <<v, part, h>> \notin ran
        BY <1>1, <3>1 DEF Holding
      <4>2. part \in 1..Count
        BY <1>2, <4>1
      <4> QED
        BY <1>1, <4>1, <4>2 DEF Once
    <3>3. /\ claim'[w].part = part /\ claim'[w].ok = ok /\ pc'[w] = "ran"
          /\ \A v \in Workers : v # w => claim'[v] = claim[v] /\ pc'[v] = pc[v]
      BY <1>1, <3>1 DEF Typed
    <3>4. how \in {"ok", "failed"}
      OBVIOUS
    <3>5. claim'[w].ok => how = "ok"
      BY <3>3
    <3>6. ~claim'[w].ok => how = "failed"
      BY <3>3
    <3> HIDE DEF part, how
    <3>7. Holding'
      <4> SUFFICES ASSUME NEW v \in Workers, pc'[v] \in {"running", "ran"}
                   PROVE  /\ claim'[v].part \in 1..next_index
                          /\ <<v, claim'[v].part, "entered">> \in ran'
                          /\ pc'[v] = "running" =>
                                \A u \in Workers : \A h \in {"ok", "failed"} :
                                    <<u, claim'[v].part, h>> \notin ran'
                          /\ pc'[v] = "ran" =>
                                <<v, claim'[v].part, IF claim'[v].ok THEN "ok" ELSE "failed">>
                                    \in ran'
        BY <3>1 DEF Holding
      <4>1. CASE v = w
        BY <3>1, <3>2, <3>3, <3>5, <3>6, <4>1
      <4>2. CASE v # w
        <5>1. pc'[v] = pc[v] /\ claim'[v] = claim[v]
          BY <3>3, <4>2
        <5>2. /\ claim[v].part \in 1..next_index
              /\ <<v, claim[v].part, "entered">> \in ran
              /\ pc[v] = "running" =>
                    \A u \in Workers : \A h \in {"ok", "failed"} :
                        <<u, claim[v].part, h>> \notin ran
              /\ pc[v] = "ran" =>
                    <<v, claim[v].part, IF claim[v].ok THEN "ok" ELSE "failed">> \in ran
          BY <1>1, <5>1 DEF Holding
        <5>3. claim[v].part # part
          BY <3>2, <4>2, <5>2
        <5> QED
          BY <3>1, <5>1, <5>2, <5>3
      <4> QED
        BY <4>1, <4>2
    <3>8. Once'
      <4>1. \A v \in Workers, p \in 1..Count : <<v, p, "entered">> \in ran' => <<v, p, "entered">> \in ran
        BY <3>1, <3>4
      <4>2. \A v \in Workers, p \in 1..Count, h \in {"ok", "failed"} :
              <<v, p, h>> \in ran' => <<v, p, h>> \in ran \/ (v = w /\ p = part /\ h = how)
        BY <3>1
      <4>3. ran \subseteq ran' /\ Count' = Count
        BY <3>1 DEF Count
      <4>4. \A v, u \in Workers, p \in 1..Count : ~(<<v, p, "ok">> \in ran' /\ <<u, p, "failed">> \in ran')
        BY <1>1, <3>2, <4>2 DEF Once
      <4>5. \A v \in Workers, p \in 1..Count, h \in {"ok", "failed"} :
              <<v, p, h>> \in ran' => <<v, p, "entered">> \in ran'
        BY <1>1, <3>2, <4>2, <4>3 DEF Once
      <4>6. \A v \in Workers, p \in 1..Count :
              <<v, p, "entered">> \in ran' =>
                  /\ p <= next_index'
                  /\ \A u \in Workers : <<u, p, "entered">> \in ran' => u = v
        BY <1>1, <3>1, <4>1 DEF Once
      <4> QED
        BY <4>3, <4>4, <4>5, <4>6 DEF Once
    <3> QED
      BY <3>7, <3>8
  <2> QED
    BY <1>5, <2>1, <2>2, <2>3, <2>4 DEF Worker
<1>6. CASE UNCHANGED vars
  BY <1>3, <1>6 DEF vars
<1> QED
  BY <1>4, <1>5, <1>6 DEF Next, Returned

LEMMA CountedFinite ==
    ASSUME Typed, NEW how \in {"ok", "failed"}
    PROVE  /\ IsFiniteSet(Counted(how))
           /\ Cardinality(Counted(how)) \in 0..Count
<1>1. Count \in Nat
  BY PlanFacts DEF Typed
<1>2. IsFiniteSet(1..Count) /\ Cardinality(1..Count) = Count
  BY <1>1, FS_Interval
<1>3. Counted(how) \in SUBSET (1..Count)
  BY DEF Counted
<1>4. IsFiniteSet(Counted(how)) /\ Cardinality(Counted(how)) <= Cardinality(1..Count)
  BY <1>2, <1>3, FS_Subset
<1> QED
  BY <1>1, <1>2, <1>4, FS_CardinalityType

\* A worker that tells the report how its callback ended adds its partition to those
\* counted that way, and to no others.
LEMMA RecordStep ==
    ASSUME Inv, NEW w \in Workers, pc[w] = "ran",
           pc' = [pc EXCEPT ![w] = "top"], UNCHANGED <<plan, claim, ran>>,
           NEW how \in {"ok", "failed"}
    PROVE  IF how = (IF claim[w].ok THEN "ok" ELSE "failed")
           THEN /\ claim[w].part \notin Counted(how)
                /\ Counted(how)' = Counted(how) \cup {claim[w].part}
           ELSE Counted(how)' = Counted(how)
<1> DEFINE part == claim[w].part
           mine == IF claim[w].ok THEN "ok" ELSE "failed"
<1>1. Typed /\ Holding /\ Once
  BY DEF Inv
<1>2. next_index \in 0..Count /\ Count \in Nat
  BY <1>1, PlanFacts DEF Typed
<1>3. /\ part \in 1..Count
      /\ <<w, part, "entered">> \in ran
      /\ <<w, part, mine>> \in ran
  BY <1>1, <1>2 DEF Holding
<1>4. mine \in {"ok", "failed"}
  OBVIOUS
<1>5. \A v \in Workers : v # w => pc'[v] = pc[v]
  BY <1>1 DEF Typed
<1>6. pc'[w] = "top"
  BY <1>1 DEF Typed
<1>7. Count' = Count
  BY DEF Count
<1> HIDE DEF mine
<1>8. \A v \in Workers : v # w /\ pc[v] = "ran" => claim[v].part # part
  BY <1>1, <1>3 DEF Holding, Once
<1>9. how # mine => \A v \in Workers : <<v, part, how>> \notin ran
  BY <1>1, <1>3, <1>4 DEF Once
<1> HIDE DEF part
<1>10. part \notin Counted(how)
  BY DEF Counted, part
<1>11. \A p \in 1..Count : p # part => (p \in Counted(how)' <=> p \in Counted(how))
  BY <1>5, <1>6, <1>7 DEF Counted, part
<1>12. Counted(how) \subseteq 1..Count /\ Counted(how)' \subseteq 1..Count
  BY <1>7 DEF Counted
<1>13. how = mine => part \in Counted(how)'
  BY <1>3, <1>5, <1>6, <1>7, <1>8 DEF Counted
<1>14. how # mine => part \notin Counted(how)'
  BY <1>9 DEF Counted
<1> QED
  BY <1>3, <1>10, <1>11, <1>12, <1>13, <1>14 DEF part, mine

LEMMA CountsStep ==
    ASSUME Inv, [Next]_vars
    PROVE  Counts'
<1>1. Typed /\ Holding /\ Once /\ Counts
  BY DEF Inv
<1>2. next_index \in 0..Count /\ Count \in Nat
  BY <1>1, PlanFacts DEF Typed
<1>3. ASSUME UNCHANGED <<plan, claim, ran>>,
             report'.completed = report.completed, report'.failed = report.failed,
             \A w \in Workers : pc'[w] = "ran" <=> pc[w] = "ran"
      PROVE  Counts'
  <2>1. \A how \in {"ok", "failed"} : Counted(how)' = Counted(how)
    BY <1>3 DEF Counted, Count
  <2> QED
    BY <1>1, <1>3, <2>1 DEF Counts
<1>4. ASSUME Caller PROVE Counts'
  <2>1. UNCHANGED <<plan, claim, ran, report>>
    BY <1>4 DEF Caller, Create, CreateFails, AllCreated, ReturnResult
  <2>2. \A w \in Workers : pc'[w] = "ran" <=> pc[w] = "ran"
    <3>1. CASE Create
      <4>1. pc[created + 1] = "ran" => created + 1 \notin Workers
        BY <1>1, <3>1, WorkerFacts DEF Create, Inv, Progress, Typed, Workers
      <4> QED
        BY <1>1, <3>1, <4>1 DEF Create, Typed
    <3>2. CASE ~Create
      BY <1>4, <3>2 DEF Caller, CreateFails, AllCreated, ReturnResult
    <3> QED
      BY <3>1, <3>2
  <2> QED
    BY <1>3, <2>1, <2>2
<1>5. ASSUME NEW w \in Workers, Worker(w) PROVE Counts'
  <2>1. CASE Stop(w) \/ Admit(w) \/ Cancel(w) \/ OverBudget(w)
    <3>1. UNCHANGED <<plan, claim, ran>> /\ report'.completed = report.completed
          /\ report'.failed = report.failed
      BY <1>1, <2>1 DEF Stop, Admit, Cancel, OverBudget, CallerUnchanged, Typed
    <3>2. \A v \in Workers : pc'[v] = "ran" <=> pc[v] = "ran"
      BY <1>1, <2>1 DEF Stop, Admit, Cancel, OverBudget, Typed
    <3> QED
      BY <1>3, <3>1, <3>2
  <2>2. CASE Claim(w)
    <3>1. /\ plan' = plan
          /\ ran' = ran \cup {<<w, next_index + 1, "entered">>}
          /\ report'.completed = report.completed /\ report'.failed = report.failed
          /\ \A v \in Workers : pc'[v] = "ran" <=> pc[v] = "ran"
          /\ \A v \in Workers : pc[v] = "ran" => claim'[v] = claim[v]
      BY <1>1, <2>2 DEF Claim, CallerUnchanged, Typed
    <3>2. \A v \in Workers, p \in 1..Count : \A how \in {"ok", "failed"} :
            <<v, p, how>> \in ran' <=> <<v, p, how>> \in ran
      BY <3>1
    <3>3. \A how \in {"ok", "failed"} : Counted(how)' = Counted(how)
      BY <3>1, <3>2 DEF Counted, Count
    <3> QED
      BY <1>1, <3>1, <3>3 DEF Counts
  <2>3. ASSUME NEW ok \in BOOLEAN, WorkerReturns(w, ok) PROVE Counts'
    <3> DEFINE part == claim[w].part
               mine == IF ok THEN "ok" ELSE "failed"
    <3>1. /\ plan' = plan /\ report' = report
          /\ ran' = ran \cup {<<w, part, mine>>}
          /\ pc[w] = "running" /\ pc'[w] = "ran" /\ claim'[w].part = part
          /\ \A v \in Workers : v # w => pc'[v] = pc[v] /\ claim'[v] = claim[v]
      BY <1>1, <2>3 DEF WorkerReturns, CallerUnchanged, Typed
    <3>2. \A v \in Workers : \A how \in {"ok", "failed"} : <<v, part, how>> \notin ran
      BY <1>1, <3>1 DEF Holding
    <3> HIDE DEF part, mine
    <3>3. ASSUME NEW how \in {"ok", "failed"} PROVE Counted(how)' = Counted(how)
      <4>1. part \notin Counted(how)
        BY <3>2 DEF Counted
      <4>2. part \notin Counted(how)'
        BY <3>1 DEF Counted
      <4>3. \A p \in 1..Count : p # part => (p \in Counted(how)' <=> p \in Counted(how))
        <5>1. \A p \in 1..Count : p # part =>
                \A v \in Workers : <<v, p, how>> \in ran' <=> <<v, p, how>> \in ran
          BY <3>1
        <5>2. \A p \in 1..Count : p # part =>
                \A v \in Workers : (pc'[v] = "ran" /\ claim'[v].part = p)
                                    <=> (pc[v] = "ran" /\ claim[v].part = p)
          BY <3>1
        <5> QED
          BY <3>1, <5>1, <5>2 DEF Counted, Count
      <4>4. Counted(how) \subseteq 1..Count /\ Counted(how)' \subseteq 1..Count
        BY <3>1 DEF Counted, Count
      <4> QED
        BY <4>1, <4>2, <4>3, <4>4
    <3> QED
      BY <1>1, <3>1, <3>3 DEF Counts
  <2>4. CASE RecordCompleted(w)
    <3>1. /\ claim[w].part \notin Counted("ok")
          /\ Counted("ok")' = Counted("ok") \cup {claim[w].part}
          /\ Counted("failed")' = Counted("failed")
      BY <2>4, RecordStep DEF RecordCompleted, CallerUnchanged
    <3>2. report'.completed = report.completed + 1 /\ report'.failed = report.failed
      BY <1>1, <2>4 DEF RecordCompleted, Typed
    <3>3. Cardinality(Counted("ok") \cup {claim[w].part}) = Cardinality(Counted("ok")) + 1
      BY <1>1, <3>1, CountedFinite, FS_AddElement
    <3> QED
      BY <1>1, <3>1, <3>2, <3>3 DEF Counts
  <2>5. CASE RecordFailed(w)
    <3>1. /\ claim[w].part \notin Counted("failed")
          /\ Counted("failed")' = Counted("failed") \cup {claim[w].part}
          /\ Counted("ok")' = Counted("ok")
      BY <2>5, RecordStep DEF RecordFailed, CallerUnchanged
    <3>2. report'.failed = report.failed + 1 /\ report'.completed = report.completed
      BY <1>1, <2>5 DEF RecordFailed, Typed
    <3>3. Cardinality(Counted("failed") \cup {claim[w].part})
            = Cardinality(Counted("failed")) + 1
      BY <1>1, <3>1, CountedFinite, FS_AddElement
    <3> QED
      BY <1>1, <3>1, <3>2, <3>3 DEF Counts
  <2> QED
    BY <1>5, <2>1, <2>2, <2>3, <2>4, <2>5 DEF Worker
<1>6. CASE UNCHANGED vars
  BY <1>3, <1>6 DEF vars
<1> QED
  BY <1>4, <1>5, <1>6 DEF Next, Returned

LEMMA ProgressStep ==
    ASSUME Inv, [Next]_vars
    PROVE  Progress'
<1>1. Typed /\ Admission /\ Holding /\ Progress
  BY DEF Inv
<1>2. next_index \in 0..Count /\ Count \in Nat /\ MaxWorkers \in Nat
  BY <1>1, PlanFacts, WorkerFacts DEF Typed
<1>3. ASSUME Caller PROVE Progress'
  <2>1. /\ UNCHANGED <<plan, claim, ran, report, next_index>>
        /\ failed => failed'
    BY <1>1, <1>3 DEF Caller, Create, CreateFails, RecordsFailure, AllCreated, ReturnResult, Typed
  <2>2. CASE Create
    <3>1. created' = created + 1 /\ created \in Nat /\ pc[created + 1] = "unborn" /\ created + 1 \in Workers
      BY <1>1, <1>2, <2>2, WorkerFacts DEF Create, Progress, Typed, Workers
    <3>2. /\ pc'[created + 1] = "top"
          /\ \A w \in Workers : w # created + 1 => pc'[w] = pc[w]
      BY <1>1, <2>2, <3>1 DEF Create, Typed
    <3>3. \A w \in Workers : pc'[w] = "unborn" <=> w > created'
      BY <1>1, <1>2, <3>1, <3>2 DEF Progress, Workers
    <3>4. \A w \in Workers : pc'[w] = "exited" => failed \/ next_index = Count
      BY <1>1, <3>2 DEF Progress
    <3>5. \A w \in Workers : pc[w] \in {"running", "ran"} => pc'[w] = pc[w]
      BY <3>1, <3>2
    <3>6. ASSUME NEW p \in 1..next_index
          PROVE  \/ failed
                 \/ \E w \in Workers : <<w, p, "ok">> \in ran
                 \/ \E w \in Workers : pc'[w] = "running" /\ claim[w].part = p
                 \/ \E w \in Workers : pc'[w] = "ran" /\ ~claim[w].ok
      BY <1>1, <3>5 DEF Progress
    <3> QED
      BY <1>1, <2>1, <3>3, <3>4, <3>6 DEF Progress, Count
  <2>3. CASE ~Create
    <3>1. pc' = pc /\ created' = created
      BY <1>3, <2>3 DEF Caller, CreateFails, AllCreated, ReturnResult
    <3> QED
      BY <1>1, <2>1, <3>1 DEF Progress, Count
  <2> QED
    BY <2>2, <2>3
<1>4. ASSUME NEW w \in Workers, Worker(w) PROVE Progress'
  <2>1. /\ plan' = plan /\ created' = created
        /\ pc[w] \in {"top", "admitted", "running", "ran"}
        /\ pc'[w] \in {"top", "admitted", "running", "ran", "exited"}
        /\ \A v \in Workers : v # w => pc'[v] = pc[v] /\ claim'[v] = claim[v]
        /\ failed => failed'
        /\ ran \subseteq ran'
        /\ report'.cancelled => report.cancelled \/ failed'
    BY <1>1, <1>4 DEF Worker, Stop, Admit, Cancel, OverBudget, Claim, WorkerReturns,
          RecordCompleted, RecordFailed, RecordsFailure, CallerUnchanged, Typed
  <2>2. report'.cancelled => failed'
    BY <1>1, <2>1 DEF Progress
  <2>3. \A v \in Workers : pc'[v] = "unborn" <=> v > created'
    BY <1>1, <2>1 DEF Progress
  \* What is left: the last two conjuncts, where the worker has left the state alone
  \* or set failed.
  <2>4. CASE failed'
    BY <2>2, <2>3, <2>4 DEF Progress
  <2>5. CASE ~failed'
    <3>1. ~failed /\ ~Cancel(w) /\ ~OverBudget(w) /\ ~RecordFailed(w)
      BY <2>1, <2>5 DEF Cancel, OverBudget, RecordFailed, RecordsFailure
    <3>2. CASE Stop(w)
      <4>1. next_index = Count /\ UNCHANGED <<next_index, claim, ran>>
        BY <1>2, <3>1, <3>2 DEF Stop, MustStop
      <4>2. pc[w] = "top"
        BY <3>2 DEF Stop
      <4>3. \A v \in Workers : pc[v] \in {"running", "ran"} => pc'[v] = pc[v]
        BY <2>1, <4>2
      <4>4. next_index' = Count'
        BY <2>1, <4>1 DEF Count
      <4>5. ASSUME NEW p \in 1..next_index'
            PROVE  \/ \E v \in Workers : <<v, p, "ok">> \in ran'
                   \/ \E v \in Workers : pc'[v] = "running" /\ claim'[v].part = p
                   \/ \E v \in Workers : pc'[v] = "ran" /\ ~claim'[v].ok
        BY <1>1, <3>1, <4>1, <4>3 DEF Progress
      <4> QED
        BY <2>2, <2>3, <4>4, <4>5 DEF Progress
    <3>3. CASE Claim(w)
      <4>1. /\ next_index' = next_index + 1 /\ next_index' <= Count /\ ~(next_index = Count)
            /\ pc[w] = "admitted" /\ pc'[w] = "running" /\ claim'[w].part = next_index + 1
        BY <1>1, <1>2, <3>3 DEF Claim, Admission, Advanced, Typed
      <4>2. \A v \in Workers : pc'[v] # "exited"
        BY <1>1, <2>1, <3>1, <4>1 DEF Progress
      <4>3. ASSUME NEW p \in 1..next_index'
            PROVE  \/ \E v \in Workers : <<v, p, "ok">> \in ran'
                   \/ \E v \in Workers : pc'[v] = "running" /\ claim'[v].part = p
                   \/ \E v \in Workers : pc'[v] = "ran" /\ ~claim'[v].ok
        <5>1. CASE p = next_index + 1
          BY <4>1, <5>1
        <5>2. CASE p # next_index + 1
          <6>1. p \in 1..next_index
            BY <1>2, <4>1, <5>2
          <6>2. \/ \E v \in Workers : <<v, p, "ok">> \in ran
                \/ \E v \in Workers : pc[v] = "running" /\ claim[v].part = p
                \/ \E v \in Workers : pc[v] = "ran" /\ ~claim[v].ok
            BY <1>1, <3>1, <6>1 DEF Progress
          <6>3. \A v \in Workers : pc[v] \in {"running", "ran"} => v # w
            BY <4>1
          <6> QED
            BY <2>1, <6>2, <6>3
        <5> QED
          BY <5>1, <5>2
      <4> QED
        BY <2>2, <2>3, <4>2, <4>3 DEF Progress
    <3>4. ASSUME NEW ok \in BOOLEAN, WorkerReturns(w, ok) PROVE Progress'
      <4>1. /\ next_index' = next_index /\ pc[w] = "running" /\ pc'[w] = "ran"
            /\ claim'[w].ok = ok
            /\ ok => <<w, claim[w].part, "ok">> \in ran'
        BY <1>1, <3>4 DEF WorkerReturns, Typed
      <4>2. \A v \in Workers : pc'[v] = "exited" => next_index' = Count'
        BY <1>1, <2>1, <3>1, <4>1 DEF Progress, Count
      <4>3. ASSUME NEW p \in 1..next_index'
            PROVE  \/ \E v \in Workers : <<v, p, "ok">> \in ran'
                   \/ \E v \in Workers : pc'[v] = "running" /\ claim'[v].part = p
                   \/ \E v \in Workers : pc'[v] = "ran" /\ ~claim'[v].ok
        <5>1. \/ \E v \in Workers : <<v, p, "ok">> \in ran
              \/ \E v \in Workers : pc[v] = "running" /\ claim[v].part = p
              \/ \E v \in Workers : pc[v] = "ran" /\ ~claim[v].ok
          BY <1>1, <3>1, <4>1 DEF Progress
        <5>2. CASE pc[w] = "running" /\ claim[w].part = p
          BY <4>1, <5>2
        <5>3. CASE ~(pc[w] = "running" /\ claim[w].part = p)
          BY <2>1, <4>1, <5>1, <5>3
        <5> QED
          BY <5>2, <5>3
      <4> QED
        BY <2>2, <2>3, <4>2, <4>3 DEF Progress
    <3>5. CASE RecordCompleted(w)
      <4>1. /\ UNCHANGED <<next_index, claim, ran>> /\ claim[w].ok
            /\ pc[w] = "ran" /\ pc'[w] = "top"
        BY <1>1, <3>5 DEF RecordCompleted, Typed
      <4>2. \A v \in Workers : pc'[v] = "exited" => next_index' = Count'
        BY <1>1, <2>1, <3>1, <4>1 DEF Progress, Count
      <4>3. ASSUME NEW p \in 1..next_index'
            PROVE  \/ \E v \in Workers : <<v, p, "ok">> \in ran'
                   \/ \E v \in Workers : pc'[v] = "running" /\ claim'[v].part = p
                   \/ \E v \in Workers : pc'[v] = "ran" /\ ~claim'[v].ok
        <5>1. \/ \E v \in Workers : <<v, p, "ok">> \in ran
              \/ \E v \in Workers : pc[v] = "running" /\ claim[v].part = p
              \/ \E v \in Workers : pc[v] = "ran" /\ ~claim[v].ok
          BY <1>1, <3>1, <4>1 DEF Progress
        <5> QED
          BY <2>1, <4>1, <5>1
      <4> QED
        BY <2>2, <2>3, <4>2, <4>3 DEF Progress
    <3>6. CASE Admit(w)
      <4>1. /\ UNCHANGED <<next_index, claim, ran>>
            /\ pc[w] = "top" /\ pc'[w] = "admitted"
        BY <1>1, <3>6 DEF Admit, Typed
      <4>2. \A v \in Workers : pc'[v] = "exited" => next_index' = Count'
        BY <1>1, <2>1, <3>1, <4>1 DEF Progress, Count
      <4>3. ASSUME NEW p \in 1..next_index'
            PROVE  \/ \E v \in Workers : <<v, p, "ok">> \in ran'
                   \/ \E v \in Workers : pc'[v] = "running" /\ claim'[v].part = p
                   \/ \E v \in Workers : pc'[v] = "ran" /\ ~claim'[v].ok
        <5>1. \/ \E v \in Workers : <<v, p, "ok">> \in ran
              \/ \E v \in Workers : pc[v] = "running" /\ claim[v].part = p
              \/ \E v \in Workers : pc[v] = "ran" /\ ~claim[v].ok
          BY <1>1, <3>1, <4>1 DEF Progress
        <5> QED
          BY <2>1, <4>1, <5>1
      <4> QED
        BY <2>2, <2>3, <4>2, <4>3 DEF Progress
    <3> QED
      BY <1>4, <3>1, <3>2, <3>3, <3>4, <3>5, <3>6 DEF Worker
  <2> QED
    BY <2>4, <2>5
<1>5. CASE UNCHANGED vars
  BY <1>1, <1>5 DEF vars, Progress, Count
<1> QED
  BY <1>3, <1>4, <1>5 DEF Next, Returned

LEMMA EarnedStep ==
    ASSUME Inv, [Next]_vars
    PROVE  Earned'
<1>1. Typed /\ Progress /\ Earned
  BY DEF Inv
<1>2. next_index \in 0..Count /\ Count \in Nat /\ MaxWorkers \in Nat \ {0}
  BY <1>1, PlanFacts, WorkerFacts DEF Typed
<1>3. CASE ReturnResult
  <2>1. /\ caller' = "returned" /\ result' = Outcome
        /\ UNCHANGED <<plan, pc, report, ran>>
        /\ \A w \in 1..created : pc[w] = "exited"
    BY <1>3 DEF ReturnResult, Joined
  <2>2. \A w \in Workers : pc[w] \in {"unborn", "exited"}
    BY <1>1, <1>2, <2>1 DEF Progress, Typed, Workers
  <2>3. ASSUME Outcome = "ok"
        PROVE  /\ ~report.cancelled
               /\ \A p \in 1..Count : \E w \in Workers : <<w, p, "ok">> \in ran
    <3>1. created = Used /\ ~failed
      BY <1>1, <2>3 DEF Outcome, Typed
    <3>2. ~report.cancelled
      BY <1>1, <3>1 DEF Progress
    <3>3. ASSUME NEW p \in 1..Count PROVE \E w \in Workers : <<w, p, "ok">> \in ran
      <4>1. 1 \in 1..created /\ 1 \in Workers
        BY <1>1, <1>2, <3>1, WorkerFacts DEF Typed, Workers
      <4>2. next_index = Count
        BY <1>1, <2>1, <3>1, <4>1 DEF Progress
      <4> QED
        BY <1>1, <2>2, <3>1, <4>2 DEF Progress
    <3> QED
      BY <3>2, <3>3
  <2> QED
    BY <2>1, <2>2, <2>3 DEF Earned, Count
<1>4. CASE Create \/ CreateFails \/ AllCreated
  <2>1. result = "none" /\ result' = "none" /\ caller' # "returned"
    BY <1>1, <1>4 DEF Create, CreateFails, AllCreated, Earned
  <2> QED
    BY <2>1 DEF Earned
<1>5. ASSUME NEW w \in Workers, Worker(w) PROVE Earned'
  <2>1. pc[w] \notin {"unborn", "exited"} /\ caller' = caller /\ result' = result
    BY <1>5 DEF Worker, Stop, Admit, Cancel, OverBudget, Claim, WorkerReturns, RecordCompleted,
                RecordFailed, CallerUnchanged
  <2>2. caller # "returned" /\ result = "none"
    BY <1>1, <2>1 DEF Earned
  <2> QED
    BY <2>1, <2>2 DEF Earned
<1>6. CASE UNCHANGED vars
  BY <1>1, <1>6 DEF vars, Earned, Count
<1> QED
  BY <1>3, <1>4, <1>5, <1>6 DEF Next, Caller, Returned

-----------------------------------------------------------------------------
(* What the workers were given *)

\* The bytes of these partitions.
BytesIn(parts, input, some) ==
    {byte \in 0..(input - 1) :
        \E p \in some : byte \in parts[p].offset..(parts[p].offset + parts[p].length - 1)}

LEMMA ShareIs == ASSUME NEW some PROVE Share(some) = Cardinality(BytesIn(plan.parts, plan.input, some))
  BY DEF Share, Holds, Bytes, BytesIn

\* The bytes of a partition lie within the input.
LEMMA PartWithin ==
    ASSUME NEW parts \in Seq(Partitions), NEW input \in Nat, NEW target \in Nat,
           ValidPlan(parts, input, target), NEW p \in 1..Len(parts)
    PROVE  parts[p].offset + parts[p].length <= input
<1>1. /\ Len(parts) \in Nat /\ Len(parts) > 0 /\ Len(parts) \in 1..Len(parts)
      /\ input = PartEnd(parts[Len(parts)])
      /\ parts[p].offset \in Nat /\ parts[p].length \in Nat
      /\ parts[Len(parts)].offset \in Nat /\ parts[Len(parts)].length \in Nat
  BY PlanMembers
<1>2. CASE p = Len(parts)
  BY <1>1, <1>2 DEF PartEnd
<1>3. CASE p < Len(parts)
  <2>1. PartEnd(parts[p]) <= parts[Len(parts)].offset
    BY <1>1, <1>3, PlanOrdered
  <2> QED
    BY <1>1, <2>1 DEF PartEnd
<1> QED
  BY <1>1, <1>2, <1>3

\* A partition more adds its own length, since no two share a byte.
LEMMA PartAdds ==
    ASSUME NEW parts \in Seq(Partitions), NEW input \in Nat, NEW target \in Nat,
           ValidPlan(parts, input, target),
           NEW some \in SUBSET (1..Len(parts)), NEW p \in 1..Len(parts), p \notin some
    PROVE  /\ Cardinality(BytesIn(parts, input, some)) \in Nat
           /\ Cardinality(BytesIn(parts, input, some \cup {p}))
                = Cardinality(BytesIn(parts, input, some)) + parts[p].length
<1> DEFINE old == BytesIn(parts, input, some)
           own == parts[p].offset..(parts[p].offset + parts[p].length - 1)
<1>1. parts[p].offset \in Nat /\ parts[p].length \in Nat
  BY PlanMembers
<1>2. IsFiniteSet(old) /\ Cardinality(old) \in Nat
  <2>1. IsFiniteSet(0..(input - 1)) /\ old \subseteq 0..(input - 1)
    BY FS_Interval DEF BytesIn
  <2> HIDE DEF old
  <2> QED
    BY <2>1, FS_Subset, FS_CardinalityType
<1>3. IsFiniteSet(own) /\ Cardinality(own) = parts[p].length
  <2> DEFINE from == parts[p].offset
             size == parts[p].length
  <2>1. from \in Int /\ from + size - 1 \in Int /\ size \in Nat
    BY <1>1
  <2> HIDE DEF from, size
  <2>2. /\ IsFiniteSet(from..(from + size - 1))
        /\ Cardinality(from..(from + size - 1))
            = IF from > from + size - 1 THEN 0 ELSE (from + size - 1) - from + 1
    BY <2>1, FS_Interval
  <2>3. Cardinality(from..(from + size - 1)) = size
    BY <2>1, <2>2
  <2> QED
    BY <2>2, <2>3 DEF from, size
<1>4. own \subseteq 0..(input - 1)
  <2>1. parts[p].offset + parts[p].length <= input
    BY PartWithin
  <2> QED
    BY <1>1, <2>1
<1>5. old \cap own = {}
  <2> SUFFICES ASSUME NEW byte \in old, byte \in own PROVE FALSE
    OBVIOUS
  <2>1. byte \in 0..(input - 1)
    BY DEF BytesIn
  <2>2. PICK q \in some : byte \in parts[q].offset..(parts[q].offset + parts[q].length - 1)
    BY DEF BytesIn
  <2>3. PICK r \in 1..Len(parts) : \A t \in 1..Len(parts) :
            byte \in parts[t].offset..(PartEnd(parts[t]) - 1) => t = r
    BY <2>1, PlanTiles
  <2>4. \A t \in 1..Len(parts) :
            byte \in parts[t].offset..(parts[t].offset + parts[t].length - 1) => t = r
    <3>1. \A t \in 1..Len(parts) : parts[t].offset \in Nat /\ parts[t].length \in Nat
      BY PlanMembers
    <3>2. \A t \in 1..Len(parts) : parts[t].offset + parts[t].length - 1 = PartEnd(parts[t]) - 1
      <4>1. \A a, b \in Nat : a + b - 1 = (a + b) - 1
        OBVIOUS
      <4> QED
        BY <3>1, <4>1, Zenon DEF PartEnd
    <3> QED
      BY <2>3, <3>2, Zenon
  <2>5. q = r /\ p = r
    BY <2>2, <2>4, Zenon
  <2> QED
    BY <2>2, <2>5
<1>6. BytesIn(parts, input, some \cup {p}) = old \cup own
  BY <1>4 DEF BytesIn
<1> HIDE DEF old, own
<1>7. Cardinality(old \cup own) = Cardinality(old) + Cardinality(own) - 0
  BY <1>2, <1>3, <1>5, FS_Union, FS_EmptySet
<1>8. Cardinality(old \cup own) = Cardinality(old) + parts[p].length
  BY <1>1, <1>2, <1>3, <1>7
<1> QED
  BY <1>2, <1>6, <1>8 DEF old

\* The partitions some worker, and this worker, has entered.
AllEntered == {p \in 1..Count : \E w \in Workers : <<w, p, "entered">> \in ran}
OwnEntered(w) == {p \in 1..Count : <<w, p, "entered">> \in ran}

\* What the report and the workers' accounts say at every moment.
Given ==
    /\ report.assigned = Share(AllEntered)
    /\ \A w \in Workers : bytes[w] = Share(OwnEntered(w))
    /\ \A w \in Workers : options.max_bytes # 0 => bytes[w] <= options.max_bytes

LEMMA GivenInit == Init => Given
<1> SUFFICES ASSUME Init PROVE Given
  OBVIOUS
<1>1. AllEntered = {} /\ \A w \in Workers : OwnEntered(w) = {}
  BY DEF Init, AllEntered, OwnEntered
<1>2. BytesIn(plan.parts, plan.input, {}) = {}
  BY DEF BytesIn
<1>3. Share({}) = 0
  BY <1>2, ShareIs, FS_EmptySet
<1>4. /\ report.assigned = 0 /\ \A w \in Workers : bytes[w] = 0
      /\ options.max_bytes \in Nat
  BY ExecutorAssumption DEF Init
<1> QED
  BY <1>1, <1>3, <1>4 DEF Given

LEMMA GivenStep ==
    ASSUME Inv, Given, [Next]_vars
    PROVE  Given'
<1>1. Typed /\ Admission /\ Once
  BY DEF Inv
<1>2. next_index \in 0..Count /\ Count \in Nat /\ plan \in Plans
  BY <1>1, PlanFacts DEF Typed
<1>3. ASSUME UNCHANGED <<plan, options, bytes>>, report'.assigned = report.assigned,
             \A w \in Workers, p \in 1..Count : <<w, p, "entered">> \in ran' <=> <<w, p, "entered">> \in ran
      PROVE  Given'
  <2>1. AllEntered' = AllEntered /\ \A w \in Workers : OwnEntered(w)' = OwnEntered(w)
    BY <1>3 DEF AllEntered, OwnEntered, Count
  <2>2. Share(AllEntered)' = Share(AllEntered)
        /\ \A w \in Workers : Share(OwnEntered(w))' = Share(OwnEntered(w))
    BY <1>3, <2>1 DEF Share, Holds, Bytes
  <2> QED
    BY <1>3, <2>2 DEF Given
<1>4. ASSUME NEW w \in Workers, Claim(w)
      PROVE  Given'
  <2> DEFINE p == next_index + 1
  <2>1. p \in 1..Count
    BY <1>1, <1>2, <1>4 DEF Claim, Admission
  <2>2. /\ ran' = ran \cup {<<w, p, "entered">>}
        /\ report'.assigned = report.assigned + Bytes(p)
        /\ bytes' = [bytes EXCEPT ![w] = @ + Bytes(p)]
        /\ FitsBudget(w, p)
        /\ UNCHANGED <<plan, options>>
    BY <1>1, <1>4 DEF Claim, CallerUnchanged, Typed
  <2>3. \A v \in Workers : <<v, p, "entered">> \notin ran
    BY <1>1, <1>2, <2>1 DEF Once
  <2>4. /\ AllEntered' = AllEntered \cup {p} /\ p \notin AllEntered
        /\ OwnEntered(w)' = OwnEntered(w) \cup {p} /\ p \notin OwnEntered(w)
        /\ \A v \in Workers : v # w => OwnEntered(v)' = OwnEntered(v)
    <3> HIDE DEF p
    <3>1. Count' = Count
      BY <2>2 DEF Count
    <3> QED
      BY <2>1, <2>2, <2>3, <3>1 DEF AllEntered, OwnEntered
  <2>5. ASSUME NEW some \in SUBSET (1..Count), p \notin some
        PROVE  /\ Share(some) \in Nat
               /\ Cardinality(BytesIn(plan.parts, plan.input, some \cup {p})) = Share(some) + Bytes(p)
    <3> HIDE DEF p
    <3> QED
      BY <1>2, <2>1, <2>5, PlanFacts, PartAdds, ShareIs DEF Count, Bytes
  <2>7. /\ Share(AllEntered)' = Cardinality(BytesIn(plan.parts, plan.input, AllEntered'))
        /\ \A v \in Workers :
            Share(OwnEntered(v))' = Cardinality(BytesIn(plan.parts, plan.input, OwnEntered(v)'))
    BY <2>2 DEF Share, Holds, Bytes, BytesIn
  <2>8. /\ AllEntered \in SUBSET (1..Count)
        /\ \A v \in Workers : OwnEntered(v) \in SUBSET (1..Count)
    BY DEF AllEntered, OwnEntered
  <2> HIDE DEF p
  <2>9. Share(AllEntered)' = Share(AllEntered) + Bytes(p)
    BY <2>4, <2>5, <2>7, <2>8
  <2>10. Share(OwnEntered(w))' = Share(OwnEntered(w)) + Bytes(p)
    BY <2>4, <2>5, <2>7, <2>8
  <2>11. \A v \in Workers : v # w => Share(OwnEntered(v))' = Share(OwnEntered(v))
    BY <2>4, <2>7, ShareIs
  <2>12. bytes \in [Workers -> Nat]
    BY <1>1 DEF Typed
  <2>13. /\ bytes'[w] = bytes[w] + Bytes(p)
         /\ \A v \in Workers : v # w => bytes'[v] = bytes[v]
    BY <2>2, <2>12
  <2>14. options'.max_bytes # 0 => bytes'[w] <= options'.max_bytes
    BY <2>2, <2>13 DEF FitsBudget
  <2> QED
    BY <2>2, <2>9, <2>10, <2>11, <2>13, <2>14 DEF Given
<1>5. CASE Caller
  BY <1>3, <1>5 DEF Caller, Create, CreateFails, AllCreated, ReturnResult
<1>6. ASSUME NEW w \in Workers, Worker(w), ~Claim(w)
      PROVE  Given'
  <2>1. UNCHANGED <<plan, options, bytes>> /\ report'.assigned = report.assigned
    BY <1>1, <1>6 DEF Worker, Stop, Admit, Cancel, OverBudget, WorkerReturns, RecordCompleted, RecordFailed,
                      CallerUnchanged, Typed
  <2>2. \/ ran' = ran
        \/ \E p, how : how # "entered" /\ ran' = ran \cup {<<w, p, how>>}
    BY <1>6 DEF Worker, Stop, Admit, Cancel, OverBudget, WorkerReturns, RecordCompleted, RecordFailed
  <2> QED
    BY <1>3, <2>1, <2>2
<1>7. CASE UNCHANGED vars
  BY <1>3, <1>7 DEF vars
<1> QED
  BY <1>4, <1>5, <1>6, <1>7 DEF Next, Returned

-----------------------------------------------------------------------------
(* What is handed out after a failure *)

\* A worker that is still admitted when a failure has been recorded was overtaken by
\* the caller, and is the first and the last to be given a partition after that.
Lateness ==
    /\ failed <=> recorder # "nobody"
    /\ options.fail_fast =>
        /\ \A w \in Workers : failed /\ pc[w] = "admitted" => recorder = "caller" /\ late = {}
        /\ late # {} => failed /\ recorder = "caller"
        /\ \A p, q \in late : p = q

LEMMA LatenessStep ==
    ASSUME Inv, Lateness, [Next]_vars
    PROVE  Lateness'
<1>1. Typed /\ Admission
  BY DEF Inv
<1>2. ASSUME UNCHANGED <<options, failed, recorder, late>>,
             \A w \in Workers : pc'[w] = "admitted" => pc[w] = "admitted"
      PROVE  Lateness'
  BY <1>2 DEF Lateness
<1>3. CASE Create \/ AllCreated \/ ReturnResult
  <2>1. UNCHANGED <<options, failed, recorder, late>>
    BY <1>3 DEF Create, AllCreated, ReturnResult
  <2>2. \A w \in Workers : pc'[w] = "admitted" => pc[w] = "admitted"
    BY <1>1, <1>3 DEF Create, AllCreated, ReturnResult, Typed
  <2> QED
    BY <1>2, <2>1, <2>2
\* The caller's failure overtakes whoever is admitted; nothing was late before it.
<1>4. CASE CreateFails
  <2>1. /\ UNCHANGED <<options, late, pc>>
        /\ failed' /\ recorder' = IF failed THEN recorder ELSE "caller"
    BY <1>4 DEF CreateFails, RecordsFailure
  <2> QED
    BY <2>1 DEF Lateness
<1>5. ASSUME NEW w \in Workers, Worker(w) PROVE Lateness'
  <2>1. options' = options
    BY <1>5 DEF Worker, Stop, Admit, Cancel, OverBudget, Claim, WorkerReturns, RecordCompleted,
                RecordFailed, CallerUnchanged
  <2>2. CASE \/ Stop(w) \/ RecordCompleted(w)
             \/ \E ok \in BOOLEAN : WorkerReturns(w, ok)
    <3>1. /\ UNCHANGED <<failed, recorder, late>>
          /\ \A v \in Workers : pc'[v] = "admitted" => pc[v] = "admitted"
      BY <1>1, <2>2 DEF Stop, RecordCompleted, WorkerReturns, Typed
    <3> QED
      BY <1>2, <2>1, <3>1
  <2>3. CASE Admit(w)
    <3>1. UNCHANGED <<failed, recorder, late>> /\ ~(failed /\ options.fail_fast)
      BY <2>3 DEF Admit, MustStop
    <3> QED
      BY <2>1, <3>1 DEF Lateness
  <2>4. CASE Cancel(w) \/ OverBudget(w) \/ Claim(w)
    <3>1. /\ pc[w] = "admitted" /\ pc'[w] # "admitted"
          /\ \A v \in Workers : v # w => pc'[v] = pc[v]
      BY <1>1, <2>4 DEF Cancel, OverBudget, Claim, Typed
    <3>2. \A v \in Workers : pc'[v] # "admitted"
      BY <1>1, <3>1 DEF Admission
    <3>3. CASE Cancel(w) \/ OverBudget(w)
      <4>1. late' = late /\ failed' /\ recorder' = IF failed THEN recorder ELSE "worker"
        BY <3>3 DEF Cancel, OverBudget, RecordsFailure
      <4> QED
        BY <2>1, <3>2, <4>1 DEF Lateness
    <3>4. CASE Claim(w)
      <4>1. /\ UNCHANGED <<failed, recorder>>
            /\ late' = IF failed THEN late \cup {next_index + 1} ELSE late
        BY <3>4 DEF Claim
      <4> QED
        BY <2>1, <3>1, <3>2, <4>1 DEF Lateness
    <3> QED
      BY <2>4, <3>3, <3>4
  \* The mutex is free: nobody is admitted when a worker records its failure.
  <2>5. CASE RecordFailed(w)
    <3>1. /\ late' = late /\ failed' /\ recorder' = IF failed THEN recorder ELSE "worker"
          /\ \A v \in Workers : pc'[v] # "admitted"
      BY <1>1, <2>5 DEF RecordFailed, RecordsFailure, MutexFree, Typed
    <3> QED
      BY <2>1, <3>1 DEF Lateness
  <2> QED
    BY <1>5, <2>2, <2>3, <2>4, <2>5 DEF Worker
<1>6. CASE UNCHANGED vars
  BY <1>2, <1>6 DEF vars
<1> QED
  BY <1>3, <1>4, <1>5, <1>6 DEF Next, Caller, Returned

-----------------------------------------------------------------------------
(* Theorems *)

\* The invariant holds in every state of every execution of a plan.
THEOREM ExecutorInvariant == Spec => []Inv
<1>1. Init => Inv
  BY InitInv
<1>2. Inv /\ [Next]_vars => Inv'
  <2> SUFFICES ASSUME Inv, [Next]_vars PROVE Inv'
    OBVIOUS
  <2> QED
    BY TypedStep, AdmissionStep, HoldingStep, CountsStep, ProgressStep, EarnedStep DEF Inv
<1> QED
  BY <1>1, <1>2, PTL DEF Spec

\* Every value keeps its type: next_index never runs past the plan, and the report
\* never counts more partitions than there are.
THEOREM ExecutorTypes == Spec => []TypeOK
<1>1. ASSUME Inv PROVE TypeOK
  <2>1. Typed /\ Counts
    BY <1>1 DEF Inv
  <2>2. Count \in Nat /\ Used \in 0..MaxWorkers /\ Used <= Count /\ MaxWorkers \in Nat
    BY <2>1, PlanFacts, WorkerFacts DEF Typed
  <2>3. report.completed \in 0..Count /\ report.failed \in 0..Count
    BY <2>1, CountedFinite DEF Counts
  <2>4. report \in [completed : 0..Count, failed : 0..Count, assigned : Nat, cancelled : BOOLEAN]
    BY <2>1, <2>3 DEF Typed
  <2>5. created \in 0..MaxWorkers /\ created <= Count
    BY <2>1, <2>2 DEF Typed
  <2> QED
    BY <2>1, <2>4, <2>5 DEF Typed, TypeOK
<1> QED
  BY <1>1, ExecutorInvariant, PTL

\* Whatever the interleaving of the workers, a partition is entered by one of them
\* only, and its callback ends at most once.
THEOREM PartitionsAssignedOnce == Spec => []AssignedOnce
<1>1. ASSUME Inv PROVE AssignedOnce
  <2>1. Once
    BY <1>1 DEF Inv
  <2>2. ASSUME NEW p \in 1..Count, NEW v \in Entered(p), NEW w \in Entered(p) PROVE v = w
    BY <2>1 DEF Once, Entered
  <2>3. ASSUME NEW p \in 1..Count PROVE Ended(p, "ok") = {} \/ Ended(p, "failed") = {}
    BY <2>1 DEF Once, Ended
  <2> QED
    BY <2>2, <2>3 DEF AssignedOnce
<1> QED
  BY <1>1, ExecutorInvariant, PTL

\* OK is returned only for the whole input: every byte was in exactly one partition,
\* its callback succeeded, and the report counts it.
THEOREM OkOnlyForTheWholeInput == Spec => []OkMeansAll
<1>1. ASSUME Inv PROVE OkMeansAll
  <2> SUFFICES ASSUME result = "ok"
               PROVE  /\ \A byte \in 0..(plan.input - 1) :
                            \E p \in 1..Count :
                                /\ Holds(p, byte) /\ Ended(p, "ok") # {}
                                /\ \A q \in 1..Count : Holds(q, byte) => q = p
                      /\ report.completed = Count
                      /\ ~report.cancelled
    BY DEF OkMeansAll
  <2>1. /\ plan \in Plans /\ Counts
        /\ caller = "returned" /\ ~report.cancelled
        /\ \A w \in Workers : pc[w] \in {"unborn", "exited"}
        /\ \A p \in 1..Count : \E w \in Workers : <<w, p, "ok">> \in ran
    BY <1>1 DEF Inv, Earned, Typed
  <2>2. ASSUME NEW byte \in 0..(plan.input - 1)
        PROVE  \E p \in 1..Count :
                /\ Holds(p, byte) /\ Ended(p, "ok") # {}
                /\ \A q \in 1..Count : Holds(q, byte) => q = p
    <3>1. PICK p \in 1..Count :
            /\ byte \in plan.parts[p].offset..(PartEnd(plan.parts[p]) - 1)
            /\ \A q \in 1..Count :
                byte \in plan.parts[q].offset..(PartEnd(plan.parts[q]) - 1) => q = p
      <4>1. /\ plan.parts \in Seq(Partitions)
            /\ plan.input \in Nat /\ plan.target \in Nat
            /\ ValidPlan(plan.parts, plan.input, plan.target)
        BY <2>1, PlanFacts
      <4> QED
        BY <4>1, PlanTiles DEF Count
    <3>2. \A q \in 1..Count :
            Holds(q, byte) <=> byte \in plan.parts[q].offset..(PartEnd(plan.parts[q]) - 1)
      <4>1. \A q \in 1..Count : plan.parts[q].offset \in Nat /\ plan.parts[q].length \in Nat
        BY <2>1, PlanFacts, PlanMembers DEF Count
      <4>2. \A q \in 1..Count : PartEnd(plan.parts[q]) - 1 = plan.parts[q].offset + Bytes(q) - 1
        BY <4>1 DEF PartEnd, Bytes
      <4> QED
        BY <4>2 DEF Holds
    <3>3. Ended(p, "ok") # {}
      BY <2>1 DEF Ended
    <3> QED
      BY <3>1, <3>2, <3>3
  <2>3. report.completed = Count
    <3>1. Counted("ok") = 1..Count
      BY <2>1 DEF Counted
    <3>2. Count \in Nat
      BY <2>1, PlanFacts
    <3>3. Cardinality(1..Count) = Count
      BY <3>2, FS_Interval
    <3> QED
      BY <2>1, <3>1, <3>3 DEF Counts
  <2> QED
    BY <2>1, <2>2, <2>3
<1> QED
  BY <1>1, ExecutorInvariant, PTL

\* When the call returns its report is true: completed and failed count the callbacks
\* that ended so, bytes_assigned is the share of the input that was handed out, and no
\* worker was handed more than its budget.
THEOREM ReportIsTrue == Spec => []ReportAdds
<1>1. Inv /\ Given /\ [Next]_vars => Given'
  BY GivenStep
<1>2. Inv /\ Given => ReportAdds
  <2> SUFFICES ASSUME Inv, Given, caller = "returned" PROVE ReportAdds
    BY DEF ReportAdds
  <2>1. \A w \in Workers : pc[w] \in {"unborn", "exited"}
    BY DEF Inv, Earned
  <2>2. Parts("ok") = Counted("ok") /\ Parts("failed") = Counted("failed")
    BY <2>1 DEF Parts, Ended, Counted
  <2>3. Parts("entered") = AllEntered
    BY DEF Parts, Ended, AllEntered
  <2>4. \A w \in Workers : {p \in 1..Count : w \in Entered(p)} = OwnEntered(w)
    BY DEF Entered, OwnEntered
  <2> QED
    BY <2>2, <2>3, <2>4 DEF ReportAdds, Given, Inv, Counts
<1> QED
  BY ExecutorInvariant, GivenInit, <1>1, <1>2, PTL DEF Spec

\* With fail_fast nothing is handed out once a worker has recorded a failure, and one
\* partition at most after the caller has, which takes no mutex to do so.
THEOREM FailFastIsFast == Spec => []FailFastStops
<1>1. Init => Lateness
  BY DEF Init, Lateness
<1>2. Inv /\ Lateness /\ [Next]_vars => Lateness'
  BY LatenessStep
<1>3. Lateness => FailFastStops
  BY DEF Lateness, FailFastStops
<1> QED
  BY ExecutorInvariant, <1>1, <1>2, <1>3, PTL DEF Spec

=============================================================================
