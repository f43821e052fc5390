----------------------- MODULE PartitionResultsProofs -----------------------
(***************************************************************************)
(* Proofs about the executor of processes and the reduction of their       *)
(* results, for plans of any size, any results and any number of           *)
(* executions: what OK means of an execution, and of a sum.                *)
(*                                                                         *)
(* The two have little in common but the plan, and each has an inductive   *)
(* invariant of its own: where the executor stands, and where a message    *)
(* can have come from.                                                     *)
(***************************************************************************)
EXTENDS PartitionResults, LeastElements

-----------------------------------------------------------------------------
(* The executor *)

Typed ==
    /\ plan \in Plans
    /\ truth \in [1..Count -> Results]
    /\ pc \in {"idle", "forking", "waiting", "exiting"}
    /\ current \in Nat
    /\ child \in {"none", "running", "writing", "leaving", "exited", "died"}
    /\ report \in [completed : Nat, failed : Nat]
    /\ workers \in [1..Count -> Seq({"exited", "died"})]

\* There is a worker while the executor waits for it, and nothing in the pipe but
\* what that worker wrote.
Attended ==
    /\ pc # "idle" => current \in 1..Count
    /\ pc \in {"idle", "forking"} => child = "none" /\ pipe = None
    /\ pipe = None \/ pipe = [id |-> current, status |-> truth[current].status]

\* The partitions before this one are done, and those behind it untouched.
InTurn ==
    pc # "idle" =>
        /\ report = [completed |-> current - 1, failed |-> 0]
        /\ \A p \in 1..Count : workers[p] # << >> <=> p < current
        /\ \A p \in 1..Count : p < current => workers[p] = <<"exited">> /\ truth[p].status = 0

ExecutorInv == Typed /\ Attended /\ InTurn /\ ExecutorTrue

LEMMA PlanFacts ==
    ASSUME plan \in Plans
    PROVE  Count \in Nat
  BY ResultsAssumption DEF Count, Parts

LEMMA ExecutorInit == Init => ExecutorInv
<1> SUFFICES ASSUME Init PROVE ExecutorInv
  OBVIOUS
<1>1. workers \in [1..Count -> Seq({"exited", "died"})]
  BY DEF Init
<1>2. Typed /\ Attended /\ InTurn
  BY <1>1 DEF Init, Typed, Attended, InTurn, NoReport
<1>3. ExecutorTrue
  BY DEF Init, ExecutorTrue
<1> QED
  BY <1>2, <1>3 DEF ExecutorInv

\* Where the executor goes when the partitions before the i-th are done.
LEMMA TurnStep ==
    ASSUME Typed, plan' = plan, truth' = truth, NEW i \in 1..(Count + 1), Turn(i),
           child' = "none", pipe' = None,
           report' = [completed |-> i - 1, failed |-> 0],
           \A p \in 1..Count : workers'[p] # << >> <=> p < i,
           \A p \in 1..Count : p < i => workers'[p] = <<"exited">> /\ truth[p].status = 0
    PROVE  Attended' /\ InTurn' /\ ExecutorTrue' /\ pc' \in {"forking", "idle"} /\ current' \in Nat
<1>1. Count \in Nat /\ Count' = Count
  BY PlanFacts DEF Typed, Count, Parts
<1>2. CASE i <= Count
  <2>1. pc' = "forking" /\ current' = i
    BY <1>2 DEF Turn
  <2>2. Attended' /\ InTurn'
    BY <1>1, <1>2, <2>1 DEF Attended, InTurn
  <2> QED
    BY <2>1, <2>2 DEF ExecutorTrue
<1>3. CASE ~(i <= Count)
  <2>1. pc' = "idle" /\ current' = 0 /\ i = Count + 1
    BY <1>1, <1>3 DEF Turn
  <2>2. report' = [completed |-> Count, failed |-> 0]
    BY <1>1, <2>1
  <2>3. \A p \in 1..Count : p < i
    BY <1>1, <2>1
  <2>4. \A p \in 1..Count : p <= Count + 0
    BY <1>1
  <2>5. ExecutorTrue'
    BY <1>1, <2>1, <2>2, <2>3, <2>4 DEF ExecutorTrue
  <2>6. Attended' /\ InTurn'
    BY <2>1 DEF Attended, InTurn
  <2> QED
    BY <2>1, <2>5, <2>6
<1> QED
  BY <1>2, <1>3

\* Where it returns with an error: the worker of the current partition was waited
\* for, or there was none.
LEMMA ErrorStep ==
    ASSUME Typed, plan' = plan, truth' = truth, NEW s, s # 0, ReturnWith(s),
           child' = "none", pipe' = None,
           report' \in [completed : Nat, failed : Nat],
           \A p \in 1..Count : workers'[p] # << >> <=> p <= report'.completed + report'.failed
    PROVE  Attended' /\ InTurn' /\ ExecutorTrue' /\ pc' = "idle" /\ current' \in Nat
<1>1. Count' = Count
  BY DEF Count, Parts
<1>2. pc' = "idle" /\ current' = 0 /\ status' = s
  BY DEF ReturnWith
<1>3. Attended' /\ InTurn'
  BY <1>2 DEF Attended, InTurn
<1>4. ExecutorTrue'
  BY <1>1, <1>2 DEF ExecutorTrue
<1> QED
  BY <1>2, <1>3, <1>4

LEMMA ExecutorStep ==
    ASSUME ExecutorInv, [Next]_vars
    PROVE  ExecutorInv'
<1> USE DEF ExecutorInv
<1>1. Count \in Nat /\ plan \in Plans
  BY PlanFacts DEF Typed
<1>2. CASE UNCHANGED <<plan, truth, executor>>
  BY <1>2 DEF executor, Typed, Attended, InTurn, ExecutorTrue, Count, Parts
<1>3. CASE Execute
  <2>1. plan' = plan /\ truth' = truth /\ Turn(1) /\ report' = NoReport
    BY <1>3 DEF Execute, MessagesUnchanged
  <2>2. child' = "none" /\ pipe' = None
    BY <1>3 DEF Execute, Attended
  <2>3. workers' = [i \in 1..Count |-> << >>]
    BY <1>3 DEF Execute
  <2>4. 1 \in 1..(Count + 1) /\ report' = [completed |-> 1 - 1, failed |-> 0]
    BY <1>1, <2>1 DEF NoReport
  <2>5. \A p \in 1..Count : workers'[p] # << >> <=> p < 1
    BY <1>1, <2>3
  <2>6. \A p \in 1..Count : p < 1 => workers'[p] = <<"exited">> /\ truth[p].status = 0
    BY <1>1
  <2>7. Attended' /\ InTurn' /\ ExecutorTrue' /\ pc' \in {"forking", "idle"} /\ current' \in Nat
    BY <2>1, <2>2, <2>4, <2>5, <2>6, TurnStep
  <2>8. Count' = Count /\ workers' \in [1..Count -> Seq({"exited", "died"})]
    BY <2>1, <2>3 DEF Count, Parts
  <2>9. Typed'
    BY <2>1, <2>2, <2>4, <2>7, <2>8 DEF Typed
  <2> QED
    BY <2>7, <2>9
<1>4. CASE Fork
  <2>1. /\ pc = "forking" /\ pc' = "waiting" /\ child' = "running"
        /\ UNCHANGED <<plan, truth, current, pipe, report, workers>>
    BY <1>4 DEF Fork, MessagesUnchanged
  <2>2. Count' = Count
    BY <2>1 DEF Count, Parts
  <2>3. Typed' /\ Attended' /\ InTurn' /\ ExecutorTrue'
    BY <2>1, <2>2 DEF Typed, Attended, InTurn, ExecutorTrue
  <2> QED
    BY <2>3
<1>5. CASE ForkFails
  <2>1. /\ pc = "forking" /\ ReturnWith(IoError)
        /\ UNCHANGED <<plan, truth, child, pipe, report, workers>>
    BY <1>5 DEF ForkFails, MessagesUnchanged
  <2>2. /\ child' = "none" /\ pipe' = None /\ current \in 1..Count
        /\ report' = [completed |-> current - 1, failed |-> 0]
        /\ \A p \in 1..Count : workers'[p] # << >> <=> p < current
    BY <2>1 DEF Attended, InTurn
  <2>3. /\ report' \in [completed : Nat, failed : Nat] /\ IoError # 0
        /\ \A p \in 1..Count : p < current <=> p <= report'.completed + report'.failed
    BY <1>1, <2>2, ResultsAssumption
  <2>4. Attended' /\ InTurn' /\ ExecutorTrue' /\ pc' = "idle" /\ current' \in Nat
    BY <2>1, <2>2, <2>3, ErrorStep
  <2>5. Count' = Count
    BY <2>1 DEF Count, Parts
  <2>6. Typed'
    BY <2>1, <2>2, <2>3, <2>4, <2>5 DEF Typed
  <2> QED
    BY <2>4, <2>6
<1>6. CASE Work \/ Exit \/ Die \/ WriteResult
  <2>1. /\ child # "none" /\ child' \in {"writing", "leaving", "exited", "died"}
        /\ UNCHANGED <<plan, truth, pc, current, report, workers>>
        /\ pipe' = pipe \/ pipe' = [id |-> current, status |-> truth[current].status]
    BY <1>6 DEF Work, Exit, Die, WriteResult, MessagesUnchanged
  <2>2. pc \in {"waiting", "exiting"}
    BY <2>1 DEF Attended, Typed
  <2>3. Count' = Count
    BY <2>1 DEF Count, Parts
  <2>4. Typed' /\ Attended' /\ InTurn' /\ ExecutorTrue'
    BY <2>1, <2>2, <2>3 DEF Typed, Attended, InTurn, ExecutorTrue
  <2> QED
    BY <2>4
<1>7. CASE ReadPipe
  <2>1. /\ pc = "waiting" /\ pc' = "exiting"
        /\ UNCHANGED <<plan, truth, child, current, pipe, report, workers>>
    BY <1>7 DEF ReadPipe, MessagesUnchanged
  <2>2. Count' = Count
    BY <2>1 DEF Count, Parts
  <2>3. Typed' /\ Attended' /\ InTurn' /\ ExecutorTrue'
    BY <2>1, <2>2 DEF Typed, Attended, InTurn, ExecutorTrue
  <2> QED
    BY <2>3
<1>8. CASE Reap
  <2> DEFINE ended == [workers EXCEPT ![current] = Append(@, child)]
  <2>1. /\ pc = "exiting" /\ child \in {"exited", "died"}
        /\ UNCHANGED <<plan, truth>>
        /\ child' = "none" /\ pipe' = None /\ workers' = ended
    BY <1>8 DEF Reap, MessagesUnchanged
  <2>2. /\ current \in 1..Count
        /\ report = [completed |-> current - 1, failed |-> 0]
        /\ \A p \in 1..Count : workers[p] # << >> <=> p < current
        /\ \A p \in 1..Count : p < current => workers[p] = <<"exited">> /\ truth[p].status = 0
    BY <2>1 DEF Attended, InTurn
  <2>3. workers[current] = << >>
    BY <1>1, <2>2
  <2>4. /\ workers \in [1..Count -> Seq({"exited", "died"})]
        /\ Append(<< >>, child) = <<child>> /\ <<child>> # << >>
        /\ <<child>> \in Seq({"exited", "died"})
    BY <2>1 DEF Typed
  <2>5. /\ workers'[current] = <<child>>
        /\ \A p \in 1..Count : p # current => workers'[p] = workers[p]
        /\ workers' \in [1..Count -> Seq({"exited", "died"})]
    BY <2>1, <2>2, <2>3, <2>4
  <2>6. ASSUME NEW p \in 1..Count
        PROVE  workers'[p] # << >> <=> p < current + 1
    <3>1. p < current + 1 <=> p < current \/ p = current
      BY <1>1, <2>2
    <3>2. CASE p = current
      BY <2>4, <2>5, <3>1, <3>2
    <3>3. CASE p # current
      BY <2>2, <2>5, <3>1, <3>3
    <3> QED
      BY <3>2, <3>3
  <2>7. Count' = Count
    BY <2>1 DEF Count, Parts
  <2>8. CASE Accepted /\ pipe.status = 0
    <3>1. report' = [report EXCEPT !.completed = @ + 1] /\ Turn(current + 1)
      BY <1>8, <2>8 DEF Reap
    <3>2. report' = [completed |-> (current + 1) - 1, failed |-> 0] /\ current + 1 \in 1..(Count + 1)
      BY <1>1, <2>2, <3>1
    <3>3. child = "exited" /\ truth[current].status = 0
      BY <2>8 DEF Accepted, Attended
    <3>4. \A p \in 1..Count : p < current + 1 => workers'[p] = <<"exited">> /\ truth[p].status = 0
      <4> SUFFICES ASSUME NEW p \in 1..Count, p < current + 1
                   PROVE  workers'[p] = <<"exited">> /\ truth[p].status = 0
        OBVIOUS
      <4>1. p = current \/ p < current
        BY <1>1, <2>2
      <4> QED
        BY <2>2, <2>5, <3>3, <4>1
    <3>5. Attended' /\ InTurn' /\ ExecutorTrue' /\ pc' \in {"forking", "idle"} /\ current' \in Nat
      <4> HIDE DEF ended
      <4> QED
        BY <2>1, <2>6, <3>1, <3>2, <3>4, TurnStep
    <3>6. Typed'
      BY <1>1, <2>1, <2>2, <2>5, <2>7, <3>2, <3>5 DEF Typed
    <3> QED
      BY <3>5, <3>6
  <2>9. CASE ~(Accepted /\ pipe.status = 0)
    <3> DEFINE s == IF Accepted THEN pipe.status ELSE IoError
    <3>1. report' = [report EXCEPT !.failed = @ + 1] /\ ReturnWith(s)
      BY <1>8, <2>9 DEF Reap
    <3>2. s # 0
      BY <2>9, ResultsAssumption
    <3>3. report' = [completed |-> current - 1, failed |-> 1]
      BY <2>2, <3>1
    <3>4. /\ report' \in [completed : Nat, failed : Nat]
          /\ \A p \in 1..Count : p < current + 1 <=> p <= report'.completed + report'.failed
      BY <1>1, <2>2, <3>3
    <3>5. Attended' /\ InTurn' /\ ExecutorTrue' /\ pc' = "idle" /\ current' \in Nat
      <4> HIDE DEF s, ended
      <4> QED
        BY <2>1, <2>6, <3>1, <3>2, <3>4, ErrorStep
    <3>6. Typed'
      BY <2>1, <2>5, <2>7, <3>4, <3>5 DEF Typed
    <3> QED
      BY <3>5, <3>6
  <2> QED
    BY <2>8, <2>9
<1>9. CASE Reduce \/ \E m \in sent \cup {Damaged} : Arrive(m)
  BY <1>2, <1>9 DEF Reduce, Arrive
<1> QED
  BY <1>2, <1>3, <1>4, <1>5, <1>6, <1>7, <1>8, <1>9 DEF Next, vars

-----------------------------------------------------------------------------
(* Messages *)

\* What a message that says anything can be: of another plan, or what a worker of
\* its partition sent.
Sendable ==
    Strays \cup {Message(i) : i \in {j \in 1..Count : Encodable(truth[j])}}

MessagesInv ==
    /\ plan \in Plans
    /\ truth \in [1..Count -> Results]
    /\ sent \subseteq Sendable
    /\ inbox \in Seq(Sendable \cup {Damaged})
    /\ OkMeansExact

LEMMA MessagesInit == Init => MessagesInv
<1> SUFFICES ASSUME Init PROVE MessagesInv
  OBVIOUS
<1>1. sent \subseteq Sendable
  BY DEF Init, Sendable
<1>2. inbox \in Seq(Sendable \cup {Damaged})
  BY DEF Init
<1>3. OkMeansExact
  BY DEF Init, OkMeansExact
<1> QED
  BY <1>1, <1>2, <1>3 DEF Init, MessagesInv

\* A message that the loop accepts is what the worker of its partition found.
LEMMA AcceptedMessage ==
    ASSUME MessagesInv, NEW i \in 1..Len(inbox), 0 \in Refusals(i)
    PROVE  /\ inbox[i].id + 1 \in 1..Count
           /\ inbox[i] = Message(inbox[i].id + 1)
           /\ truth[inbox[i].id + 1].status = 0
<1>1. Count \in Nat /\ inbox[i] \in Sendable \cup {Damaged}
  BY PlanFacts DEF MessagesInv
<1>2. /\ inbox[i].intact
      /\ ~(inbox[i].id >= Count)
      /\ inbox[i].status = 0
  BY ResultsAssumption DEF Refusals, Decode
<1>3. inbox[i] \notin Strays
  BY <1>2, StraysAssumption DEF MessagesInv, Count, Parts
<1>4. inbox[i] # Damaged
  BY <1>2 DEF Damaged
<1>5. PICK j \in 1..Count : inbox[i] = Message(j)
  BY <1>1, <1>3, <1>4 DEF Sendable
<1>6. inbox[i].id = j - 1 /\ inbox[i].status = truth[j].status
  BY <1>5 DEF Message
<1>7. j = inbox[i].id + 1
  BY <1>1, <1>6
<1> QED
  BY <1>2, <1>5, <1>6, <1>7

\* The loop ends with MILENA_OK only when it accepted a message of every partition.
LEMMA LoopOk ==
    ASSUME inbox \in Seq(Sendable \cup {Damaged}), 0 \in Outcomes
    PROVE  /\ \A i \in 1..Len(inbox) : 0 \in Refusals(i)
           /\ \A p \in 1..Count : \E i \in 1..Len(inbox) : inbox[i].id = p - 1
<1> DEFINE bad == {i \in 1..Len(inbox) : 0 \notin Refusals(i)}
<1>1. bad = {}
  <2> SUFFICES ASSUME bad # {} PROVE FALSE
    OBVIOUS
  <2>1. bad \subseteq Nat
    OBVIOUS
  <2>2. \E x \in bad : \A y \in bad : x <= y
    <3> HIDE DEF bad
    <3> QED
      BY <2>1, LeastElement
  <2>3. Min(bad) \in bad
    <3> HIDE DEF bad
    <3> QED
      BY <2>2 DEF Min
  <2>4. Outcomes = Refusals(Min(bad))
    BY DEF Outcomes
  <2> QED
    BY <2>3, <2>4
<1>2. \A p \in 1..Count : \E i \in 1..Len(inbox) : inbox[i].id = p - 1
  <2> SUFFICES ASSUME ~ \A p \in 1..Count : \E i \in 1..Len(inbox) : inbox[i].id = p - 1
               PROVE  FALSE
    OBVIOUS
  <2>1. Outcomes = {DataError}
    BY <1>1 DEF Outcomes
  <2> QED
    BY <2>1, ResultsAssumption
<1> QED
  BY <1>1, <1>2

\* The partials are then what the workers found.
LEMMA PartialsTrue ==
    ASSUME MessagesInv, 0 \in Outcomes
    PROVE  /\ \A p \in 1..Count : truth[p].status = 0
           /\ Partials = [p \in 1..Count |-> IF truth[p].valid THEN truth[p].value ELSE 0]
<1>1. inbox \in Seq(Sendable \cup {Damaged}) /\ Count \in Nat
  BY PlanFacts DEF MessagesInv
<1>2. ASSUME NEW p \in 1..Count
      PROVE  /\ truth[p].status = 0
             /\ LET m == inbox[CHOOSE i \in 1..Len(inbox) : inbox[i].id = p - 1]
                IN  m.valid = truth[p].valid /\ m.value = truth[p].value
  <2> DEFINE i == CHOOSE i \in 1..Len(inbox) : inbox[i].id = p - 1
  <2>1. i \in 1..Len(inbox) /\ inbox[i].id = p - 1
    BY <1>1, LoopOk
  <2>2. 0 \in Refusals(i)
    BY <1>1, <2>1, LoopOk
  <2>3. inbox[i].id + 1 = p
    BY <1>1, <2>1
  <2>4. inbox[i] = Message(p) /\ truth[p].status = 0
    <3> HIDE DEF i
    <3> QED
      BY <2>1, <2>2, <2>3, AcceptedMessage
  <2>5. Message(p).valid = truth[p].valid /\ Message(p).value = truth[p].value
    BY DEF Message
  <2> QED
    BY <2>4, <2>5
<1> QED
  BY <1>2 DEF Partials

LEMMA MessagesStep ==
    ASSUME ExecutorInv, MessagesInv, [Next]_vars
    PROVE  MessagesInv'
<1> USE DEF MessagesInv
<1>1. plan' = plan /\ truth' = truth /\ Count' = Count /\ Sendable' = Sendable
  <2>1. plan' = plan /\ truth' = truth
    BY DEF Next, vars, Execute, Fork, ForkFails, Work, WriteResult, Exit, Die, ReadPipe, Reap, Arrive,
           Reduce, MessagesUnchanged
  <2>2. Count' = Count
    BY <2>1 DEF Count, Parts
  <2> QED
    BY <2>1, <2>2 DEF Sendable, Message
<1>2. CASE UNCHANGED <<sent, inbox, reduced>>
  BY <1>1, <1>2 DEF OkMeansExact
<1>3. CASE Work
  <2>1. UNCHANGED <<inbox, reduced>>
    BY <1>3 DEF Work
  <2>2. sent' \subseteq Sendable
    <3>1. CASE Encodable(truth[current])
      <4>1. child = "running" /\ sent' = sent \cup {Message(current)}
        BY <1>3, <3>1 DEF Work
      <4>2. current \in 1..Count
        BY <4>1 DEF ExecutorInv, Typed, Attended
      <4> QED
        BY <3>1, <4>1, <4>2 DEF Sendable
    <3>2. CASE ~Encodable(truth[current])
      BY <1>3, <3>2 DEF Work
    <3> QED
      BY <3>1, <3>2
  <2> QED
    BY <1>1, <2>1, <2>2 DEF OkMeansExact
<1>4. ASSUME NEW m \in sent \cup {Damaged}, Arrive(m)
      PROVE  MessagesInv'
  <2>1. inbox' = Append(inbox, m) /\ UNCHANGED <<sent, reduced>>
    BY <1>4 DEF Arrive
  <2>2. m \in Sendable \cup {Damaged}
    OBVIOUS
  <2>3. inbox' \in Seq(Sendable \cup {Damaged})
    BY <2>1, <2>2
  <2> QED
    BY <1>1, <2>1, <2>3 DEF OkMeansExact, Damaged
<1>5. CASE Reduce
  <2>1. UNCHANGED <<sent, inbox>>
    BY <1>5 DEF Reduce
  <2>2. PICK s \in Outcomes : reduced' = [status |-> s, value |-> IF s = 0 THEN SumOf(Partials) ELSE 0]
    BY <1>5 DEF Reduce
  <2>3. OkMeansExact'
    <3>1. CASE s = 0
      <4>1. /\ \A p \in 1..Count : truth[p].status = 0
            /\ Partials = [p \in 1..Count |-> IF truth[p].valid THEN truth[p].value ELSE 0]
        BY <2>2, <3>1, PartialsTrue
      <4>2. reduced'.value = SumOf([p \in 1..Count |-> IF truth[p].valid THEN truth[p].value ELSE 0])
        BY <2>2, <3>1, <4>1
      <4> QED
        BY <1>1, <4>1, <4>2 DEF OkMeansExact
    <3>2. CASE s # 0
      BY <2>2, <3>2 DEF OkMeansExact
    <3> QED
      BY <3>1, <3>2
  <2> QED
    BY <1>1, <2>1, <2>3 DEF Damaged
<1> QED
  BY <1>2, <1>3, <1>4, <1>5 DEF Next, vars, Execute, Fork, ForkFails, WriteResult, Exit, Die, ReadPipe,
                                Reap, MessagesUnchanged

-----------------------------------------------------------------------------
(* Theorems *)

\* The inductive invariant of the executor: where it stands, which partitions are
\* behind it, and what the pipe can hold.
THEOREM ExecutorInvariant == Spec => []ExecutorInv
<1>1. ExecutorInv /\ [Next]_vars => ExecutorInv'
  BY ExecutorStep
<1> QED
  BY ExecutorInit, <1>1, PTL DEF Spec

\* An execution of milena_partition_execute_processes returns MILENA_OK only when the
\* worker of every partition ran once, returned MILENA_OK and exited by itself, and
\* its report counts the workers that were waited for; whichever workers die, and
\* however often the plan is run.
THEOREM OkOnlyForEveryWorker == Spec => []ExecutorTrue
<1>1. ExecutorInv => ExecutorTrue
  BY DEF ExecutorInv
<1> QED
  BY ExecutorInvariant, <1>1, PTL

\* milena_partition_results_reduce_sum succeeds only with exactly one result of every
\* partition, all of them fine, and returns the sum of the valid ones; whatever was
\* lost, duplicated, reordered or damaged on the way.
THEOREM SumOnlyOfEveryResult == Spec => []OkMeansExact
<1>1. ExecutorInv /\ MessagesInv /\ [Next]_vars => MessagesInv'
  BY MessagesStep
<1>2. MessagesInv => OkMeansExact
  BY DEF MessagesInv
<1> QED
  BY ExecutorInvariant, MessagesInit, <1>1, <1>2, PTL DEF Spec

=============================================================================
