-------------------------- MODULE PartitionResults ---------------------------
(***************************************************************************)
(* One partition per process, and results that travel as messages:         *)
(* src/src/process_executor.c, partition_protocol.c,                       *)
(* partition_protocol_reduce.c and partition_reduce.c.                     *)
(*                                                                         *)
(* The executor forks a worker for each partition in turn and waits for    *)
(* its status on a pipe.  The worker encodes its partial result and hands  *)
(* it to a transport (not part of the repository) that loses, duplicates,  *)
(* reorders and damages messages; a caller may run the plan again.         *)
(* Whenever as many messages as partitions have arrived, they are reduced. *)
(* Statuses are numbers, 0 for MILENA_OK; values are integers, for which   *)
(* the compensated sum is exact.                                           *)
(***************************************************************************)
EXTENDS PartitionPlan, FiniteSets, FiniteSetsExt

CONSTANTS
    Plans,          \* the plans executed, each [parts, input, target]
    Results,        \* what a worker may find: [status, valid, finite, value]
    MaxStatus,      \* MILENA_ERR_LIMIT, the last status of the enumeration
    IoError, DataError, ParseError,
    Strays,         \* messages of other plans that the transport still holds
    None,
    MaxRuns         \* bound: executions of the plan

ASSUME ResultsAssumption ==
    /\ Plans \subseteq [parts : Seq(Partitions), input : Nat, target : Nat]
    /\ Results \subseteq [status : Int, valid : BOOLEAN, finite : BOOLEAN, value : Int]
    /\ MaxStatus \in Nat /\ {IoError, DataError, ParseError} \subseteq 1..MaxStatus
    /\ MaxRuns \in Nat

\* A message names its partition and not its plan: a stray one is told apart only by
\* a partition that none of the plans has.
ASSUME StraysAssumption ==
    /\ Strays \subseteq [id : Nat, status : Int, valid : BOOLEAN, value : Int, intact : BOOLEAN]
    /\ \A m \in Strays : \A p \in Plans : m.id >= Len(p.parts)

VARIABLES
    plan,
    truth,      \* partition -> the result its worker finds
    pc,         \* the executor: "idle", "forking", "waiting" or "exiting"
    current,    \* the partition it is at, from 1
    child,      \* the worker: "none", "running", "writing", "leaving", "exited" or "died"
    pipe,       \* what the worker wrote to the pipe, whole or None
    report,     \* [completed, failed]
    status,     \* what the last execution returned
    runs,       \* history: executions started
    workers,    \* history: partition -> how its workers of this execution ended
    sent,       \* the messages handed to the transport
    inbox,      \* the messages that arrived, in their order
    reduced     \* [status, value] of the reduction, or None

executor == <<pc, current, child, pipe, report, status, runs, workers>>
vars == <<plan, truth, executor, sent, inbox, reduced>>

Parts == plan.parts
Count == Len(Parts)
NoReport == [completed |-> 0, failed |-> 0]

Init ==
    /\ plan \in Plans
    /\ truth \in [1..Count -> Results]
    /\ pc = "idle" /\ current = 0
    /\ child = "none" /\ pipe = None
    /\ report = NoReport /\ status = None
    /\ runs = 0 /\ workers = [i \in 1..Count |-> << >>]
    /\ sent = Strays /\ inbox = << >> /\ reduced = None

-----------------------------------------------------------------------------
(* milena_partition_execute_processes *)

\* Goes to the next partition, or returns MILENA_OK behind the last.
Turn(i) ==
    IF i <= Count
    THEN pc' = "forking" /\ current' = i /\ UNCHANGED status
    ELSE pc' = "idle" /\ current' = 0 /\ status' = 0

ReturnWith(s) == pc' = "idle" /\ current' = 0 /\ status' = s

MessagesUnchanged == UNCHANGED <<plan, truth, sent, inbox, reduced>>

Execute ==
    /\ pc = "idle"
    /\ reduced = None
    /\ runs < MaxRuns
    /\ ValidPlan(Parts, plan.input, plan.target)
    /\ runs' = runs + 1
    /\ report' = NoReport
    /\ workers' = [i \in 1..Count |-> << >>]
    /\ Turn(1)
    /\ UNCHANGED <<child, pipe>>
    /\ MessagesUnchanged

Fork ==
    /\ pc = "forking"
    /\ child' = "running"
    /\ pc' = "waiting"
    /\ UNCHANGED <<current, pipe, report, status, runs, workers>>
    /\ MessagesUnchanged

\* pipe or fork fails: the partition is counted neither completed nor failed.
ForkFails ==
    /\ pc = "forking"
    /\ ReturnWith(IoError)
    /\ UNCHANGED <<child, pipe, report, runs, workers>>
    /\ MessagesUnchanged

Encodable(r) == r.status \in 0..MaxStatus /\ (r.valid => r.finite)

Message(i) == [id |-> i - 1, status |-> truth[i].status, valid |-> truth[i].valid,
               value |-> truth[i].value, intact |-> TRUE]

\* The worker's own work: its result is sent when it can be encoded.
Work ==
    /\ child = "running"
    /\ child' = "writing"
    /\ sent' = sent \cup (IF Encodable(truth[current]) THEN {Message(current)} ELSE {})
    /\ UNCHANGED <<plan, truth, pc, current, pipe, report, status, runs, workers, inbox, reduced>>

\* write_full of {i, status}.
WriteResult ==
    /\ child = "writing"
    /\ pipe' = [id |-> current, status |-> truth[current].status]
    /\ child' = "leaving"
    /\ UNCHANGED <<pc, current, report, status, runs, workers>>
    /\ MessagesUnchanged

Exit ==
    /\ child = "leaving"
    /\ child' = "exited"
    /\ UNCHANGED <<pc, current, pipe, report, status, runs, workers>>
    /\ MessagesUnchanged

\* The worker is killed, or cannot write its result and exits with 111.
Die ==
    /\ child \in {"running", "writing", "leaving"}
    /\ child' = "died"
    /\ UNCHANGED <<pc, current, pipe, report, status, runs, workers>>
    /\ MessagesUnchanged

\* (mutant) The executor keeps its own copy of the pipe's writing end.
PipeEnded_Kept == FALSE

PipeEnded == child \in {"exited", "died"}

\* read_full: the whole result, or the end of a pipe nobody can write to.
ReadPipe ==
    /\ pc = "waiting"
    /\ pipe # None \/ PipeEnded
    /\ pc' = "exiting"
    /\ UNCHANGED <<current, child, pipe, report, status, runs, workers>>
    /\ MessagesUnchanged

\* (mutant) How the worker ended is not asked.
Accepted_Unasked == pipe # None /\ pipe.id = current

Accepted == pipe # None /\ child = "exited" /\ pipe.id = current

\* waitpid, and what its result and the message say.
Reap ==
    /\ pc = "exiting"
    /\ child \in {"exited", "died"}
    /\ IF Accepted /\ pipe.status = 0
       THEN report' = [report EXCEPT !.completed = @ + 1] /\ Turn(current + 1)
       ELSE /\ report' = [report EXCEPT !.failed = @ + 1]
            /\ ReturnWith(IF Accepted THEN pipe.status ELSE IoError)
    /\ workers' = [workers EXCEPT ![current] = Append(@, child)]
    /\ child' = "none" /\ pipe' = None
    /\ UNCHANGED runs
    /\ MessagesUnchanged

-----------------------------------------------------------------------------
(* The transport *)

\* Any message that was sent arrives, again or never, in any order; while a worker
\* runs nothing is lost by waiting, for what was sent stays.
Arrive(m) ==
    /\ pc = "idle" /\ reduced = None
    /\ Len(inbox) < Count
    /\ inbox' = Append(inbox, m)
    /\ UNCHANGED <<plan, truth, executor, sent, reduced>>

\* Whatever was sent: a damaged message says nothing.
Damaged == [id |-> 0, status |-> 0, valid |-> FALSE, value |-> 0, intact |-> FALSE]

-----------------------------------------------------------------------------
(* milena_partition_results_reduce_sum *)

\* milena_partition_result_decode: MILENA_OK or what is wrong with the message.
\* Signature and version, then the checksum: damage may hit either.
Decode(m) == IF m.intact THEN {0} ELSE {ParseError, DataError}

\* The first message of its partition.
Fresh(i) == \A k \in 1..(i - 1) : inbox[k].id # inbox[i].id

\* (mutant) The status a message carries is not looked at.
Refusals_NoStatus(i) ==
    IF ~inbox[i].intact THEN Decode(inbox[i])
    ELSE IF inbox[i].id >= Count \/ ~Fresh(i) THEN {DataError}
    ELSE {0}

\* What the loop may say of message i; 0 is MILENA_OK.
Refusals(i) ==
    IF ~inbox[i].intact THEN Decode(inbox[i])
    ELSE IF inbox[i].id >= Count \/ ~Fresh(i) THEN {DataError}
    ELSE {inbox[i].status}

\* The loop's outcome: the refusal of the first message that has one, else a
\* missing partition, else MILENA_OK.
Outcomes ==
    LET bad == {i \in 1..Len(inbox) : 0 \notin Refusals(i)}
    IN  IF bad # {} THEN Refusals(Min(bad))
        ELSE IF \E p \in 1..Count : \A i \in 1..Len(inbox) : inbox[i].id # p - 1
             THEN {DataError}
             ELSE {0}

\* The partials the loop has filled in; an invalid one adds nothing.
Partials ==
    [p \in 1..Count |->
        LET m == inbox[CHOOSE i \in 1..Len(inbox) : inbox[i].id = p - 1]
        IN  IF m.valid THEN m.value ELSE 0]

\* milena_partition_reduce_sum.
SumOf(partials) == MapThenSumSet(LAMBDA p : partials[p], DOMAIN partials)

Reduce ==
    /\ pc = "idle" /\ reduced = None
    /\ Len(inbox) = Count
    /\ \E s \in Outcomes : reduced' = [status |-> s, value |-> IF s = 0 THEN SumOf(Partials) ELSE 0]
    /\ UNCHANGED <<plan, truth, executor, sent, inbox>>

-----------------------------------------------------------------------------
\* The session ends with the reduction, or with messages that never come.
Next ==
    \/ Execute \/ Fork \/ ForkFails
    \/ Work \/ WriteResult \/ Exit \/ Die
    \/ ReadPipe \/ Reap
    \/ \E m \in sent \cup {Damaged} : Arrive(m)
    \/ Reduce

\* A worker returns or dies, and the executor is the caller's own thread.
Spec ==
    /\ Init /\ [][Next]_vars
    /\ WF_vars(Fork \/ ForkFails)
    /\ WF_vars(Work \/ WriteResult \/ Exit \/ Die)
    /\ WF_vars(ReadPipe) /\ WF_vars(Reap)

-----------------------------------------------------------------------------
(* Properties *)

\* However messages were lost, duplicated, reordered or damaged, and however often
\* the plan was run, the reduction succeeds only with exactly one result of every
\* partition, all of them fine, and then with the sum of the valid ones.
OkMeansExact ==
    reduced # None /\ reduced.status = 0 =>
        /\ \A p \in 1..Count : truth[p].status = 0
        /\ reduced.value = SumOf([p \in 1..Count |-> IF truth[p].valid THEN truth[p].value ELSE 0])

\* An execution returns MILENA_OK only when the worker of every partition ran once,
\* returned MILENA_OK and exited by itself; its report counts the workers that were
\* waited for, and none is left behind.
ExecutorTrue ==
    pc = "idle" /\ status # None =>
        /\ child = "none" /\ pipe = None
        /\ \A p \in 1..Count : workers[p] # << >> <=> p <= report.completed + report.failed
        /\ status = 0 => /\ report = [completed |-> Count, failed |-> 0]
                         /\ \A p \in 1..Count : workers[p] = <<"exited">> /\ truth[p].status = 0

\* Every execution returns, whatever becomes of its workers.
ExecutorReturns == pc # "idle" ~> pc = "idle"

=============================================================================
