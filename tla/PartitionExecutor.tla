-------------------------- MODULE PartitionExecutor --------------------------
(***************************************************************************)
(* The local executor of src/src/partition_executor.c: worker threads that *)
(* take the partitions of a physical plan one after the other from a       *)
(* coordinator behind a mutex, and the caller that creates and joins them. *)
(*                                                                         *)
(* The section that hands out a partition is two steps of a worker that    *)
(* holds the mutex: it tests whether it must stop, asks the consumer's     *)
(* cancel callback, and only then claims.  The caller's failed = true when *)
(* a thread cannot be created takes no mutex, and may fall between the two *)
(* as between any others.  The section after the worker's callback reads   *)
(* nothing that the caller writes and is one step.                         *)
(***************************************************************************)
EXTENDS PartitionPlan, FiniteSets, FiniteSetsExt

CONSTANTS
    Plans,          \* the plans executed: [input, target, parts]
    MaxWorkers,     \* options.max_workers
    Budgets         \* values of options.max_bytes_per_worker, 0 for no budget

\* milena_physical_plan_validate has accepted the plan.
ASSUME ExecutorAssumption ==
    /\ \A plan \in Plans :
        /\ plan \in [input : Nat, target : Nat, parts : Seq(Partitions)]
        /\ ValidPlan(plan.parts, plan.input, plan.target)
    /\ MaxWorkers \in 1..MaxPartitions
    /\ Budgets \subseteq Nat

Workers == 1..MaxWorkers

VARIABLES
    plan,           \* the plan being executed
    options,        \* fail_fast and max_bytes_per_worker
    caller,         \* "creating", "joining" or "returned"
    created,        \* threads created
    pc,             \* worker -> "unborn", "top", "admitted" (past the test, holding
                    \* the mutex), "running", "ran", "exited"
    claim,          \* worker -> the partition it holds, and what its callback said
    next_index,     \* partitions claimed
    failed,
    first_error,    \* "ok", "worker", "overflow" or "cancelled"
    bytes,          \* bytes_per_worker
    report,         \* completed, failed, bytes_assigned, cancelled
    result,         \* what execute_local returned
    ran,            \* history: the <<worker, partition, outcome>> callbacks entered
    recorder,       \* history: who recorded the first failure
    late            \* history: the partitions handed out after that

vars == <<plan, options, caller, created, pc, claim, next_index, failed,
          first_error, bytes, report, result, ran, recorder, late>>

Count == Len(plan.parts)
Bytes(part) == plan.parts[part].length

\* (mutant) As many threads as the options allow.
Used_AllAllowed == MaxWorkers

\* workers_used.
Used == IF MaxWorkers < Count THEN MaxWorkers ELSE Count

NoClaim == [part |-> 0, ok |-> FALSE]

Init ==
    /\ plan \in Plans
    /\ options \in [fail_fast : BOOLEAN, max_bytes : Budgets]
    /\ caller = "creating"
    /\ created = 0
    /\ pc = [w \in Workers |-> "unborn"]
    /\ claim = [w \in Workers |-> NoClaim]
    /\ next_index = 0
    /\ failed = FALSE
    /\ first_error = "ok"
    /\ bytes = [w \in Workers |-> 0]
    /\ report = [completed |-> 0, failed |-> 0, assigned |-> 0, cancelled |-> FALSE]
    /\ result = "none"
    /\ ran = {}
    /\ recorder = "nobody"
    /\ late = {}

\* failed = true, by a worker or by the caller.
RecordsFailure(who) ==
    /\ failed' = TRUE
    /\ recorder' = IF failed THEN recorder ELSE who

-----------------------------------------------------------------------------
(* milena_partition_execute_local: create the threads, join them, report *)

Create ==
    /\ caller = "creating"
    /\ created < Used
    /\ created' = created + 1
    /\ pc' = [pc EXCEPT ![created + 1] = "top"]
    /\ UNCHANGED <<plan, options, caller, claim, next_index, failed, first_error,
                   bytes, report, result, ran, recorder, late>>

\* thrd_create fails: no more threads, and failed is set without the mutex, whoever
\* holds it.
CreateFails ==
    /\ caller = "creating"
    /\ created < Used
    /\ caller' = "joining"
    /\ RecordsFailure("caller")
    /\ UNCHANGED <<plan, options, created, pc, claim, next_index, first_error,
                   bytes, report, result, ran, late>>

AllCreated ==
    /\ caller = "creating"
    /\ created = Used
    /\ caller' = "joining"
    /\ UNCHANGED <<plan, options, created, pc, claim, next_index, failed,
                   first_error, bytes, report, result, ran, recorder, late>>

\* (mutant) A run that was cancelled with no failed partition is a success.
Outcome_IgnoresBudget ==
    IF created # Used THEN "internal"
    ELSE IF report.cancelled THEN "internal"
    ELSE IF report.failed > 0 THEN "data"
    ELSE "ok"

Outcome ==
    IF created # Used THEN "internal"
    ELSE IF failed THEN IF report.cancelled THEN "internal" ELSE "data"
    ELSE "ok"

\* (mutant) Threads that were never created are joined too.
Joined_All == \A w \in 1..Used : pc[w] = "exited"

\* Every created thread has been joined.
Joined == \A w \in 1..created : pc[w] = "exited"

ReturnResult ==
    /\ caller = "joining"
    /\ Joined
    /\ caller' = "returned"
    /\ result' = Outcome
    /\ UNCHANGED <<plan, options, created, pc, claim, next_index, failed,
                   first_error, bytes, report, ran, recorder, late>>

-----------------------------------------------------------------------------
(* local_worker *)

CallerUnchanged == UNCHANGED <<plan, options, caller, created, result>>

\* (mutant) The mutex is given up while the consumer is asked whether to cancel.
MutexFree_WhileAsking == TRUE

\* mtx_lock returns.
MutexFree == \A w \in Workers : pc[w] # "admitted"

MustStop == next_index >= Count \/ (failed /\ options.fail_fast)

Stop(w) ==
    /\ pc[w] = "top" /\ MutexFree
    /\ MustStop
    /\ pc' = [pc EXCEPT ![w] = "exited"]
    /\ UNCHANGED <<claim, next_index, failed, first_error, bytes, report, ran,
                   recorder, late>>
    /\ CallerUnchanged

\* The test is passed; the mutex is kept, and the consumer's callback asked under it.
Admit(w) ==
    /\ pc[w] = "top" /\ MutexFree
    /\ ~MustStop
    /\ pc' = [pc EXCEPT ![w] = "admitted"]
    /\ UNCHANGED <<claim, next_index, failed, first_error, bytes, report, ran,
                   recorder, late>>
    /\ CallerUnchanged

\* The consumer says cancel.
Cancel(w) ==
    /\ pc[w] = "admitted"
    /\ pc' = [pc EXCEPT ![w] = "exited"]
    /\ RecordsFailure("worker")
    /\ first_error' = "cancelled"
    /\ report' = [report EXCEPT !.cancelled = TRUE]
    /\ UNCHANGED <<claim, next_index, bytes, ran, late>>
    /\ CallerUnchanged

\* (mutant) The partition is compared with the whole budget.
FitsBudget_Whole(w, part) ==
    options.max_bytes = 0 \/ Bytes(part) <= options.max_bytes

FitsBudget(w, part) ==
    options.max_bytes = 0 \/ bytes[w] + Bytes(part) <= options.max_bytes

\* The next partition does not fit: it has been claimed, no other worker gets it,
\* and this worker ends whatever fail_fast says.
OverBudget(w) ==
    /\ pc[w] = "admitted"
    /\ next_index' = next_index + 1
    /\ ~FitsBudget(w, next_index + 1)
    /\ pc' = [pc EXCEPT ![w] = "exited"]
    /\ RecordsFailure("worker")
    /\ first_error' = "overflow"
    /\ UNCHANGED <<claim, bytes, report, ran, late>>
    /\ CallerUnchanged

\* (mutant) The increment is not protected: a claim made while another worker is
\* busy is lost.
Advanced_LostUpdate(w) ==
    IF \E v \in Workers \ {w} : pc[v] = "running" THEN next_index ELSE next_index + 1

Advanced(w) == next_index + 1

\* The partition is claimed and the callback entered, whatever has been recorded since
\* the test.
Claim(w) ==
    /\ pc[w] = "admitted"
    /\ FitsBudget(w, next_index + 1)
    /\ next_index' = Advanced(w)
    /\ pc' = [pc EXCEPT ![w] = "running"]
    /\ claim' = [claim EXCEPT ![w] = [part |-> next_index + 1, ok |-> FALSE]]
    /\ bytes' = [bytes EXCEPT ![w] = @ + Bytes(next_index + 1)]
    /\ report' = [report EXCEPT !.assigned = @ + Bytes(next_index + 1)]
    /\ ran' = ran \cup {<<w, next_index + 1, "entered">>}
    /\ late' = IF failed THEN late \cup {next_index + 1} ELSE late
    /\ UNCHANGED <<failed, first_error, recorder>>
    /\ CallerUnchanged

\* The callback returns.
WorkerReturns(w, ok) ==
    /\ pc[w] = "running"
    /\ pc' = [pc EXCEPT ![w] = "ran"]
    /\ claim' = [claim EXCEPT ![w].ok = ok]
    /\ ran' = ran \cup {<<w, claim[w].part, IF ok THEN "ok" ELSE "failed">>}
    /\ UNCHANGED <<next_index, failed, first_error, bytes, report, recorder, late>>
    /\ CallerUnchanged

RecordCompleted(w) ==
    /\ pc[w] = "ran" /\ MutexFree
    /\ claim[w].ok
    /\ pc' = [pc EXCEPT ![w] = "top"]
    /\ report' = [report EXCEPT !.completed = @ + 1]
    /\ UNCHANGED <<claim, next_index, failed, first_error, bytes, ran, recorder, late>>
    /\ CallerUnchanged

RecordFailed(w) ==
    /\ pc[w] = "ran" /\ MutexFree
    /\ ~claim[w].ok
    /\ pc' = [pc EXCEPT ![w] = "top"]
    /\ RecordsFailure("worker")
    /\ first_error' = IF first_error = "ok" THEN "worker" ELSE first_error
    /\ report' = [report EXCEPT !.failed = @ + 1]
    /\ UNCHANGED <<claim, next_index, bytes, ran, late>>
    /\ CallerUnchanged

\* mtx_lock fails: the thread returns -1, which nobody reads.
LockFails(w) ==
    /\ pc[w] \in {"top", "ran"}
    /\ pc' = [pc EXCEPT ![w] = "exited"]
    /\ UNCHANGED <<claim, next_index, failed, first_error, bytes, report, ran,
                   recorder, late>>
    /\ CallerUnchanged

-----------------------------------------------------------------------------
Worker(w) ==
    \/ Stop(w)
    \/ Admit(w)
    \/ Cancel(w)
    \/ OverBudget(w)
    \/ Claim(w)
    \/ \E ok \in BOOLEAN : WorkerReturns(w, ok)
    \/ RecordCompleted(w)
    \/ RecordFailed(w)

Caller == Create \/ CreateFails \/ AllCreated \/ ReturnResult

Returned == caller = "returned" /\ UNCHANGED vars

Next == Caller \/ (\E w \in Workers : Worker(w)) \/ Returned

\* Threads are scheduled and callbacks return, the consumer's under the mutex too, so
\* that every section ends: every worker that can go on does.  That is enough without
\* a fair mutex, since only finitely many sections can pass a waiting worker.
Fairness == WF_vars(Caller) /\ \A w \in Workers : WF_vars(Worker(w))

Spec == Init /\ [][Next]_vars /\ Fairness

\* The same where mtx_lock may fail.
SpecWithLockFaults ==
    Init /\ [][Next \/ \E w \in Workers : LockFails(w)]_vars /\ Fairness

-----------------------------------------------------------------------------
(* Properties *)

\* Types of the state; no more threads than partitions, no index behind the last.
TypeOK ==
    /\ plan \in Plans
    /\ options \in [fail_fast : BOOLEAN, max_bytes : Budgets]
    /\ caller \in {"creating", "joining", "returned"}
    /\ created \in 0..MaxWorkers /\ created <= Count
    /\ pc \in [Workers -> {"unborn", "top", "admitted", "running", "ran", "exited"}]
    /\ claim \in [Workers -> [part : 0..Count, ok : BOOLEAN]]
    /\ next_index \in 0..Count
    /\ failed \in BOOLEAN
    /\ first_error \in {"ok", "worker", "overflow", "cancelled"}
    /\ bytes \in [Workers -> Nat]
    /\ report \in [completed : 0..Count, failed : 0..Count, assigned : Nat,
                   cancelled : BOOLEAN]
    /\ result \in {"none", "ok", "data", "internal"}
    /\ ran \subseteq Workers \X (1..Count) \X {"entered", "ok", "failed"}
    /\ recorder \in {"nobody", "worker", "caller"}
    /\ late \subseteq 1..Count

Entered(p) == {w \in Workers : <<w, p, "entered">> \in ran}
Ended(p, how) == {w \in Workers : <<w, p, how>> \in ran}

\* A partition is given to one worker only, and its callback ends at most once:
\* no two threads ever work on the same bytes of the input.
AssignedOnce ==
    \A p \in 1..Count :
        /\ \A v, w \in Entered(p) : v = w
        /\ Ended(p, "ok") = {} \/ Ended(p, "failed") = {}

Holds(part, byte) ==
    byte \in plan.parts[part].offset..(plan.parts[part].offset + Bytes(part) - 1)

\* OK is returned only when every byte of the input was in exactly one partition,
\* whose callback succeeded, and every partition was counted: a partial result is
\* never taken for a success.
OkMeansAll ==
    result = "ok" =>
        /\ \A byte \in 0..(plan.input - 1) :
            \E p \in 1..Count :
                /\ Holds(p, byte) /\ Ended(p, "ok") # {}
                /\ \A q \in 1..Count : Holds(q, byte) => q = p
        /\ report.completed = Count
        /\ ~report.cancelled

Parts(how) == {p \in 1..Count : Ended(p, how) # {}}

\* How much of the input lies in these partitions.
Share(parts) == Cardinality({byte \in 0..(plan.input - 1) : \E p \in parts : Holds(p, byte)})

\* When the call returns, the report counts the callbacks that ended well and the
\* ones that did not, bytes_assigned is the share of the input the workers were
\* given, and no worker was given more than its budget.
ReportAdds ==
    caller = "returned" =>
        /\ report.completed = Cardinality(Parts("ok"))
        /\ report.failed = Cardinality(Parts("failed"))
        /\ report.assigned = Share(Parts("entered"))
        /\ \A w \in Workers :
            options.max_bytes # 0 =>
                Share({p \in 1..Count : w \in Entered(p)}) <= options.max_bytes

\* With fail_fast no partition is handed out once a worker has recorded a failure, a
\* cancellation or a partition over budget.  The caller records its own without the
\* mutex: one partition may be handed out after that, to the worker that was past its
\* test, and no second one.
FailFastStops ==
    options.fail_fast =>
        /\ \A p, q \in late : p = q
        /\ late # {} => recorder = "caller"

\* The call returns, whichever workers fail, are cancelled or never get created.
ExecuteReturns == <>(caller = "returned")

=============================================================================
