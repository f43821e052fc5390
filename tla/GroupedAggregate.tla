-------------------------- MODULE GroupedAggregate --------------------------
(***************************************************************************)
(* The spillable grouped reducer of src/src/grouped_aggregate.c.  Rows are *)
(* combined in a bounded map; a full map is appended to the source spill   *)
(* as partial states.  Finalization reads the spill back, cuts it into     *)
(* sorted runs of bounded size, merges the runs pairwise, pass after pass, *)
(* and hands the last run to a visitor.                                    *)
(*                                                                         *)
(* Keys are numbers in byte order.  The spill and the run files are        *)
(* sequences of [key, agg] records with their size; spill_store.c is used  *)
(* through what SpillStore.tla shows of it.  Any call that touches a file, *)
(* allocates or calls the visitor may fail, and every failure path runs    *)
(* the clean-up the code has there.                                        *)
(***************************************************************************)
EXTENDS MergeableAggregate, Sequences, FiniteSets

CONSTANTS
    Keys,           \* group keys: a finite set of naturals, in byte order
    Observations,   \* key -> what its rows hold: [type, value]
    RecordBytes,    \* key -> size of its framed record
    GroupCapacity,  \* groups the resident map holds
    BatchCapacity,  \* records one sorted run is made of: slots - 1
    MaxRuns,        \* cap on the initial runs
    Quota,          \* spill_quota_bytes
    ForeignRuns,    \* run names that files of an earlier process may occupy
    Corruption,     \* may the closed spill lose its tail before it is read?
    MaxRows         \* bound: rows added

ASSUME ReducerAssumption ==
    /\ IsFiniteSet(Keys) /\ Keys \subseteq Nat
    /\ \A k \in Keys : \A o \in Observations[k] :
        /\ o.type \in {"int", "float", "null", "invalid"}
        /\ o.type = "int" => o.value \in Int64
    /\ RecordBytes \in [Keys -> Nat \ {0}]
    /\ GroupCapacity \in Nat \ {0}
    /\ BatchCapacity \in Nat \ {0, 1}
    /\ MaxRuns \in Nat \ {0}
    /\ Quota \in Nat
    /\ MaxRows \in Nat
    /\ Corruption \in BOOLEAN

VARIABLES
    pc,         \* "adding", "reading", "merging", "emitting", "done"
    status,     \* what finalize returned: "none" until then, "ok" or "error"
    groups,     \* the resident map, in insertion order
    failed,     \* grouped->failed
    spill,      \* the source spill: [recs, bytes]
    pos,        \* records of the spill read back so far
    batch,      \* the batch being collected for the next run
    fs,         \* run files: <<pass, run>> -> [own, recs, bytes]
    sort,       \* finalize's run_count, run_bytes, pass, i, created, next_bytes
    merge,      \* the pair being merged: [on, a, b], records read of each side
    out,        \* what the visitor was given
    total,      \* history: key -> plain counts of the accepted rows
    rows        \* history: rows accepted

vars == <<pc, status, groups, failed, spill, pos, batch, fs, sort, merge, out, total, rows>>

\* The promise this module is checked against: where the reducer stands in it.
Promise == INSTANCE GroupBy WITH
    phase <- CASE failed \/ status = "error" -> "failed"
               [] status = "ok" -> "done"
               [] pc = "adding" /\ ~failed -> "adding"
               [] OTHER -> "emitting"

NoFile == [recs |-> << >>, bytes |-> 0]
NoSort == [runs |-> 0, bytes |-> 0, pass |-> 0, i |-> 0, created |-> 0, next |-> 0]
NoMerge == [on |-> FALSE, a |-> 0, b |-> 0]

Foreign == [own |-> FALSE, recs |-> << >>, bytes |-> 0]

Init ==
    /\ pc = "adding"
    /\ status = "none"
    /\ groups = << >>
    /\ failed = FALSE
    /\ spill = NoFile
    /\ pos = 0
    /\ batch = << >>
    /\ \E left \in SUBSET ForeignRuns : fs = [n \in left |-> Foreign]
    /\ sort = NoSort
    /\ merge = NoMerge
    /\ out = << >>
    /\ total = [k \in Keys |-> Promise!Nothing]
    /\ rows = 0

-----------------------------------------------------------------------------
(* Files: what is written and removed *)

Appended(f, r) == [f EXCEPT !.recs = Append(@, r), !.bytes = @ + RecordBytes[r.key]]

\* What things of these sizes take together: one place for each byte.
Places(size) == UNION {{x} \X (1..size[x]) : x \in DOMAIN size}
SizeOf(size) == Cardinality(Places(size))

\* Bytes of a sequence of records.
BytesOf(s) == SizeOf([i \in 1..Len(s) |-> RecordBytes[s[i].key]])

Without(names) == [n \in DOMAIN fs \ names |-> fs[n]]
With(name, f) == [n \in DOMAIN fs \cup {name} |-> IF n = name THEN f ELSE fs[n]]

\* remove_run_set.
RunSet(pass, count) == {<<pass, i>> : i \in 0..(count - 1)}

-----------------------------------------------------------------------------
(* milena_grouped_aggregate_add, _add_int64, _add_null, _add_invalid *)

Find(k) == {i \in 1..Len(groups) : groups[i].key = k}

Accept(k, o) ==
    /\ rows < MaxRows
    /\ rows' = rows + 1
    /\ total' = [total EXCEPT ![k] = Promise!Counted(@, o)]

FinalizeUnchanged == UNCHANGED <<pc, status, pos, batch, fs, sort, merge, out>>

\* (mutant) A handle whose flush failed takes rows and finalizes like any other.
Usable_Retry == pc = "adding"

\* add and finalize turn a failed handle away.
Usable == pc = "adding" /\ ~failed

\* The group is resident.  A refused observation changes nothing.
AddFound(k, o) ==
    /\ Usable
    /\ \E i \in Find(k) :
        LET s == Observe(groups[i].agg, o) IN
        /\ s # Refused
        /\ groups' = [groups EXCEPT ![i].agg = s]
    /\ Accept(k, o)
    /\ UNCHANGED <<failed, spill>>
    /\ FinalizeUnchanged

Fresh(k, o) == [key |-> k, agg |-> Observe(NewState, o)]

AddNew(k, o) ==
    /\ Usable
    /\ Find(k) = {}
    /\ Len(groups) < GroupCapacity
    /\ groups' = Append(groups, Fresh(k, o))
    /\ Accept(k, o)
    /\ UNCHANGED <<failed, spill>>
    /\ FinalizeUnchanged

\* The first n groups of the map appended to the spill.
Flushed(n) ==
    [recs |-> spill.recs \o SubSeq(groups, 1, n),
     bytes |-> spill.bytes + BytesOf(SubSeq(groups, 1, n))]

\* (mutant) The quota is not consulted.
CanFlush_Always(n) == TRUE

CanFlush(n) == Flushed(n).bytes <= Quota

\* The map is full: it is flushed, cleared, and the new group is its first.
AddFlush(k, o) ==
    /\ Usable
    /\ Find(k) = {}
    /\ Len(groups) = GroupCapacity
    /\ CanFlush(Len(groups))
    /\ spill' = Flushed(Len(groups))
    /\ groups' = << Fresh(k, o) >>
    /\ Accept(k, o)
    /\ UNCHANGED failed
    /\ FinalizeUnchanged

\* flush_groups fails, on the quota or on any error, after n records: they are on
\* disk, the map still holds every group, and the handle is terminal.
FlushFails(n) ==
    /\ Usable
    /\ n < Len(groups)
    /\ CanFlush(n)
    /\ spill' = Flushed(n)
    /\ failed' = TRUE
    /\ UNCHANGED <<groups, total, rows>>
    /\ FinalizeUnchanged

\* finalize has flushed the last groups and fails to close the spill.
CloseSpillFails ==
    /\ Usable
    /\ CanFlush(Len(groups))
    /\ spill' = Flushed(Len(groups))
    /\ groups' = << >>
    /\ failed' = TRUE
    /\ UNCHANGED <<total, rows>>
    /\ FinalizeUnchanged

AddingUnchanged == UNCHANGED <<groups, failed, total, rows>>

-----------------------------------------------------------------------------
(* milena_grouped_aggregate_finalize: the source spill is closed and read *)

\* The last groups are flushed, the spill is closed and opened for reading.  The
\* reader opens through recovery, which cuts a damaged file to its valid prefix.
Finalize ==
    /\ Usable
    /\ CanFlush(Len(groups))
    /\ spill' \in {[Flushed(Len(groups)) EXCEPT !.recs = SubSeq(@, 1, n)] :
                   n \in IF Corruption THEN 0..Len(Flushed(Len(groups)).recs)
                        ELSE {Len(Flushed(Len(groups)).recs)}}
    /\ groups' = << >>
    /\ pc' = "reading"
    /\ UNCHANGED <<status, failed, pos, batch, fs, sort, merge, out, total, rows>>

\* Every error from here on ends finalize, with the given files removed.
FinalizeFails(names) ==
    /\ pc' = "done"
    /\ status' = "error"
    /\ fs' = Without(names)
    /\ merge' = NoMerge
    /\ UNCHANGED <<spill, pos, batch, sort, out>>
    /\ AddingUnchanged

KeysOf(s) == {s[i].key : i \in 1..Len(s)}

\* milena_aggregate_state_merge over the records of one key, in batch order: the
\* partial state after the first n records.
MergeAll(s, k) ==
    LET partial[n \in 0..Len(s)] ==
            IF n = 0 THEN NewState
            ELSE IF s[n].key # k \/ partial[n - 1] = Refused THEN partial[n - 1]
            ELSE Merge(partial[n - 1], s[n].agg)
    IN  partial[Len(s)]

\* qsort and coalesce_group_batch: one record per key, in key order; the i-th key
\* has i - 1 below it.
KeyAt(ks, i) == CHOOSE k \in ks : Cardinality({j \in ks : j < k}) = i - 1
Coalesced(s) ==
    [i \in 1..Cardinality(KeysOf(s)) |->
        LET k == KeyAt(KeysOf(s), i) IN [key |-> k, agg |-> MergeAll(s, k)]]

SortedBatch == Coalesced(batch)

\* (mutant) A file of that name is overwritten.
FreeRunName_Any(name) == TRUE

\* path_exists: a file of that name, whoever left it, stops the run.
FreeRunName(name) == name \notin DOMAIN fs

RunQuota == IF Quota < 2 * Quota - sort.bytes THEN Quota ELSE 2 * Quota - sort.bytes

CanWriteRun ==
    /\ sort.runs < MaxRuns
    /\ \A i \in 1..Len(SortedBatch) : SortedBatch[i].agg # Refused
    /\ FreeRunName(<<0, sort.runs>>)
    /\ BytesOf(SortedBatch) <= RunQuota

\* write_group_run.
WriteRun ==
    /\ CanWriteRun
    /\ fs' = With(<<0, sort.runs>>, [own |-> TRUE, recs |-> SortedBatch,
                                    bytes |-> BytesOf(SortedBatch)])
    /\ sort' = [sort EXCEPT !.runs = @ + 1, !.bytes = @ + BytesOf(SortedBatch)]

\* A record is read; a full batch becomes a run first.
ReadSource ==
    /\ pc = "reading"
    /\ pos < Len(spill.recs)
    /\ pos' = pos + 1
    /\ IF Len(batch) = BatchCapacity
       THEN /\ WriteRun
            /\ batch' = << spill.recs[pos + 1] >>
       ELSE /\ batch' = Append(batch, spill.recs[pos + 1])
            /\ UNCHANGED <<fs, sort>>
    /\ UNCHANGED <<pc, status, spill, merge, out>>
    /\ AddingUnchanged

\* The spill is exhausted: the last batch becomes the last run.
LastRun ==
    /\ pc = "reading"
    /\ pos = Len(spill.recs)
    /\ batch # << >>
    /\ WriteRun
    /\ batch' = << >>
    /\ UNCHANGED <<pc, status, spill, pos, merge, out>>
    /\ AddingUnchanged

\* A run is due that cannot be written: the cap on runs, a refused merge, a file
\* in the way, the quota.
RunRefused ==
    /\ \/ Len(batch) = BatchCapacity
       \/ pos = Len(spill.recs) /\ batch # << >>
    /\ ~CanWriteRun

\* The runs made so far are removed.
ReadFails ==
    /\ pc = "reading"
    /\ FinalizeFails(RunSet(0, sort.runs))

\* Nothing was spilled: finalize is done without a callback.
NoRuns ==
    /\ pc = "reading"
    /\ pos = Len(spill.recs)
    /\ batch = << >>
    /\ sort.runs = 0
    /\ pc' = "done"
    /\ status' = "ok"
    /\ UNCHANGED <<spill, pos, batch, fs, sort, merge, out>>
    /\ AddingUnchanged

StartMerging ==
    /\ pc = "reading"
    /\ pos = Len(spill.recs)
    /\ batch = << >>
    /\ sort.runs > 0
    /\ pc' = "merging"
    /\ sort' = [sort EXCEPT !.next = sort.bytes]
    /\ UNCHANGED <<status, spill, pos, batch, fs, merge, out>>
    /\ AddingUnchanged

-----------------------------------------------------------------------------
(* finalize: pairwise merge passes *)

Left == <<sort.pass, sort.i>>
Right == <<sort.pass, sort.i + 1>>
Out == <<sort.pass + 1, sort.i \div 2>>

MergingUnchanged ==
    /\ UNCHANGED <<status, spill, pos, batch, out>>
    /\ AddingUnchanged

\* merge_group_runs opens both runs and creates its output.
StartPair ==
    /\ pc = "merging"
    /\ sort.runs > 1
    /\ ~merge.on
    /\ sort.i + 1 < sort.runs
    /\ FreeRunName(Out)
    /\ fs[Left].bytes <= Quota /\ fs[Right].bytes <= Quota
    /\ fs' = With(Out, [own |-> TRUE, recs |-> << >>, bytes |-> 0])
    /\ merge' = [on |-> TRUE, a |-> 0, b |-> 0]
    /\ UNCHANGED <<pc, sort>>
    /\ MergingUnchanged

HaveA == merge.a < Len(fs[Left].recs)
HaveB == merge.b < Len(fs[Right].recs)
HeadA == fs[Left].recs[merge.a + 1]
HeadB == fs[Right].recs[merge.b + 1]

OutQuota == IF Quota < 2 * Quota - sort.next THEN Quota ELSE 2 * Quota - sort.next

\* What the loop of merge_group_runs does with the two heads.
TakeA == HaveA /\ (HaveB => HeadA.key < HeadB.key)
TakeB == HaveB /\ (HaveA => HeadA.key > HeadB.key)
Chosen ==
    IF TakeA THEN HeadA
    ELSE IF TakeB THEN HeadB
    ELSE [HeadA EXCEPT !.agg = Merge(HeadA.agg, HeadB.agg)]

MergeRecord ==
    /\ merge.on
    /\ HaveA \/ HaveB
    /\ Chosen.agg # Refused
    /\ fs[Out].bytes + RecordBytes[Chosen.key] <= OutQuota
    /\ fs' = With(Out, Appended(fs[Out], Chosen))
    /\ merge' = [merge EXCEPT !.a = IF TakeB THEN @ ELSE @ + 1,
                             !.b = IF TakeA THEN @ ELSE @ + 1]
    /\ UNCHANGED <<pc, sort>>
    /\ MergingUnchanged

\* (mutant) The bytes of the removed inputs stay on the account.
NextBytes_InputsKept == sort.next + fs[Out].bytes

NextBytes == sort.next + fs[Out].bytes - (fs[Left].bytes + fs[Right].bytes)

\* Both inputs are exhausted; they are removed and the bytes accounted for.
EndPair ==
    /\ merge.on
    /\ ~HaveA /\ ~HaveB
    /\ fs' = Without({Left, Right})
    /\ sort' = [sort EXCEPT !.i = @ + 2, !.created = @ + 1, !.next = NextBytes]
    /\ merge' = NoMerge
    /\ UNCHANGED pc
    /\ MergingUnchanged

Renamed(old, new) ==
    [n \in (DOMAIN fs \ {old}) \cup {new} |-> IF n = new THEN fs[old] ELSE fs[n]]

\* (mutant) A pass has pairs only.
OddRun_Forgotten == FALSE

OddRun == sort.i + 1 = sort.runs

\* The odd run of a pass moves to the next one.
MoveOdd ==
    /\ pc = "merging"
    /\ sort.runs > 1
    /\ ~merge.on
    /\ OddRun
    /\ FreeRunName(Out)
    /\ fs' = Renamed(Left, Out)
    /\ sort' = [sort EXCEPT !.i = @ + 2, !.created = @ + 1]
    /\ UNCHANGED <<pc, merge>>
    /\ MergingUnchanged

NextCount == (sort.runs \div 2) + (sort.runs % 2)

EndPass ==
    /\ pc = "merging"
    /\ sort.runs > 1
    /\ ~merge.on
    /\ sort.i >= sort.runs
    /\ sort' = [runs |-> NextCount, bytes |-> sort.next, pass |-> sort.pass + 1,
                i |-> 0, created |-> 0, next |-> sort.next]
    /\ UNCHANGED <<pc, fs, merge>>
    /\ MergingUnchanged

\* (mutant) A failed pass forgets the output it was writing.
PassLeftovers_NoOutput ==
    RunSet(sort.pass + 1, sort.created) \cup RunSet(sort.pass, sort.runs)

\* What a failing merge removes: the output it had created, the runs of the next
\* pass, and the runs of this one.
PassLeftovers ==
    (IF merge.on THEN {Out} ELSE {})
        \cup RunSet(sort.pass + 1, sort.created) \cup RunSet(sort.pass, sort.runs)

\* A name of the next pass is taken, or two partial states do not combine.
MergeRefused ==
    /\ sort.runs > 1
    /\ \/ ~merge.on /\ sort.i < sort.runs /\ ~FreeRunName(Out)
       \/ merge.on /\ (HaveA \/ HaveB) /\ Chosen.agg = Refused
       \/ merge.on /\ (HaveA \/ HaveB) /\ fs[Out].bytes + RecordBytes[Chosen.key] > OutQuota

MergeFails ==
    /\ pc = "merging"
    /\ sort.runs > 1
    /\ FinalizeFails(PassLeftovers)

-----------------------------------------------------------------------------
(* finalize: the last run goes to the visitor *)

Final == <<sort.pass, 0>>

StartEmitting ==
    /\ pc = "merging"
    /\ sort.runs = 1
    /\ fs[Final].bytes <= Quota
    /\ pc' = "emitting"
    /\ pos' = 0
    /\ UNCHANGED <<status, spill, batch, fs, sort, merge, out>>
    /\ AddingUnchanged

EmitGroup ==
    /\ pc = "emitting"
    /\ pos < Len(fs[Final].recs)
    /\ pos' = pos + 1
    /\ out' = Append(out, fs[Final].recs[pos + 1])
    /\ UNCHANGED <<pc, status, spill, batch, fs, sort, merge>>
    /\ AddingUnchanged

EmitEnd ==
    /\ pc = "emitting"
    /\ pos = Len(fs[Final].recs)
    /\ pc' = "done"
    /\ status' = "ok"
    /\ fs' = Without({Final})
    /\ UNCHANGED <<spill, pos, batch, sort, merge, out>>
    /\ AddingUnchanged

\* The reader, the decoder or the visitor refuses.
EmitFails ==
    /\ pc = "emitting" \/ (pc = "merging" /\ sort.runs = 1)
    /\ FinalizeFails({Final})

-----------------------------------------------------------------------------
Add ==
    \E k \in Keys : \E o \in Observations[k] : AddFound(k, o) \/ AddNew(k, o) \/ AddFlush(k, o)

Sort == Finalize \/ ReadSource \/ LastRun \/ NoRuns \/ StartMerging

MergeRuns == StartPair \/ MergeRecord \/ EndPair \/ MoveOdd \/ EndPass

EmitRun == StartEmitting \/ EmitGroup \/ EmitEnd

\* The errors the code runs into by itself.
Refuse == (ReadFails /\ RunRefused) \/ (MergeFails /\ MergeRefused)

\* Errors from outside: a disk, an allocation, the visitor.
Fault ==
    \/ \E n \in 0..GroupCapacity : FlushFails(n)
    \/ CloseSpillFails
    \/ ReadFails
    \/ MergeFails
    \/ EmitFails

\* The handle is spent: closing it, or a failed one, changes nothing here.
Spent == (pc = "done" \/ failed) /\ UNCHANGED vars

Next == Add \/ Sort \/ MergeRuns \/ EmitRun \/ Refuse \/ Fault \/ Spent

\* finalize is one call: it takes its next step until it returns, and no fault has
\* to come to its rescue.
Fairness == WF_vars(ReadSource \/ LastRun \/ NoRuns \/ StartMerging \/ MergeRuns \/ EmitRun \/ Refuse)

Spec == Init /\ [][Next]_vars /\ Fairness

-----------------------------------------------------------------------------
(* Properties *)

Records == [key : Keys, agg : States]

\* Types of the state.
TypeOK ==
    /\ pc \in {"adding", "reading", "merging", "emitting", "done"}
    /\ status \in {"none", "ok", "error"}
    /\ groups \in Seq(Records) /\ Len(groups) <= GroupCapacity
    /\ failed \in BOOLEAN
    /\ spill \in [recs : Seq(Records), bytes : 0..Quota]
    /\ pos \in Nat
    /\ batch \in Seq(Records) /\ Len(batch) <= BatchCapacity
    /\ \A n \in DOMAIN fs : fs[n] \in [own : BOOLEAN, recs : Seq(Records), bytes : Nat]
    /\ sort \in [runs : Nat, bytes : Nat, pass : Nat, i : Nat, created : Nat, next : Nat]
    /\ merge \in [on : BOOLEAN, a : Nat, b : Nat]
    /\ out \in Seq(Records)
    /\ rows \in 0..MaxRows

OwnRuns == {n \in DOMAIN fs : fs[n].own}
OwnBytes == SizeOf([n \in OwnRuns |-> fs[n].bytes])

\* Each group is given out once, in ascending key order, with the exact aggregate
\* of every row the reducer accepted for it, however the rows were spread over
\* flushes, runs and passes; finalize returns OK only when no group is missing;
\* a failed flush is never followed by output.
KeepsPromise == Promise!Spec

\* An error or a corruption is reported, it is never a shorter answer: when finalize
\* returns OK, every key that was added has been given out with all its rows.
\* (docs/GROUPED_SPILL_CONTRACT.md: "corrupcion devuelve error explicito".)
OkMeansComplete ==
    status = "ok" =>
        \A k \in Keys : total[k] # Promise!Nothing =>
            \E i \in 1..Len(out) : out[i] = [key |-> k, agg |-> Promise!Report(total[k])]

\* The temporary runs never take more than twice the spill quota, the output that
\* is being written included, and the bytes finalize accounts for are the bytes
\* of the runs on disk.
RunsWithinTwoQuotas ==
    /\ OwnBytes <= 2 * Quota
    /\ pc = "reading" => sort.bytes = OwnBytes
    /\ (pc = "merging" /\ ~merge.on) => sort.next = OwnBytes

\* When finalize has returned, however it ended, no run of its own is left.
RunsCleanedUp == pc \in {"adding", "done"} => OwnRuns = {}

\* A file that already had the name of a run is neither overwritten nor removed,
\* by the clean-up of a failed pass either.
ForeignRunsStay == [][\A n \in DOMAIN fs : ~fs[n].own => n \in DOMAIN fs' /\ fs'[n] = fs[n]]_vars

\* finalize returns: every pass leaves fewer runs, and none waits for a run that is
\* not there.
FinalizeReturns == pc = "reading" ~> pc = "done"

=============================================================================
