---------------------------- MODULE ExternalSort -----------------------------
(***************************************************************************)
(* milena_external_sort_doubles of src/src/external_sort.c with the k-way  *)
(* merge of src/src/external_merge.c.  Values are read into chunks; every  *)
(* sorted chunk becomes a run file; passes merge at most FanIn runs into   *)
(* one of the next pass, and the last runs into the output.                *)
(*                                                                         *)
(* Files are known by their names, some of which belong to others (a dead  *)
(* process of the same prefix).  Every record takes RecordBytes, so only   *)
(* the number of records decides a quota.                                  *)
(***************************************************************************)
EXTENDS Integers, Sequences, FiniteSets, Functions

CONSTANTS
    Values,         \* finite doubles, by their order
    Capacity,       \* run_capacity
    FanIn,          \* max_fan_in
    PerFile,        \* per_file_quota_bytes
    Total,          \* total_scratch_quota_bytes
    RecordBytes,    \* header, one double and trailer
    OthersSets,     \* the names others may have left files at
    NoOutput,
    MaxValues       \* bound: values in the source

ASSUME SortAssumption ==
    /\ Values \subseteq Nat \ {0}
    /\ {Capacity, RecordBytes} \subseteq Nat \ {0}
    /\ FanIn \in Nat /\ FanIn >= 2
    /\ {PerFile, Total} \subseteq Nat /\ PerFile >= RecordBytes /\ Total >= RecordBytes
    /\ MaxValues \in Nat
    /\ NoOutput \notin Seq(Values)

VARIABLES
    pc,             \* where the call stands
    status,         \* what it returned
    taken,          \* history: the values the source gave
    chunk,          \* values[0..chunk_count)
    eof,
    files,          \* name -> records
    others,         \* history: the files that were there before
    pass,
    runCount,
    group,          \* the merge of this pass that is next
    scratchUsed,
    nextBytes,
    heap,           \* one node [value, run, pos] per run that has records left
    quota           \* the quota of the merge under way

vars == <<pc, status, taken, chunk, eof, files, others, pass, runCount, group,
          scratchUsed, nextBytes, heap, quota>>

\* <prefix>.p<pass>.r<run>.spill; the output path; and either with ".partial".
RunName(p, r) == [pass |-> p, run |-> r, partial |-> FALSE]
Output == RunName(-1, 0)
Partial(name) == [name EXCEPT !.partial = TRUE]

Exists(name) == name \in DOMAIN files
Bytes(records) == RecordBytes * Len(records)
Least(a, b) == IF a < b THEN a ELSE b

\* qsort: the k-th of the sorted values is the one with k values up to it, equal
\* values counted in the order they came.
UpTo(s, i) == {j \in 1..Len(s) : s[j] < s[i] \/ (s[j] = s[i] /\ j <= i)}
Sorted(s) ==
    [k \in 1..Len(s) |-> s[CHOOSE i \in 1..Len(s) : Cardinality(UpTo(s, i)) = k]]

RunsOf(p, count) == {RunName(p, r) : r \in 0..(count - 1)}

With(name, records) == [n \in DOMAIN files \cup {name} |-> IF n = name THEN records ELSE files[n]]
Without(names) == Restrict(files, DOMAIN files \ names)

Init ==
    /\ pc = "start"
    /\ status = "none"
    /\ taken = << >> /\ chunk = << >> /\ eof = FALSE
    /\ \E names \in OthersSets : files = [n \in names |-> <<0>>]
    /\ others = files
    /\ pass = 0 /\ runCount = 0 /\ group = 0
    /\ scratchUsed = 0 /\ nextBytes = 0
    /\ heap = {} /\ quota = 0

\* A return: the locals are gone.
Return(s, remaining) ==
    /\ pc' = "returned"
    /\ status' = s
    /\ files' = remaining
    /\ chunk' = << >> /\ eof' = FALSE
    /\ pass' = 0 /\ runCount' = 0 /\ group' = 0
    /\ scratchUsed' = 0 /\ nextBytes' = 0
    /\ heap' = {} /\ quota' = 0
    /\ UNCHANGED <<taken, others>>

-----------------------------------------------------------------------------
(* The runs of pass 0 *)

Start ==
    /\ pc = "start"
    /\ ~Exists(Output)
    /\ pc' = "reading"
    /\ UNCHANGED <<status, taken, chunk, eof, files, others, pass, runCount, group,
                   scratchUsed, nextBytes, heap, quota>>

\* The output exists, or there is no memory for a chunk.
StartRefused ==
    /\ pc = "start"
    /\ Return("error", files)

Read(v) ==
    /\ pc = "reading"
    /\ ~eof /\ Len(chunk) < Capacity
    /\ Len(taken) < MaxValues
    /\ chunk' = Append(chunk, v)
    /\ taken' = Append(taken, v)
    /\ UNCHANGED <<pc, status, eof, files, others, pass, runCount, group, scratchUsed,
                   nextBytes, heap, quota>>

ReadEnd ==
    /\ pc = "reading"
    /\ ~eof /\ Len(chunk) < Capacity
    /\ eof' = TRUE
    /\ pc' = IF chunk = << >> THEN "merging" ELSE pc
    /\ UNCHANGED <<status, taken, chunk, files, others, pass, runCount, group,
                   scratchUsed, nextBytes, heap, quota>>

\* failed_initial; every run before this one is removed.
FailInitial == Return("error", Without(RunsOf(0, runCount)))

\* The source fails or gives a value that is not finite.
SourceFails ==
    /\ pc = "reading"
    /\ ~eof /\ Len(chunk) < Capacity
    /\ FailInitial

ChunkReady == pc = "reading" /\ chunk # << >> /\ (eof \/ Len(chunk) = Capacity)

\* (mutant) The quota of a file forgets the scratch that is already used.
QuotaLeft_PerFile == PerFile

QuotaLeft == Least(PerFile, Total - scratchUsed)

CanWriteRun ==
    /\ QuotaLeft >= RecordBytes
    /\ ~Exists(RunName(0, runCount))
    /\ Bytes(chunk) <= QuotaLeft

WriteRun ==
    /\ ChunkReady
    /\ CanWriteRun
    /\ files' = With(RunName(0, runCount), Sorted(chunk))
    /\ scratchUsed' = scratchUsed + Bytes(chunk)
    /\ runCount' = runCount + 1
    /\ chunk' = << >>
    /\ pc' = IF eof THEN "merging" ELSE pc
    /\ UNCHANGED <<status, taken, eof, others, pass, group, nextBytes, heap, quota>>

\* The quota, a file of that name, or a write that fails; what was written is removed.
WriteRunFails ==
    /\ ChunkReady
    /\ FailInitial

\* milena_spill_store_open runs out of memory behind fopen: the empty run stays.
OpenRunFails ==
    /\ ChunkReady
    /\ CanWriteRun
    /\ LET kept == Without(RunsOf(0, runCount))
           name == RunName(0, runCount)
       IN  Return("memory", [n \in DOMAIN kept \cup {name} |->
                                IF n = name THEN << >> ELSE kept[n]])

\* No value at all: an empty output, through a file of its own.
WriteEmpty ==
    /\ pc = "merging" /\ runCount = 0
    /\ ~Exists(Partial(Output))
    /\ Return("ok", With(Output, << >>))

WriteEmptyFails ==
    /\ pc = "merging" /\ runCount = 0
    /\ Return("error", files)

-----------------------------------------------------------------------------
(* Merging *)

LastMerge == runCount <= FanIn
NextCount == (runCount \div FanIn) + (IF runCount % FanIn # 0 THEN 1 ELSE 0)
PassDone == ~LastMerge /\ group = NextCount

\* The runs of this merge: all of them for the output, else one group.
Inputs == IF LastMerge THEN 0..(runCount - 1)
          ELSE group * FanIn .. Least((group + 1) * FanIn, runCount) - 1
Target == IF LastMerge THEN Output ELSE RunName(pass + 1, group)
Content(r) == files[RunName(pass, r)]

\* (mutant) The runs this pass has written so far are left behind.
PassLeftovers_Inputs == RunsOf(pass, runCount)

\* failed_next and failed_pass: next_created is the number of merges done.
PassLeftovers == RunsOf(pass, runCount) \cup RunsOf(pass + 1, group)

\* A merge pass checks its quota; the last merge has it checked by the readers.
StartMerge ==
    /\ pc = "merging" /\ runCount > 0 /\ ~PassDone
    /\ QuotaLeft >= RecordBytes
    /\ \A r \in Inputs : Bytes(Content(r)) <= QuotaLeft
    /\ ~Exists(Target) /\ ~Exists(Partial(Target))
    /\ files' = With(Partial(Target), << >>)
    /\ heap' = {[value |-> Content(r)[1], run |-> r, pos |-> 1] : r \in Inputs}
    /\ quota' = QuotaLeft
    /\ pc' = "copying"
    /\ UNCHANGED <<status, taken, chunk, eof, others, pass, runCount, group,
                   scratchUsed, nextBytes>>

\* (mutant) The heap is ordered by run.
NodeBefore_ByRun(a, b) == a.run < b.run

NodeBefore(a, b) == a.value < b.value \/ (a.value = b.value /\ a.run < b.run)

\* Pop the first node, append its value, push the next record of its run.
MergeRecord ==
    /\ pc = "copying"
    /\ \E node \in heap :
        /\ \A other \in heap \ {node} : NodeBefore(node, other)
        /\ Bytes(files[Partial(Target)]) + RecordBytes <= quota
        /\ files' = With(Partial(Target), Append(files[Partial(Target)], node.value))
        /\ heap' = (heap \ {node}) \cup
                   IF node.pos = Len(Content(node.run)) THEN {}
                   ELSE {[value |-> Content(node.run)[node.pos + 1],
                          run |-> node.run, pos |-> node.pos + 1]}
    /\ UNCHANGED <<pc, status, taken, chunk, eof, others, pass, runCount, group,
                   scratchUsed, nextBytes, quota>>

Renamed ==
    [n \in (DOMAIN files \ {Partial(Target)}) \cup {Target} |->
        IF n = Target THEN files[Partial(Target)] ELSE files[n]]

EndMerge ==
    /\ pc = "copying" /\ heap = {} /\ ~LastMerge
    /\ files' = Renamed
    /\ scratchUsed' = scratchUsed + Bytes(files[Partial(Target)])
    /\ nextBytes' = nextBytes + Bytes(files[Partial(Target)])
    /\ group' = group + 1
    /\ pc' = "merging"
    /\ UNCHANGED <<status, taken, chunk, eof, others, pass, runCount, heap, quota>>

EndPass ==
    /\ pc = "merging" /\ PassDone
    /\ files' = Without(RunsOf(pass, runCount))
    /\ scratchUsed' = nextBytes
    /\ runCount' = NextCount
    /\ pass' = pass + 1
    /\ group' = 0 /\ nextBytes' = 0
    /\ UNCHANGED <<pc, status, taken, chunk, eof, others, heap, quota>>

\* The output is renamed, then the runs are removed.
EndLastMerge ==
    /\ pc = "copying" /\ heap = {} /\ LastMerge
    /\ files' = Renamed
    /\ pc' = "published"
    /\ UNCHANGED <<status, taken, chunk, eof, others, pass, runCount, group,
                   scratchUsed, nextBytes, heap, quota>>

RemoveRuns ==
    /\ pc = "published"
    /\ Return("ok", Without(RunsOf(pass, runCount)))

\* A merge that cannot start: a quota, a name that is taken, no memory, a reader
\* that fails; or one that is done and cannot be measured.
MergeRefused ==
    /\ pc = "merging" /\ runCount > 0
    /\ Return("error", Without(PassLeftovers))

\* A read, an append, the close or the rename fails, the quota's end included.
MergeFails ==
    /\ pc = "copying"
    /\ Return("error", Without(PassLeftovers \cup {Partial(Target)}))

\* The process dies; files stay as they are.
Die ==
    /\ pc \notin {"returned", "dead"}
    /\ pc' = "dead"
    /\ UNCHANGED <<status, taken, chunk, eof, files, others, pass, runCount, group,
                   scratchUsed, nextBytes, heap, quota>>

Over == pc \in {"returned", "dead"} /\ UNCHANGED vars

Next ==
    \/ Start \/ StartRefused
    \/ \E v \in Values : Read(v)
    \/ ReadEnd \/ SourceFails
    \/ WriteRun \/ WriteRunFails \/ OpenRunFails
    \/ WriteEmpty \/ WriteEmptyFails
    \/ StartMerge \/ MergeRecord \/ EndMerge \/ EndPass
    \/ EndLastMerge \/ RemoveRuns
    \/ MergeRefused \/ MergeFails
    \/ Die \/ Over

Spec == Init /\ [][Next]_vars

-----------------------------------------------------------------------------
(* Properties *)

Own == DOMAIN files \ DOMAIN others

\* The records in the files of some names, each as its file and its place there.
Stored(names) == UNION {{<<n, i>> : i \in 1..Len(files[n])} : n \in names}

\* The scratch never outgrows its quotas: at any moment the files of this call,
\* the one being written included, fit the total quota together and the quota of
\* a file each.  It depends on the account that adds outputs while the runs they
\* replace are still on disk.
ScratchBounded ==
    /\ RecordBytes * Cardinality(Stored(Own)) <= Total
    /\ \A n \in Own : Bytes(files[n]) <= PerFile

\* Whatever failed and when, the call leaves only its output, and that only when
\* it succeeds: runs of both passes and the file being written are gone, files of
\* others are untouched.  One exception: the empty run of an open that ran out of
\* memory.
OnlyOutputLeft ==
    pc = "returned" =>
        /\ \A n \in DOMAIN others : Exists(n) /\ files[n] = others[n]
        /\ Own \subseteq CASE status = "ok"     -> {Output}
                           [] status = "memory" -> {n \in Own : files[n] = << >> /\ n.pass = 0}
                           [] OTHER             -> {}

\* The call implements SortedOutput: a process may die and a merge may fail at any
\* record, and still the output path names nothing or every value in order.
Promise == INSTANCE SortedOutput WITH
    out <- IF Exists(Output) /\ Output \in Own THEN files[Output] ELSE NoOutput,
    open <- pc \notin {"published", "returned", "dead"}

ImplementsSort == Promise!Spec

=============================================================================
