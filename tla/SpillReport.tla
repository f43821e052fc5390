----------------------------- MODULE SpillReport -----------------------------
(***************************************************************************)
(* milena_stream_csv_grouped_spill_with_keys_and_options of                *)
(* src/src/stream.c: a CSV is read into the grouped reducer, and the       *)
(* groups are written to a staging file that replaces the output once      *)
(* everything else has succeeded.  The jobs are processes that were given  *)
(* the same scratch and output paths, at the same time or one after the    *)
(* other's death.                                                          *)
(*                                                                         *)
(* Rows are known by their group: each adds one observation to every       *)
(* metric.  The reducer is used through what GroupedAggregate.tla shows of *)
(* it: it counts, a failed flush makes it terminal, and finalization gives *)
(* every <<group, metric>> once, in order.  Sizes in bytes are kept where  *)
(* the limit on the output is.                                             *)
(***************************************************************************)
EXTENDS Integers, Sequences, FiniteSets

CONSTANTS
    Jobs,           \* processes
    NoJob,
    Groups,         \* group keys, in byte order
    Metrics,        \* how many metrics a row has
    CsvRows,        \* bound: rows of the CSV
    Limits,         \* what callers ask: [rows, groups, bytes], 0 rows for no limit
    HeaderBytes, GroupBytes, EntryBytes, SuffixBytes,   \* sizes of what is written
    Attempts,       \* staging names tried for one stamp
    MaxCrashes      \* bound: process deaths

ASSUME ReportAssumption ==
    /\ NoJob \notin Jobs
    /\ IsFiniteSet(Groups) /\ Groups \subseteq Nat \ {0}
    /\ Metrics \in Nat \ {0}
    /\ Limits \subseteq [rows : Nat, groups : Nat \ {0}, bytes : Nat]
    /\ CsvRows \in Nat /\ MaxCrashes \in Nat
    /\ {HeaderBytes, GroupBytes, EntryBytes, SuffixBytes} \subseteq Nat \ {0}
    /\ Attempts \in Nat \ {0}

VARIABLES
    limits,     \* job -> its max_rows, output_group_limit and output_byte_limit
    pc,         \* job -> where it stands
    job,        \* job -> its local variables
    reducer,    \* job -> [counts: <<group, metric>> -> observations, failed]
    scratch,    \* the job that created the file at the scratch path, or NoJob
    staged,     \* staging files: name -> report
    output,     \* the report at the output path
    seen,       \* history: job that may still succeed -> group, or Filtered -> rows read
    crashes     \* history: process deaths

vars == <<limits, pc, job, reducer, scratch, staged, output, seen, crashes>>

Entries == Groups \X (1..Metrics)

Filtered == 0

\* A report file: who writes it, the entries in it, its size, and the fields
\* filled in at the end.
NoReport == [by |-> NoJob, entries |-> << >>, bytes |-> 0, groups |-> 0, rows |-> 0,
             closed |-> FALSE]

\* rows_read, the row being added and the metric it is at, feof, scratch_owned,
\* the staging name, and the emitter's current_key, next_metric and groups.
NewJob == [rows |-> 0, row |-> 0, metric |-> 1, eof |-> FALSE, owned |-> FALSE,
           staging |-> 0, key |-> 0, next |-> 1, groups |-> 0, status |-> "none"]

NewReducer == [counts |-> [e \in Entries |-> 0], failed |-> FALSE]

NothingSeen == [g \in Groups \cup {Filtered} |-> 0]

Init ==
    /\ limits \in [Jobs -> Limits]
    /\ pc = [j \in Jobs |-> "start"]
    /\ job = [j \in Jobs |-> NewJob]
    /\ reducer = [j \in Jobs |-> NewReducer]
    /\ scratch = NoJob
    /\ staged = [n \in 1..Attempts |-> NoReport]
    /\ output = NoReport
    /\ seen = [j \in Jobs |-> NothingSeen]
    /\ crashes = 0

GoTo(j, where) == pc' = [pc EXCEPT ![j] = where]

\* goto spill_finish with an error: the source and the reducer are closed, and of
\* the locals only those the clean-up needs are looked at again.
Fail(j) ==
    /\ GoTo(j, "failing")
    /\ job' = [job EXCEPT ![j] = [NewJob EXCEPT !.owned = job[j].owned,
                                               !.staging = job[j].staging,
                                               !.status = "error"]]
    /\ reducer' = [reducer EXCEPT ![j] = NewReducer]
    /\ seen' = [seen EXCEPT ![j] = NothingSeen]

FilesUnchanged == UNCHANGED <<limits, scratch, staged, output, crashes>>

-----------------------------------------------------------------------------
(* Opening *)

\* (mutant) The scratch is opened whoever left it there.
ScratchFree_Any == TRUE

ScratchFree == scratch = NoJob

\* The CSV and its header are in order, and the reducer creates its spill.
OpenReducer(j) ==
    /\ pc[j] = "start"
    /\ ScratchFree
    /\ scratch' = j
    /\ job' = [job EXCEPT ![j].owned = TRUE]
    /\ GoTo(j, "reading")
    /\ UNCHANGED <<limits, reducer, staged, output, seen, crashes>>

\* (mutant) The clean-up owns a scratch it was refused.
OwnedWhenRefused_Set == TRUE

OwnedWhenRefused == FALSE

\* The source, its header, or the scratch somebody else has created is refused.
OpenRefused(j) ==
    /\ pc[j] = "start"
    /\ GoTo(j, "failing")
    /\ job' = [job EXCEPT ![j].status = "error", ![j].owned = OwnedWhenRefused]
    /\ UNCHANGED <<reducer, seen>>
    /\ FilesUnchanged

-----------------------------------------------------------------------------
(* Reading the rows *)

OverRowLimit(j) == limits[j].rows # 0 /\ job[j].rows >= limits[j].rows

\* A record of group g; last says that no line break follows it, which leaves the
\* source at its end while the row is being added.
ReadRow(j, g, last) ==
    /\ pc[j] = "reading"
    /\ ~job[j].eof
    /\ job[j].rows < CsvRows
    /\ ~OverRowLimit(j)
    /\ job' = [job EXCEPT ![j].rows = @ + 1, ![j].row = g, ![j].metric = 1,
                          ![j].eof = last]
    /\ seen' = [seen EXCEPT ![j][g] = @ + 1]
    /\ GoTo(j, "adding")
    /\ UNCHANGED reducer
    /\ FilesUnchanged

\* A record the filter leaves out: it counts as read, under no group.
ReadFiltered(j, last) ==
    /\ pc[j] = "reading"
    /\ ~job[j].eof
    /\ job[j].rows < CsvRows
    /\ ~OverRowLimit(j)
    /\ job' = [job EXCEPT ![j].rows = @ + 1, ![j].eof = last]
    /\ seen' = [seen EXCEPT ![j][Filtered] = @ + 1]
    /\ UNCHANGED <<pc, reducer>>
    /\ FilesUnchanged

ReadOverLimit(j) ==
    /\ pc[j] = "reading"
    /\ ~job[j].eof
    /\ OverRowLimit(j)
    /\ Fail(j)
    /\ FilesUnchanged

\* (mutant) The metrics of a row are counted from zero.
LastMetric_OffByOne(j) == job[j].metric = Metrics + 1

LastMetric(j) == job[j].metric = Metrics

\* One metric of the row: add, add_null or add_invalid.
AddMetric(j) ==
    /\ pc[j] = "adding"
    /\ ~reducer[j].failed
    /\ reducer' = [reducer EXCEPT ![j].counts[<<job[j].row, job[j].metric>>] = @ + 1]
    /\ job' = [job EXCEPT ![j].row = IF LastMetric(j) THEN 0 ELSE @,
                          ![j].metric = IF LastMetric(j) THEN 1 ELSE @ + 1]
    /\ GoTo(j, IF LastMetric(j) THEN "reading" ELSE "adding")
    /\ UNCHANGED seen
    /\ FilesUnchanged

\* (mutant) A failed flush leaves the reducer usable.
FailedAfterFlush_Reset == FALSE

FailedAfterFlush == TRUE

\* The flush of a full map fails with an I/O error.  If the source stands at its
\* end, the loop takes the error for the end of the rows.
AddFlushFails(j) ==
    /\ pc[j] = "adding"
    /\ IF job[j].eof
       THEN /\ reducer' = [reducer EXCEPT ![j].failed = FailedAfterFlush]
            /\ job' = [job EXCEPT ![j].row = 0, ![j].metric = 1]
            /\ GoTo(j, "staging")
            /\ UNCHANGED seen
       ELSE Fail(j)
    /\ FilesUnchanged

\* The end of the rows; closing the source and the time budget come next.
ReadEnd(j) ==
    /\ pc[j] = "reading"
    /\ GoTo(j, "staging")
    /\ UNCHANGED <<job, reducer, seen>>
    /\ FilesUnchanged

-----------------------------------------------------------------------------
(* Writing the report *)

FreeNames == {n \in 1..Attempts : staged[n] = NoReport}
FirstFree == CHOOSE n \in FreeNames : \A m \in FreeNames : n <= m

\* stream_open_staging takes the first name that is free; the header is written
\* and then compared with the limit.
OpenStaging(j) ==
    /\ pc[j] = "staging"
    /\ FreeNames # {}
    /\ staged' = [staged EXCEPT ![FirstFree] =
                    [NoReport EXCEPT !.by = j, !.bytes = HeaderBytes, !.rows = job[j].rows]]
    /\ job' = [job EXCEPT ![j].staging = FirstFree]
    /\ GoTo(j, "staged")
    /\ UNCHANGED <<limits, reducer, scratch, output, seen, crashes>>

\* milena_grouped_aggregate_finalize turns a failed reducer away.
Finalize(j) ==
    /\ pc[j] = "staged"
    /\ HeaderBytes <= limits[j].bytes
    /\ ~reducer[j].failed
    /\ GoTo(j, "emitting")
    /\ UNCHANGED <<job, reducer, seen>>
    /\ FilesUnchanged

FinalizeRefused(j) ==
    /\ pc[j] = "staged"
    /\ HeaderBytes > limits[j].bytes \/ reducer[j].failed
    /\ Fail(j)
    /\ FilesUnchanged

File(j) == staged[job[j].staging]

\* Finalization visits what was observed in key order: the entries that are not in
\* the report yet, and the first of them.
Before(d, e) == d[1] < e[1] \/ (d[1] = e[1] /\ d[2] < e[2])
Keys(entries) == {entries[i].key : i \in 1..Len(entries)}
Waiting(j) == {e \in Entries : reducer[j].counts[e] > 0} \ Keys(File(j).entries)
NextEntry(j) == CHOOSE e \in Waiting(j) : \A d \in Waiting(j) \ {e} : Before(e, d)

SameGroup(j, e) == job[j].key = e[1]

\* Every group has all its metrics, in order, and there are not too many groups.
InOrder(j, e) ==
    IF SameGroup(j, e)
    THEN e[2] = job[j].next
    ELSE /\ job[j].key # 0 => job[j].next = Metrics + 1
         /\ e[2] = 1
         /\ job[j].groups < limits[j].groups

\* (mutant) The brackets that close the previous group are not counted.
AppendBytes_NoClose(j, e) ==
    IF SameGroup(j, e) THEN EntryBytes + 1
    ELSE EntryBytes + GroupBytes + (IF job[j].groups > 0 THEN 1 ELSE 0)

\* The entry, with the comma before it or with the end of the group before it, the
\* comma between groups and the head of its group.
AppendBytes(j, e) ==
    IF SameGroup(j, e) THEN EntryBytes + 1
    ELSE EntryBytes + GroupBytes + (IF job[j].groups > 0 THEN 2 + 1 ELSE 0)

\* stream_spill_emit_group.
EmitEntry(j) ==
    /\ pc[j] = "emitting"
    /\ Waiting(j) # {}
    /\ LET e == NextEntry(j) IN
        /\ InOrder(j, e)
        /\ File(j).bytes + AppendBytes(j, e) <= limits[j].bytes
        /\ staged' = [staged EXCEPT
                        ![job[j].staging].entries =
                            Append(@, [key |-> e, count |-> reducer[j].counts[e]]),
                        ![job[j].staging].bytes = @ + AppendBytes(j, e)]
        /\ job' = [job EXCEPT
                        ![j].key = e[1],
                        ![j].next = e[2] + 1,
                        ![j].groups = IF SameGroup(j, e) THEN @ ELSE @ + 1]
    /\ UNCHANGED <<limits, pc, reducer, scratch, output, seen, crashes>>

EmitRefused(j) ==
    /\ pc[j] = "emitting"
    /\ Waiting(j) # {}
    /\ \/ ~InOrder(j, NextEntry(j))
       \/ File(j).bytes + AppendBytes(j, NextEntry(j)) > limits[j].bytes
    /\ Fail(j)
    /\ FilesUnchanged

CloseBytes(j) == IF job[j].key = 0 THEN 0 ELSE 2

\* stream_spill_emitter_finish closes the last group; the group count is filled in,
\* the telemetry appended, the file flushed and closed.
Fits(j) ==
    /\ job[j].key # 0 => job[j].next = Metrics + 1
    /\ File(j).bytes + CloseBytes(j) + SuffixBytes <= limits[j].bytes

FinishReport(j) ==
    /\ pc[j] = "emitting"
    /\ Waiting(j) = {}
    /\ Fits(j)
    /\ staged' = [staged EXCEPT
                    ![job[j].staging].bytes = @ + CloseBytes(j) + SuffixBytes,
                    ![job[j].staging].groups = job[j].groups,
                    ![job[j].staging].closed = TRUE]
    /\ GoTo(j, "closing")
    /\ UNCHANGED <<limits, job, reducer, scratch, output, seen, crashes>>

FinishRefused(j) ==
    /\ pc[j] = "emitting"
    /\ Waiting(j) = {}
    /\ ~Fits(j)
    /\ Fail(j)
    /\ FilesUnchanged

-----------------------------------------------------------------------------
(* Publishing *)

\* The reducer is closed and its spill removed before the report is published.
RemoveScratch(j) ==
    /\ pc[j] = "closing"
    /\ scratch' = NoJob
    /\ job' = [job EXCEPT ![j].owned = FALSE]
    /\ reducer' = [reducer EXCEPT ![j] = NewReducer]
    /\ GoTo(j, "publishing")
    /\ UNCHANGED <<limits, staged, output, seen, crashes>>

\* rename(staging_path, output_path).
Publish(j) ==
    /\ pc[j] = "publishing"
    /\ output' = File(j)
    /\ staged' = [staged EXCEPT ![job[j].staging] = NoReport]
    /\ job' = [job EXCEPT ![j] = [NewJob EXCEPT !.status = "ok"]]
    /\ GoTo(j, "returned")
    /\ UNCHANGED <<limits, reducer, scratch, seen, crashes>>

\* (mutant) The result of rename is not looked at.
PublishFails_Ignored(j) ==
    /\ pc[j] = "publishing"
    /\ job' = [job EXCEPT ![j].status = "ok"]
    /\ GoTo(j, "failing")
    /\ UNCHANGED <<reducer, seen>>
    /\ FilesUnchanged

PublishFails(j) ==
    /\ pc[j] = "publishing"
    /\ Fail(j)
    /\ FilesUnchanged

\* Any other error on the way: reading, memory, the reducer, a write, a close, the
\* time budget, the removal of the scratch.
Fault(j) ==
    /\ pc[j] \in {"reading", "adding", "staging", "staged", "emitting", "closing"}
    /\ Fail(j)
    /\ FilesUnchanged

-----------------------------------------------------------------------------
(* spill_finish, and the death of a process *)

\* The files go by name, whoever owns them by now.
RemoveOwnedScratch(j) ==
    /\ pc[j] = "failing"
    /\ scratch' = IF job[j].owned THEN NoJob ELSE scratch
    /\ GoTo(j, "unstaging")
    /\ UNCHANGED <<limits, job, reducer, staged, output, seen, crashes>>

\* (mutant) Only a report that was closed is removed.
StagingToRemove_Closed(j) == job[j].staging # 0 /\ File(j).closed

StagingToRemove(j) == job[j].staging # 0

RemoveStaging(j) ==
    /\ pc[j] = "unstaging"
    /\ staged' = IF StagingToRemove(j)
                 THEN [staged EXCEPT ![job[j].staging] = NoReport] ELSE staged
    /\ GoTo(j, "returned")
    /\ UNCHANGED <<limits, job, reducer, scratch, output, seen, crashes>>

Crash(j) ==
    /\ pc[j] \notin {"start", "returned", "dead"}
    /\ crashes < MaxCrashes
    /\ crashes' = crashes + 1
    /\ GoTo(j, "dead")
    /\ job' = [job EXCEPT ![j] = NewJob]
    /\ reducer' = [reducer EXCEPT ![j] = NewReducer]
    /\ seen' = [seen EXCEPT ![j] = NothingSeen]
    /\ UNCHANGED <<limits, scratch, staged, output>>

-----------------------------------------------------------------------------
Read(j) ==
    \/ OpenReducer(j)
    \/ OpenRefused(j)
    \/ \E g \in Groups, last \in BOOLEAN : ReadRow(j, g, last)
    \/ \E last \in BOOLEAN : ReadFiltered(j, last)
    \/ ReadOverLimit(j)
    \/ AddMetric(j)
    \/ AddFlushFails(j)
    \/ ReadEnd(j)

Write(j) ==
    \/ OpenStaging(j)
    \/ Finalize(j)
    \/ FinalizeRefused(j)
    \/ EmitEntry(j)
    \/ EmitRefused(j)
    \/ FinishReport(j)
    \/ FinishRefused(j)
    \/ RemoveScratch(j)
    \/ Publish(j)
    \/ PublishFails(j)

End(j) == Fault(j) \/ RemoveOwnedScratch(j) \/ RemoveStaging(j) \/ Crash(j)

\* Every job has returned or died.
Idle == (\A j \in Jobs : pc[j] \in {"returned", "dead"}) /\ UNCHANGED vars

Next == (\E j \in Jobs : Read(j) \/ Write(j) \/ End(j)) \/ Idle

Spec == Init /\ [][Next]_vars

-----------------------------------------------------------------------------
(* Properties *)

Reports ==
    [by : Jobs \cup {NoJob}, entries : Seq([key : Entries, count : Nat]), bytes : Nat,
     groups : Nat, rows : Nat, closed : BOOLEAN]

\* Types of the state.
TypeOK ==
    /\ limits \in [Jobs -> Limits]
    /\ pc \in [Jobs -> {"start", "reading", "adding", "staging", "staged", "emitting",
                        "closing", "publishing", "failing", "unstaging", "returned", "dead"}]
    /\ job \in [Jobs -> [rows : 0..CsvRows, row : Groups \cup {0}, metric : 1..Metrics,
                         eof : BOOLEAN, owned : BOOLEAN, staging : 0..Attempts,
                         key : Groups \cup {0}, next : 1..(Metrics + 1),
                         groups : 0..Cardinality(Groups), status : {"none", "ok", "error"}]]
    /\ reducer \in [Jobs -> [counts : [Entries -> Nat], failed : BOOLEAN]]
    /\ scratch \in Jobs \cup {NoJob}
    /\ staged \in [1..Attempts -> Reports]
    /\ output \in Reports
    /\ seen \in [Jobs -> [Groups \cup {Filtered} -> Nat]]
    /\ crashes \in 0..MaxCrashes

\* The rows a history counts, one by one: each by its group and its number there.
RowsOf(history) == UNION {{g} \X (1..history[g]) : g \in Groups \cup {Filtered}}

\* What a reader of the output path finds is the report that was there before or a
\* whole one: every group the job read rows of, each with all its metrics and each
\* metric with one observation per row, in key order, and the number of groups and
\* of rows read, those the filter left out included; whatever failed, died or raced on the way.
OutputWhole ==
    output # NoReport =>
        LET j == output.by
            es == output.entries
        IN /\ output.closed
           /\ Keys(es) = {e \in Entries : seen[j][e[1]] > 0}
           /\ \A i \in 1..Len(es) : es[i].count = seen[j][es[i].key[1]]
           /\ \A i \in 1..(Len(es) - 1) : Before(es[i].key, es[i + 1].key)
           /\ output.groups = Cardinality({g \in Groups : seen[j][g] > 0})
           /\ output.rows = Cardinality(RowsOf(seen[j]))

\* The size the report would have if it were rendered from what is in it.
Rendered(r) ==
    HeaderBytes + SuffixBytes
    + r.groups * (GroupBytes + 2) + Len(r.entries) * EntryBytes
    + (Len(r.entries) - r.groups)                   \* commas between the metrics
    + (IF r.groups > 0 THEN r.groups - 1 ELSE 0)    \* commas between the groups

\* No published report is over a limit, and the bytes the limit was checked with are
\* the bytes the report has.
LimitsHold ==
    output # NoReport =>
        /\ output.bytes = Rendered(output)
        /\ Rendered(output) <= limits[output.by].bytes
        /\ output.groups <= limits[output.by].groups
        /\ limits[output.by].rows # 0 => output.rows <= limits[output.by].rows

\* A call that returned, with whatever status, left no scratch and no staging file.
NothingLeft ==
    \A j \in Jobs : pc[j] = "returned" =>
        /\ scratch # j
        /\ \A n \in 1..Attempts : staged[n].by # j

\* Two jobs never write, read or sort the same scratch file: the one whose reducer is
\* open is the one that created the file.
ScratchExclusive ==
    \A j \in Jobs : job[j].owned /\ pc[j] \notin {"unstaging", "returned", "dead"} => scratch = j

\* A job never removes or changes the scratch or a staging file of another job, the
\* files a dead process left included.
OthersFilesStay ==
    [][\A j \in Jobs : pc'[j] = pc[j] /\ job'[j] = job[j] =>
        /\ scratch = j => scratch' = j
        /\ \A n \in 1..Attempts : staged[n].by = j => staged'[n] = staged[n]]_vars

\* The output is replaced exactly when the call returns OK: an error means the old
\* report is still there, and OK that the new one is.
OkIffPublished ==
    [][\A j \in Jobs :
        (pc[j] # "returned" /\ pc'[j] = "returned") =>
            IF job'[j].status = "ok"
            THEN output'.by = j /\ output' = File(j)
            ELSE output' = output]_vars

=============================================================================
