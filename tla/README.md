# Milena: models, checks and proofs

Milena is a data-analysis language (C17). A source is parsed and checked and then
takes one of several ways: scalar functions are compiled to bytecode or to a typed
module for a virtual machine; data programs are bound to tables and executed, or
compiled to a plan that writes a report; and large files go through an out-of-core
path of spilled records, sorted runs, partitions, threads and processes.

This directory models those ways: what each component does, one action per
operation; what it promises, apart from how it keeps it; small instances that TLC
checks; and proofs for the parts where every value of the constants is worth having.

## The system

| component | state | operations | hard behaviour |
|---|---|---|---|
| spill store (`spill_store.c`) | a file of framed records; writer and reader handles with counters and quotas | recover, open, create_exclusive, append, visit, reader open/next/close, close | torn writes, crashes, recovery by copy and rename, limits that change between opens |
| mergeable aggregate (`mergeable_aggregate.c`) | counters, kind, exact and floating sums | add, add_int64, add_null, add_invalid, merge, encode, decode, finalize | counters and INT64 sums at their limits, mixing kinds |
| grouped reducer (`grouped_aggregate.c`) | resident map, source spill, sorted runs | open, add*, finalize, close | a flush that fails half way, external sort, clean-up of half a merge pass |
| grouped report (`stream.c`) | CSV source, reducer, emitter, staging file, output | one call per report | two processes with one scratch path, errors and deaths at any point, size limits, atomic publication |
| partition plan and executor (`partition_plan.c`, `partition_executor.c`) | partitions; coordinator behind a mutex, worker threads, report | build, validate; execute_local | all interleavings, cancellation, budgets, fail_fast, failing thread creation |
| process executor, partition protocol and reduction (`process_executor.c`, `partition_protocol*.c`, `partition_reduce.c`) | child process and pipe per partition; messages; partial results | execute_processes, encode, decode, reduce | death of a child, lost, duplicated, reordered results |
| external sort (`external_sort.c`, `external_merge.c`) | runs of doubles | sort, k-way merge | scratch quotas, failing passes, output path |
| tables (`table.c`) | typed columns, validity, dictionaries, metadata | build, filter, sort, group, join, unpivot, deduplicate, computed columns | keys that are null, NaN, of both zeros, of two dictionaries; limits of a join |
| data sets (`dataset.c`) | headers and rows of texts | load a CSV, with limits or without; columns and rows in place | quotes, cut records and limits inside a record |
| arrays (`array.c`) | descriptors, shared storages with reference counts, buffers of others | create, share, view, copy, convert, compute, reduce, release | aliasing, negative and zero strides, offsets at the ends, release in any order |
| canonical compiler (`canonical_compiler.c`) | a program: tree, scalar or data program, borrowed tables | parse, bind, execute, hand over, release | tables that change between binding and execution; columns that do not exist yet |
| canonical IR (`canonical_ir.c`), typed bytecode (`typed_bytecode.c`), virtual machine (`vm.c`) | control-flow graphs in SSA form; their portable form; frames of values | build, validate, encode, decode, run | merges of conditionals, parallel assignment of block parameters, damaged files |
| bytecode (`bytecode.c`, `bytecode_compiler.c`) | encoded programs; registers and frames | compile, verify, run | a machine that checks nothing at run time; loops bounded by a budget only |
| data plans (`bytecode_data*.c`) | a block, its report, a temporary file | compile, encode, verify, run | paths that are one file under two names, a load cut by a limit, death before the rename |
| front end, interpreter and language runtime, SQLite, Arrow IPC, native code, numeric kernels, query plan, collector, tools | - | - | not modelled, see the end |

How they interact: the report calls the reducer once per row and metric; the
reducer appends to a spill store, reads it back through the store's recovery and
creates one spill file per sorted run; finalization calls the report's emitter
back, group by group. The executor calls a worker callback outside its mutex and
the cancel callback inside it. Data programs borrow tables and call the operations
of tables by column name; a plan loads a data set, makes a table of it and writes a
report of one column. Tables keep arrays in their columns. What must hold of each
component is stated as properties below; what can go wrong, with its line, is the
hazard list of `PROJECT.json`.

## Modules

| module | models | role |
|---|---|---|
| `SpillLog` | - | what a spill file promises: an append-only log and acknowledgements |
| `SpillStore` | `spill_store.c` | the file, the handles, recovery, crashes; implements `SpillLog` |
| `MergeableAggregate` | `mergeable_aggregate.c` | operators on aggregate states |
| `GroupBy` | - | what a grouped aggregation promises |
| `GroupedAggregate` | `grouped_aggregate.c` | map, flushes, runs, merge passes, emission; implements `GroupBy` |
| `SpillReport` | `stream.c`, grouped spill report | jobs, their files, the report's limits, publication |
| `PartitionPlan` | `partition_plan.c` | operators: validity and construction of plans |
| `PartitionExecutor` | `partition_executor.c` | caller and workers |
| `PartitionResults` | `process_executor.c`, `partition_protocol*.c`, `partition_reduce.c` | a process per partition, messages over an unreliable transport, reduction |
| `SortedOutput` | - | what an external sort promises |
| `ExternalSort` | `external_sort.c`, `external_merge.c` | chunks, runs, passes, quotas, publication; implements `SortedOutput` |
| `ScalarHIR` | `canonical_compiler.c`, scalar part | scalar programs and what they compute |
| `Bytecode`, `BytecodeCompiler` | `bytecode.c`, `bytecode_compiler.c` | verifier and register machine; lowering to it |
| `ScalarIR`, `TypedVM` | `canonical_ir.c`; `typed_bytecode.c` and `vm.c` | validation and lowering; portable form and machine |
| `ScalarPrograms` | the two paths of a scalar source | composes the five above |
| `Numbers` | `array.h`, `table.c`, `array.c` | numbers and their ranges, statuses, shared formulas |
| `TableColumns`, `TableRows`, `TableGroups`, `TableReshape` | `table.c` | the operations on tables |
| `Datasets` | `dataset.c` | CSV reading, limits, operations in place |
| `Arrays`, `ArrayNumbers` | `array.c` | storages, descriptors and views; computing with them |
| `DataPlan`, `DataReport` | `bytecode_data.c` and `bytecode_compiler.c`; `bytecode_data_runtime.c` | blocks, their verifier and their compilation; the run with its files |
| `DataProgram` | `canonical_compiler.c`, data part | trees to operations, binding, limits, execution |
| `DataSession` | `table.h`, `dataset.h`, `array.h`, `canonical_compiler.h` | a program that calls all of these; composes them |
| `SessionPromises` | - | what sessions promise, said without the way it is computed |
| `LeastElements`; `SpillStoreProofs`, `GroupedAggregateProofs`, `SpillReportProofs`, `PartitionExecutorProofs` (the plan too), `PartitionResultsProofs`, `ExternalSortProofs`, `SessionProofs` | - | theorems |
| `MC*` | - | the instances TLC checks |

### SpillStore

`disk` maps inodes to contents (complete records with the offset they end at, then
at most one incomplete frame), `path` is the inode the file name leads to, `store`
and `reader` are the two handles with the fields of `MilenaSpillStore` and
`MilenaSpillReader`, `call` is the call in progress. Calls of several file-system
steps are split at those steps: recovery is scan, copy to a sibling, rename; append
is check, write, count. A crash may fall between any two, and inside a write it
leaves any of `CutPoints` bytes of the frame. A failed append leaves such a piece
too, and `CloseStore` may still complete the frame, as buffered data can reach the
file when a stream is closed. A checksum is abstracted: an incomplete frame never
looks complete, a complete one is never damaged. A call that fails without changing
anything is a stuttering step. `milena_spill_store_visit` is recovery followed by
the loop the reader runs.

Two parts of this model are history: `acked`, what append has returned OK for, and
the reader's `owed`, what had been acknowledged when it was opened.

### MergeableAggregate, GroupBy, GroupedAggregate

A row is a key and an observation. `groups` is the resident map, `spill` the source
spill, `fs` the run files by pass and number, `sort` and `merge` the locals of
`milena_grouped_aggregate_finalize` and `merge_group_runs`, `out` what the visitor
was given. Flushing, writing a run, starting, advancing and ending a merge are
steps. Every step that touches a file or allocates may fail, and each failure
removes exactly the runs the code removes there. Removals during clean-up are taken
to succeed: the code ignores their result. A spill or run is a sequence of records
with a size; that a closed file gives back what was written is what `SpillStore`
shows. Budgets in bytes become `GroupCapacity` and `BatchCapacity`, which
`milena_grouped_aggregate_open_with_max_runs` and finalize compute from them.

`GroupBy` counts plainly, per key, and gives out each key once, in order. The
refinement mapping keeps the history variable `total`, and reads the phase from
`pc`, `status` and `failed`.

Floating-point statistics are not modelled. INT64 sums are, with `MaxInt` in place
of INT64_MAX. With values of both signs the code may refuse a sum that would have
fitted, depending on where a flush fell; `GroupBy` allows giving up at any time, so
this is permitted, and the observations of the run let it happen.

### SpillReport

Processes (`Jobs`) share a scratch path, an output path and the names of staging
files. `job` holds the locals of the call that matter (`rows_read`, `feof`,
`scratch_owned`, the staging name, the emitter's fields), `reducer` what the reducer
counted. The reducer is used through what `GroupedAggregate` shows of it. Sizes are
the lengths of the pieces of the report; that the pieces add up to the file is one of
the properties. Argument errors return before any file is touched and are left out.
Data errors of a row, time budgets and I/O errors are `Fault`.

One path is easy to miss: when the last row of a file without a final line break
triggers a flush that fails with an I/O error, the source stands at its end and
`stream.c:1603` turns the status into OK. `AddFlushFails` models it. Only the
reducer's terminal flag prevents a report without those rows.

### PartitionPlan, PartitionExecutor

The section that hands out a partition is two steps of a worker that holds the mutex:
the test of the index and of `failed` (`Stop`, `Admit`), and what follows the consumer's
cancel callback (`Cancel`, `OverBudget`, `Claim`). Other workers wait while one is
between them (`MutexFree`); the caller need not. Its `failed = true` after a failed
`thrd_create` is written without the mutex (`partition_executor.c:143`), and
`CreateFails` may come between a worker's test and its claim: that worker still hands out
a partition. It is a data race in C; the flag is a single `bool` that is only ever set,
so the outcomes are those of a write at some moment. The section after the worker's callback reads nothing the
caller writes and is one step. A cancel callback may answer differently each time it is
asked. `recorder` and `late` are history: who recorded the first failure, and which
partitions were handed out after it.

### SortedOutput, ExternalSort

`SortedOutput` takes values in, one at a time, and shows the sorted output once, whole,
or never. `ExternalSort` is `milena_external_sort_doubles`: a chunk is read, sorted and
written as a run; a pass merges up to `FanIn` runs into one of the next pass with the
heap of `external_merge.c`, whose ties are broken by run; the last merge writes the
output. A run is written in one step, which succeeds, fails and is removed, or leaves an
empty file; merges go record by record. Every step may fail, and the process may die
between any two. The account of scratch bytes is the code's: outputs of a pass are
added while its inputs are still on disk. Others may have left files at any run name
and at the output's.

A run's file is created by `milena_spill_store_open`, which recovers what it finds, and
not exclusively; the name is looked at first (`external_sort.c:53`). The call that
looks and the call that opens are one after another in one process, so the model makes
them one step; another process that takes the name in between is not modelled.

### PartitionResults

The executor forks a worker for each partition in turn, reads its status from a pipe and
waits for it. A worker finds a result, encodes it for the transport, writes its status
and exits, or dies before any of these. The transport, which the repository leaves to
its user, keeps a set of messages and delivers them any number of times, in any order,
never, or damaged; it may also still hold messages of another plan. Whenever as many
messages as partitions have been collected, `partition_protocol_reduce` is called on
them, which decodes each, refuses a partition it does not know, has seen or that
failed, and leaves the sum to `partition_reduce`. A message names its partition and not
its plan: that stray messages are for partitions none of the plans has is an assumption
about the transport (`StraysAssumption`), and the sum is only as good as it. The caller may execute the plan again, so two results of one
partition may both be right.

### Scalar programs

`ScalarHIR` is the program both compilers start from, and `Meaning` what it computes,
by recursion over the source. `BytecodeCompiler` lowers it to version 1.2 instructions,
register by register as the code gives them out; `Bytecode` is every rule of the
verifier for versions 1.0, 1.1 and 1.2, and the machine, one action per instruction.
`ScalarIR` lowers the same source to blocks in SSA form with parameters at merges, and
is every rule of the validator (definitions, dominance, edges, calls); `TypedVM`
writes a module as a sequence of records, reads it back with each count and slice
checked, and runs what was read. `ScalarPrograms` takes a source through both
ways. Both machines are also given programs that no compiler made, and the typed
machine damaged files: both are entry points of the library.

What is abstracted: a double is an integer up to `MaxFinite`, beyond which it is not
finite, and division truncates (all sides share it; which operands meet is what is
compared); an INT64 has its limits at `MaxInteger`; bytes inside a record, spans and
names are left out, as are the caps on memory and on nesting in the reader of trees. A
`FUNCTION` mark is never executed and a `CALL` needs no second check once a program is
verified, so both are left out of the machine, and `RunsSafely` says why that is right.

### Sessions: tables, arrays, data sets, plans and data programs

These components have no threads. What is hard about them is what calls do to each
other: arrays that share a storage, tables that hold arrays, programs that borrow
tables, files that two paths name. `DataSession` is a program that calls them: a
session starts with some tables, data sets, arrays, programs and files and has a menu
of calls, each of which may be made at any time and again, up to a number of calls.
Every call is an action, and the operators it uses are the functions of the source:

* `TableColumns` builds, checks and fills columns; `TableRows` filters, sorts, drops
  and deduplicates; `TableGroups` groups and joins through the hash index of
  `table.c`, with the join's limits on rows and memory; `TableReshape` selects,
  unpivots and goes to and from data sets.
* `Arrays` has descriptors (storage, offset, shape, strides) over storages with counts,
  buffers of others with their release callback, and every constructor and view;
  `ArrayNumbers` computes, compares, reduces and converts.
* `Datasets` reads a CSV character by character where characters matter (quotes,
  separators, ends of lines, the limits) and works on data sets in place.
* `DataPlan` is the block of a plan, each check of its verifier, and the compiler that
  makes one of a tree; `DataReport` runs one step by step: resolve both paths, refuse
  an output that is the input, read within limits, summarise, write a temporary file,
  rename. Each step may fail, and the process may die between any two.
* `DataProgram` makes operations of a tree, binds them to the columns of borrowed
  tables, adding the columns that earlier operations make, and executes them.

`SessionPromises` says what sessions promise without repeating any of this: a sort is
the permutation with no inversion that keeps ties in place; a group is a class of equal
keys; a join is a set of pairs; a view is a function of coordinates; a report is the
summary of all rows of a whole file.

What is abstracted: doubles are integers with one NaN of each of two payloads,
infinities and a negative zero, division rounds down, the variance is exact, a mean
does not overflow, and arithmetic never makes a negative zero; integers keep their
width, scaled (`Largest`: 3, 7, 15, 31 for 8, 16, 32, 64 bits); `float` differs from
`double` by its range (`MaxSingle`); strides count elements, which leaves alignment
out; a hash is one of `HashValues` classes; the memory of a join is counted in cells.
Every allocation succeeds: results are built aside, so a failure in the middle frees
what it built and changes nothing else. Texts that mean something (dates, numerals)
are looked up in tables; "fecha", "periodo" and "total" are kept as whole names.
What the parser accepts is taken as given: a source is a tree or is refused.

## What the runs check

| run | instance | result |
|---|---|---|
| `spill_store` | payloads of 0 and 2 bytes, limits that two records fill to the last byte and tighter ones, cuts inside the header and behind it, 3 files, 1 crash | 2.3 million states, no error |
| `grouped_aggregate` | 3 keys, one of integer sums that leave INT64 and may come back, one whose rows may mix kinds, 5 rows, a map of one group, batches of two, up to 3 runs (a pair and an odd run, then a pair), foreign files on two run names | 300 thousand states |
| `spill_report` | 2 jobs, 2 groups, 2 metrics, 3 rows, limits on rows, groups and bytes, 2 deaths | 190 thousand states |
| `partition_executor` | up to 4 partitions and 3 workers, inputs of 0, 2, 5 and 7 bytes, with and without a budget one worker exhausts | 870 thousand states |
| `external_sort` | up to 6 values out of two, one value per chunk, two runs per merge, quotas that five values fill to the byte and six exceed, files of others on 6 sets of names | 13 thousand states |
| `partition_results` | up to 3 partitions, 5 kinds of results, a stray message, 2 executions | 680 thousand states |
| `scalar_programs` | twelve thousand programs: sources, bytecode and modules nobody compiled, damaged files; budgets of 40 and 6 steps, 4 calls and 1 | 53 thousand states |
| `data_session` | fourteen sessions of two to four calls, and one for every file of up to 4 characters of quote, comma, blank, letter and newline (3 with returns, 5 after a quote), alone and after a header of two columns, loaded under 7 budgets | 37 thousand states |
| `spill_store_read_fault` | as `spill_store`, and a header read may fail half way | `AckedStays` fails |
| `grouped_corruption` | as `grouped_aggregate`, and the closed spill may lose its tail | `OkMeansComplete` fails |
| `partition_lock` | as `partition_executor`, and `mtx_lock` may fail | `OkMeansAll` fails |
| `scalar_merge` | as `scalar_programs` | `ModuleComputesSource` fails |

What passes, in words:

* **Spill store.** Acknowledged records stay where they are, whatever is torn, dies
  or is recovered (`AckedStays`); a usable handle's counters are the file's
  (`HandleMatchesFile`); a reader at the end has seen all it was owed
  (`EndMeansAll`); no file outgrows its quota (`DiskBounded`); it all implements a
  log (`ImplementsLog`).
* **Grouped reducer.** It implements `GroupBy` (`KeepsPromise`), also when partial sums
  leave INT64 and the total does not; its runs stay within
  twice the quota and the account of their bytes is exact (`RunsWithinTwoQuotas`);
  none is left when finalize returns (`RunsCleanedUp`); files of others stay
  (`ForeignRunsStay`); finalize returns (`FinalizeReturns`).
* **Report.** Readers of the output see the old report or a whole new one
  (`OutputWhole`), within its limits (`LimitsHold`); OK means published and an error
  means untouched (`OkIffPublished`); nothing of a call that returned is left
  (`NothingLeft`); jobs do not share or remove each other's files
  (`ScratchExclusive`, `OthersFilesStay`).
* **Executor.** A partition is handed out once (`AssignedOnce`); OK means every byte
  was processed (`OkMeansAll`); the report counts what ended and the share of the input
  handed out, to each worker within its budget (`ReportAdds`); with fail_fast nothing is
  handed out after a failure that a worker recorded, and one partition at most after the
  caller's unlocked one (`FailFastStops`); the call returns (`ExecuteReturns`).
* **External sort.** It implements `SortedOutput` (`ImplementsSort`); the files of a
  call fit both quotas at every moment, inputs and outputs of a pass together
  (`ScratchBounded`); whatever fails, nothing but the output is left, and files of
  others stay (`OnlyOutputLeft`). The one exception is stated: an open that runs out
  of memory after it created its file leaves an empty run.
* **Partition results.** A reduction that says OK has exactly one good result of each
  partition, whatever the transport did (`OkMeansExact`); an execution that says OK
  had one worker per partition, each ended by itself, and leaves no child behind
  (`ExecutorTrue`); every execution returns, whatever becomes of its workers
  (`ExecutorReturns`).
* **Scalar programs.** A verified program stays inside its code, registers, types and
  call depth, and the typed machine never meets a missing value or one of another type
  (`RunsSafely`); what a compiler emits its verifier accepts, and both
  machines compute what the source means and fail when it fails (`MachinesAgree`, but
  for the sources `scalar_merge` is about); every run ends (`RunsEnd`).
* **Sessions.** Sorts, groups, joins, filters and deduplications are what relational
  algebra says, with nulls, NaNs, both zeros and two dictionaries for one set of
  categories (`RelationalResults`); a call that fails changes nothing and one that
  succeeds changes its destination, or the written element in every array that sees it
  (`OnlyTheDestinationChanges`); every view and every computed array has at each
  coordinate what mathematics says (`ViewsDenoteTheirElements`); descriptors stay within
  their storages, storages count who looks at them and buffers are released once
  (`ArraysSound`); compiled plans verify, and none is given up as a mistake of the
  compiler (`CompilerSound`); tables stay valid, and a bound program that still binds
  finds the columns it was bound to, and its own limits never stop it (`StateSound`); no
  path ever shows a report of a part of
  a file, no source is written, and a run that ends leaves its temporary file only if it
  failed and the system would not remove it (`ReportsWhole`).
* **Loads with a budget.** A limit is met where the file, its rows, its records or the
  fields the parser finds in them meet it, and nowhere else; a load that meets none is
  the load without a budget (`BudgetFollowsFields`). The cap of a record counts its
  quotes: a quoted record of fields within their limit may be refused, and the property
  says so.

The violations are disagreements of code and documentation, each shown by the step
that causes it. The first three are kept apart from the specification the other runs
check (`SpecWithReadFaults`, `Corruption`, `SpecWithLockFaults`):

1. `scan_store` (`spill_store.c:89`) takes a short header read for a torn tail
   without asking `ferror`; recovery then replaces a valid file by a prefix of it.
2. `milena_grouped_aggregate_finalize` reopens its spill through that recovery and
   never compares the number of records, so a damaged spill gives a shorter answer
   with status OK.
3. A worker whose `mtx_lock` fails returns -1, which `thrd_join` discards: OK with
   partitions that never ran.
4. After a conditional both arms of which end by giving a variable the same other
   variable, the lowering to the canonical IR (`canonical_ir.c:1608`, and `1197` when
   nested) finds that the values of the arms do not differ and leaves the variable with
   the value it had before. The bytecode compiler gives it the new one.

One more observation, which no text of the repository decides: a CSV of a header alone
ends a plan with an internal error (`bytecode_data_runtime.c:387`), where
`docs/BYTECODE_DATA_ABI.md` says a report has one row. The model follows the code.

### Why the bounds are enough

The spill needs two records and three files for a recovery of a file that itself was
made by a recovery; one crash is enough because a crash leaves nothing but `disk`
and `path`, every combination of which a later failing append reaches too. The
reducer needs three runs for an odd run and a second pass; a fourth run repeats the
first pass. Two jobs are all a conflict over one path takes, and with two deaths both
may leave files behind. The executor's workers are alike: three are one more than
any race on the index needs, and four partitions leave one to be claimed after every
worker has had its turn.

With one value per chunk and two runs per merge, five values take two passes, both with
an odd run, and the last merge; the quotas are what five values need exactly, so one
record too many would be seen, and six are refused. Three partitions allow a duplicate, a missing and a reordered result at
once, and a second execution two results for one partition. The programs are
families: every pair of seven arms in a conditional, alone and in another, so that
assignments, exchanges and declarations meet at a merge; calls, returns and types, right
and wrong; every three instructions of version 1.0 out of fourteen over two registers;
two functions of the later versions under every typing of four registers; and typed
modules with a loop that exchanges its block parameters, rightly and with each way an
edge can be wrong. Two calls show what a second
call does to the result of the first, and sessions about sharing have three or four:
share, write, release, use. Tables have every kind of column and for every kind of
value two rows that are equal and two that are not. Five characters are a field in
quotes with a doubled quote and a byte more, or one with blanks, a comma or a line end
behind it, and the budgets of one and two bytes, columns or rows are met by such files on
either side.

### Fairness

Safety runs assume none. `GroupedAggregate` assumes weak fairness of the steps inside
finalize, one sequential loop that takes its next step until it returns; faults are
not among them, so none has to rescue it. `PartitionExecutor` assumes weak fairness
of the caller and of each worker: threads are scheduled, callbacks return, and the
consumer's callback under the mutex returns too. A mutex that is fair is not needed:
only finitely many sections can pass a waiting worker, two for every partition and one
for every worker that ends. `PartitionResults` assumes weak fairness of the fork,
which succeeds or fails, of the worker, which goes on or dies, and of the caller's read
and wait: a worker's function returns or its process dies, as nothing in the code
bounds its time. `ScalarPrograms` assumes weak fairness of the two machines, each a
plain loop; that the loop is left is due to the budget alone. `ExternalSort` and
`DataSession` have safety properties only. The sessions and `PartitionResults` may
come to a state without a step, as a program may stop calling; their configurations say
so.

## What is proved

`SpillStoreProofs` proves, for every set of payloads, all lengths, all limits callers
may use, all cut points and any number of files and crashes:

| theorem | states |
|---|---|
| `Invariant` | `Spec => []Inv`, the inductive invariant |
| `TypesHold` | `[]TypeOK` |
| `CountersMatchFile` | `[]HandleMatchesFile` |
| `AcknowledgedRecordsStay` | `[]AckedStays` |
| `ReadersSeeAll` | `[]EndMeansAll` |
| `FilesWithinQuota` | `[]DiskBounded` |
| `RefinesLog` | `Spec => ImplementsLog` |

The assumptions are those `SpillStore` states on its constants: payload lengths are
sizes, and limits are those the functions accept.

`HandleMatchesFile` alone is not inductive: while a call is in progress the counters
lag behind the file, and a failed handle says nothing. `Inv` adds what the code relies
on in between. `InodesInv`: unused inodes are empty, and every file is a sequence of
frames whose end offsets add up. `StoreInv`: an open handle that has not failed writes
to the file the path names, its counters are that file's, or exactly one record behind
between the flush and the count; a failed one holds a frame its file still has room
for. `AppendInv`: a frame being written fits the quota. `RecoverInv`: the sibling holds
all complete records of the original, which is what the scan kept. `ReaderInv`: what a
reader has got is a prefix of its file, and what it is owed is still in that file, even
when a recovery has since put another one behind the path. The proof that a step keeps `Inv` has one lemma per action.
Refinement follows: a record enters the log when its frame completes, by a flush or by
a late flush at close, and rename replaces the file by one with the same records.

`PartitionExecutorProofs` proves of plans, for inputs and targets of every size:

| theorem | states |
|---|---|
| `PlanTiles` | a plan that validates has every byte of the input in exactly one partition |
| `BuiltPlansValid` | a plan that build makes is one that validate accepts |

and of their execution, for every valid plan, number of workers and budget:

| theorem | states |
|---|---|
| `ExecutorInvariant` | `Spec => []Inv`, the inductive invariant |
| `ExecutorTypes` | `[]TypeOK` |
| `PartitionsAssignedOnce` | `[]AssignedOnce` |
| `OkOnlyForTheWholeInput` | `[]OkMeansAll` |
| `ReportIsTrue` | `[]ReportAdds` |
| `FailFastIsFast` | `[]FailFastStops` |

They assume `MaxPartitionsAssumption` and `ExecutorAssumption`: the plan has been
validated, as `milena_partition_execute_local` does first, and there is at least one
worker. The invariant says, besides types: one worker at most is between its test and
its claim, and then there is a partition left (`Admission`); a worker in or behind its
callback holds a claimed partition it has entered (`Holding`); a partition has been entered by one
worker at most and ends one way (`Once`); the counters of the report are the numbers
of partitions that ended and whose worker has been back in the mutex (`Counts`); and,
as long as nothing has failed, a claimed partition has succeeded or is still at a
worker, and a worker that has left left an exhausted plan (`Progress`). When the caller
has joined all threads and `failed` is not set, every partition has succeeded; with
`PlanTiles` that is every byte.

`ReportIsTrue` needs one invariant more (`Given`): `bytes_assigned` is the share of the
input in the partitions entered, and each worker's account the share of its own. A
share is a number of bytes, so that the claim of one more partition adds its length is
that no two partitions of a plan have a byte in common.

`FailFastIsFast` needs another (`Lateness`): with fail_fast, while `failed` is set a
worker is admitted only if the caller set it, and only if nothing has been handed out
since. A worker that records a failure holds the mutex, so nobody is admitted then; the
caller does not, and whoever was admitted before it is the one that may still claim.

`PartitionResultsProofs`, for plans of any size, any results and any number of
executions:

| theorem | states |
|---|---|
| `ExecutorInvariant` | `Spec => []ExecutorInv` |
| `OkOnlyForEveryWorker` | `[]ExecutorTrue` |
| `SumOnlyOfEveryResult` | `[]OkMeansExact` |

The executor's invariant says that partitions before the current one have exited by
themselves with OK and those behind it have not been started, and that the pipe holds
nothing but what the worker of the current partition wrote. The reduction's says where
a message can have come from: a worker of that partition, another plan, or damage. A
loop that ends with OK has then accepted a message of every partition, each the only
thing a worker of it can have sent.

`GroupedAggregateProofs`, for every set of keys and observations, every size of map and
batch, every quota and every set of files left by others:

| theorem | states |
|---|---|
| `ReducerInvariant` | `Spec => []Inv` |
| `TypeCorrect` | `[]TypeOK` |
| `TwoQuotasSuffice` | `[]RunsWithinTwoQuotas` |
| `NoRunIsLeft` | `[]RunsCleanedUp` |
| `ForeignRunsAreSafe` | `ForeignRunsStay` |
| `KeepsThePromise` | `Spec => KeepsPromise`, when `Corruption = FALSE` |
| `OkIsComplete` | `[]OkMeansComplete`, when `Corruption = FALSE` |

None of the first three properties is inductive. `Inv` says which names are on disk at every step of a
pass (`Placed`): the runs that wait, the runs of the next pass, and the output being
written, no other file of its own; and no file of another process has one of the names
a failure removes. It says where finalize stands (`Shape`: the next pair to merge is
twice the runs written), and that the account is the weight of those files (`Account`).
A pair that ends takes two files off the disk and their bytes off the account; that the
subtraction cannot wrap is that both files are among those the account counts.

That the reducer implements `GroupBy` needs more than names and sizes: where the rows
of a key are. `Amount` tells five things of a partial state as naturals (`Quantities`):
its rows, its integers, its nulls, its invalid ones, and its sum with every integer moved
up by `MaxInt` + 1, so that no sum is negative. A merge that is not refused adds them and an
observation adds one; they are summed over a sequence of records (`Of`) and over the
run files (`Files`). The invariant `Kept` says that at each stage these sums are what plain
counting has seen (`Conserved`): of the map and the spill while rows come in; of the
spill, and of the part read, batch and runs together, while it is sorted; of the runs
while they are merged, where an output has what was read of its two inputs. It says
that runs ascend and no record is empty (`Solids`), that what a merge has written lies
below what it has still to read (`Below`), and what the visitor was given (`Handed`).
Of the last run it follows that a key has a record exactly when it has rows, and that
the record is the report of the count: five amounts determine a state. Both theorems
assume that the closed spill reads back as it was written, which is the constant
`Corruption` of the passing run; without it the run on a damaged spill refutes
`OkMeansComplete`, so the assumption cannot be dropped.

`SpillReportProofs`, for any number of jobs on the same paths, any groups, metrics,
limits and deaths:

| theorem | states |
|---|---|
| `ReportInvariant` | `Spec => []Inv` |
| `TypeCorrect` | `[]TypeOK` |
| `ScratchIsExclusive` | `[]ScratchExclusive` |
| `CallLeavesNothing` | `[]NothingLeft` |
| `LimitsAlwaysHold` | `[]LimitsHold` |
| `PublishedWhole` | `[]OutputWhole` |
| `OthersFilesAreSafe` | `OthersFilesStay` |
| `PublishesOrFails` | `OkIffPublished` |

The invariant of a job says who owns the scratch and the staging files at each stage
(`ScratchOwner`, `StagingOwner`), that a reducer that has not failed has counted every
row seen but for the metrics of the row being added (`Counting`), and what a report in
the making holds: entries in order, true to what was seen, of as many bytes as its
pieces (`Writing`). `Shown` says the same of what is at the output path. A report is
whole because the staged entries are, and because a job that goes on to stage has a
reducer that did not fail; the path of `stream.c:1603` ends at that flag.

`ExternalSortProofs`, for every capacity, fan-in, quota, source and set of others' files:

| theorem | states |
|---|---|
| `CallInvariant` | `Spec => []Inv` |
| `ScratchStaysBounded` | `[]ScratchBounded` |
| `CallLeavesOutputOnly` | `[]OnlyOutputLeft` |
| `CallKeepsPromise` | `Spec => ImplementsSort` |

That the output is the sorted input is stated without sorting: it ascends, and for every
set of values it has as many places in that set as what was taken from the source. The
invariant carries this through the passes (`Counted`): the runs no merge has read, those
of the next pass and the chunk have as many together; and through a merge (`Merging`):
so have its output and the places its heap still points to, and nothing in the output is
greater than a node of the heap. `Placed` and `Account` are those of the reducer, with
the bytes of a pass's outputs added before its inputs go.

`SessionProofs`, for every session, that is, for any arrays and storages to start with,
any menu and number of calls, any limits of sizes and strides, any tables, data sets and
files:

| theorem | states |
|---|---|
| `AlwaysSound` | `Spec => []SessionSound`, the inductive invariant |
| `ArraysAlwaysSound` | `[]ArraysSound` |
| `DestinationsOnly` | `OnlyTheDestinationChanges` |
| `PlansCompileSoundly` | `[]CompilerSound` |

The assumption (`SessionsMakeSense`) is what the functions ask of their callers: a session
starts with arrays the library could have made (`HeapSound`); a call names descriptors
there are and gives a shape of naturals, as many values as the shape has elements, a
deleter of its own to each buffer; and the columns of a program to compile have names. TLC evaluates
it on the sessions it checks.

`ArraysSound` is not inductive. That a release frees a storage at the right moment takes
that no second storage holds the same buffer and that a storage that was retained is
still there (`HeldOnce`); that a call does what its operation says takes that the menu
still makes sense, which no call changes, for none adds or removes a descriptor or a
buffer. `HeapSound` is these with the types of the heap. The proof goes through what an
operation may leave (`Outcome`): the heap as it was, or a sound heap in which all arrays
but the destination look at the cells they looked at, and has one lemma for each
operation of `array.c`. A view is validated before it lands (`create_view`), so for slices
with any step, transpositions, broadcasts with strides of zero and reshapes the work is
that what they compute is a descriptor (lengths that are not negative, a stride for each
axis), and that what the validation looks at, the first and the last reachable element,
bounds every element there is, for any signs of the strides (`ValidIsInside`). A result
that is computed is not validated: there the strides `make_contiguous_strides` computes
are shown to reach exactly the last element (`OwnReach`), and the shape of a broadcast or a
reduction to have as many elements as are computed. `DestinationsOnly` needs the same
invariant: that two elements are one only when they have one storage and one offset.
`milena_array_retain` tells nobody when the counter is saturated; the account of what was
retained has a storage only when the code counted it.

`PlansCompileSoundly` is about three functions of the source that each measure a plan on
their own: what the lowerer of `bytecode_compiler.c` lets through, `plan_sizes` of the
encoder, and `milena_bytecode_verify_data`. The invariant keeps that what was compiled
verifies; the work is that every check of the verifier follows from those of the other
two, the name of the result, made of the column's and a suffix, included.

Induction over data is put in a form a proof can cite. `LeastElements` says that a set
of naturals that is not empty has a least member, so the least partition, place or
partial result that would refute a claim is looked at instead; and sums of sizes are
numbers of places or bytes, so that adding and removing are facts about cardinality.

### What stays with TLC

Liveness under fairness is out of the prover's reach: `FinalizeReturns`,
`ExecuteReturns`, `ExecutorReturns` and `RunsEnd` are model-checked. The modules of
scalar programs use recursive operators over trees and programs, for which the prover has
no induction: `RunsSafely` and `MachinesAgree` are model-checked only.

Of sessions, what is model-checked only is what a result *is*: `RelationalResults` and
`ViewsDenoteTheirElements` compare a merge sort, a hash index or a loop over coordinates
with what they should compute, and the `StateSound` of tables and bound programs and
`ReportsWhole` and `BudgetFollowsFields` rest on folds over rows, operations and
characters. Folds take an operator
as a parameter, which none of the provers can instantiate. For the same reason a theorem
that composes a plan with the sum of its results is not stated: the sum is a fold.
Recurrences that are functions (products of dimensions, strides, offsets) are within
reach, by least elements, and that is what `SessionProofs` uses.

In the modules without theorems the arms of a `CASE` are tried in order, as TLC does. In the
others no two arms hold at once in a reachable state, or, where operators of tables and
numbers are concerned, no theorem depends on which is taken.

## Plan

Done: spill store with its log; grouped reducer with its promise; grouped report;
partition plan and executor; external sort; processes, protocol and reduction, all with
proofs of their safety; scalar programs on both machines; tables, arrays, data sets, data
programs and plans, with proofs of what arrays, calls and compiled plans keep.

Left: in-memory streaming aggregation; `milena_dataset_filter_positive_product`; the group
key codec against prefix-freedom and order.

## Not modelled, and why

* The lexer, parser and semantic analysis, the assembler, the schema of a data set,
  the JSON writers, the command line and logging: sequential work on characters and
  trees with no state that outlives a call. The compilers are modelled on any tree.
* The interpreter and its runtime: an evaluator over the whole language, whose tabular
  and array operations are those modelled here; its spill adapter drives the reducer.
* The query plan: construction and rewriting of trees.
* The collector and the arenas: used by the machine's historical data-set opcode, with
  one allocation, and for temporary scopes; nothing marks roots.
* The source reader: records of characters; the report's model has it as a source of
  rows that ends or fails, the data sets' model has a reader of its own.
* The group key codec: a byte encoding of a pair of texts.
* SQLite and Arrow IPC: transactions and layouts of vendored libraries.
* Finance, analysis, SST and regression trees: formulas in floating point.
* Native lowering: text whose meaning is the machine's.
* In the modelled parts: allocation failure in tables and arrays; the binary64
  statistics and the wire codec of aggregates; failing `stat` calls and the Windows
  branches of the data plan; the SST checks and the Arrow programs of the canonical
  compiler; the historical opcodes of the virtual machine; filters with an operator
  that does not exist and other enumerations out of range.

`PROJECT.json` lists each component with its status.
