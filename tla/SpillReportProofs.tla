-------------------------- MODULE SpillReportProofs --------------------------
(***************************************************************************)
(* Proofs about SpillReport, for any number of jobs on the same paths, any *)
(* groups, metrics, limits and deaths: a job touches no file of another, a *)
(* call that returns leaves none, and what is published is whole.          *)
(***************************************************************************)
EXTENDS SpillReport, FiniteSetTheorems, LeastElements

-----------------------------------------------------------------------------
(* The inductive invariant *)

\* The reducer is open.
Opened == {"reading", "adding", "staging", "staged", "emitting", "closing"}

\* The job still has what it created.
Working == Opened \cup {"publishing", "failing"}

\* Who owns the scratch and the staging files.
ScratchOwner(j) ==
    /\ pc[j] \in Opened => job[j].owned
    /\ job[j].owned /\ pc[j] \notin {"unstaging", "returned", "dead"} => scratch = j
    /\ scratch = j => \/ pc[j] = "dead"
                      \/ job[j].owned /\ pc[j] \in Working
    /\ pc[j] = "publishing" => ~job[j].owned

StagingOwner(j) ==
    /\ pc[j] \in {"reading", "adding", "staging"} => job[j].staging = 0
    /\ pc[j] \in {"staged", "emitting", "closing", "publishing"} => job[j].staging # 0
    /\ job[j].staging # 0 /\ pc[j] \notin {"returned", "dead"} => File(j).by = j
    /\ \A n \in 1..Attempts : staged[n].by = j =>
        \/ pc[j] = "dead"
        \/ job[j].staging = n /\ pc[j] \in Working \cup {"unstaging"}

\* The reducer has counted the rows that were read, but for the metrics of the row
\* that is being added.
Behind(j, e) == pc[j] = "adding" /\ e[1] = job[j].row /\ e[2] >= job[j].metric

Counting(j) ==
    /\ pc[j] = "start" => job[j] = NewJob /\ reducer[j] = NewReducer /\ seen[j] = NothingSeen
    /\ pc[j] \in {"reading", "adding", "emitting", "closing"} => ~reducer[j].failed
    /\ pc[j] = "adding" => job[j].row \in Groups /\ seen[j][job[j].row] > 0
    /\ pc[j] \in Opened /\ ~reducer[j].failed => \A e \in Entries :
        seen[j][e[1]] = reducer[j].counts[e] + (IF Behind(j, e) THEN 1 ELSE 0)
    /\ pc[j] \in Opened \cup {"publishing", "start"} =>
        /\ IsFiniteSet(RowsOf(seen[j]))
        /\ job[j].rows = Cardinality(RowsOf(seen[j]))
        /\ limits[j].rows # 0 => job[j].rows <= limits[j].rows
    /\ pc[j] \in {"reading", "adding", "staging", "staged"} =>
        job[j].key = 0 /\ job[j].next = 1 /\ job[j].groups = 0
    /\ pc[j] \in {"failing", "unstaging"} => job[j].status = "error"

\* The groups that have entries in a report.
GroupsOf(entries) == {entries[i].key[1] : i \in 1..Len(entries)}

\* The bytes of a report so far.
Written(entries, groups) ==
    HeaderBytes + Len(entries) * EntryBytes + groups * GroupBytes + (Len(entries) - groups)
    + (IF groups > 0 THEN 3 * groups - 3 ELSE 0)

\* A report in the making: in key order and true to what was seen.
Faithful(entries, s) ==
    /\ \A i, k \in 1..Len(entries) : i < k => Before(entries[i].key, entries[k].key)
    /\ \A i \in 1..Len(entries) :
        /\ s[entries[i].key[1]] > 0
        /\ entries[i].count = s[entries[i].key[1]]

Complete(entries, s) == \A e \in Entries : s[e[1]] > 0 => e \in Keys(entries)

Writing(j) ==
    /\ pc[j] = "staged" => File(j).entries = << >> /\ File(j).bytes = HeaderBytes
    /\ pc[j] \in {"staged", "emitting", "closing", "publishing"} =>
        File(j).rows = job[j].rows
    /\ pc[j] \in {"emitting", "closing", "publishing"} =>
        LET es == File(j).entries IN
        /\ Faithful(es, seen[j])
        /\ \A e \in Entries : seen[j][e[1]] > 0 /\ e \notin Keys(es) =>
            \A i \in 1..Len(es) : Before(es[i].key, e)
        /\ job[j].key = (IF es = << >> THEN 0 ELSE es[Len(es)].key[1])
        /\ job[j].groups = Cardinality(GroupsOf(es))
        /\ job[j].groups <= limits[j].groups
        /\ File(j).bytes <= limits[j].bytes
    /\ pc[j] = "emitting" => File(j).bytes = Written(File(j).entries, job[j].groups)
    /\ pc[j] \in {"closing", "publishing"} =>
        /\ File(j).closed
        /\ Complete(File(j).entries, seen[j])
        /\ File(j).groups = job[j].groups
        /\ File(j).bytes = Rendered(File(j))

\* The report at the output path is that of a job that returned.
Shown ==
    output # NoReport =>
        LET j == output.by
            es == output.entries
        IN /\ j \in Jobs /\ pc[j] = "returned"
           /\ output.closed
           /\ Faithful(es, seen[j]) /\ Complete(es, seen[j])
           /\ output.groups = Cardinality(GroupsOf(es))
           /\ output.groups <= limits[j].groups
           /\ output.bytes = Rendered(output) /\ output.bytes <= limits[j].bytes
           /\ output.rows = Cardinality(RowsOf(seen[j]))
           /\ limits[j].rows # 0 => output.rows <= limits[j].rows

Inv ==
    /\ TypeOK
    /\ \A j \in Jobs : ScratchOwner(j) /\ StagingOwner(j) /\ Counting(j) /\ Writing(j)
    /\ Shown

-----------------------------------------------------------------------------
(* Steps of one job *)

Places == {"start", "reading", "adding", "staging", "staged", "emitting", "closing",
           "publishing", "failing", "unstaging", "returned", "dead"}
Locals == [rows : 0..CsvRows, row : Groups \cup {0}, metric : 1..Metrics,
           eof : BOOLEAN, owned : BOOLEAN, staging : 0..Attempts,
           key : Groups \cup {0}, next : 1..(Metrics + 1),
           groups : 0..Cardinality(Groups), status : {"none", "ok", "error"}]
Reducers == [counts : [Entries -> Nat], failed : BOOLEAN]
Histories == [Groups \cup {Filtered} -> Nat]

LEMMA Constants ==
    /\ NoJob \notin Jobs
    /\ IsFiniteSet(Groups) /\ Groups \subseteq Nat /\ 0 \notin Groups
    /\ Cardinality(Groups) \in Nat
    /\ Metrics \in Nat /\ Metrics > 0 /\ CsvRows \in Nat /\ MaxCrashes \in Nat
    /\ HeaderBytes \in Nat /\ GroupBytes \in Nat /\ EntryBytes \in Nat /\ SuffixBytes \in Nat
    /\ Attempts \in Nat /\ Attempts > 0
  BY ReportAssumption, FS_CardinalityType

\* What a job is made of.
LEMMA Fields ==
    ASSUME Inv, NEW j \in Jobs
    PROVE  /\ pc[j] \in Places /\ job[j] \in Locals /\ reducer[j] \in Reducers
           /\ seen[j] \in Histories /\ limits[j] \in Limits
           /\ limits[j].rows \in Nat /\ limits[j].groups \in Nat /\ limits[j].bytes \in Nat
           /\ ScratchOwner(j) /\ StagingOwner(j) /\ Counting(j) /\ Writing(j)
<1>1. limits[j] \in Limits /\ Limits \subseteq [rows : Nat, groups : Nat \ {0}, bytes : Nat]
  BY ReportAssumption DEF Inv, TypeOK
<1> QED
  BY <1>1 DEF Inv, TypeOK, Places, Locals, Reducers, Histories

\* A new job fits its types, and an empty report is one.
LEMMA FreshTypes ==
    /\ NewJob \in Locals /\ NewReducer \in Reducers /\ NothingSeen \in Histories
    /\ NoReport \in Reports
  BY Constants DEF NewJob, Locals, NewReducer, Reducers, NothingSeen, Histories, NoReport, Reports

\* Steps of others that leave its locals and its files alone disturb nothing of a job.
LEMMA OtherJob ==
    ASSUME Inv, NEW j \in Jobs,
           limits' = limits, pc'[j] = pc[j], job'[j] = job[j], reducer'[j] = reducer[j],
           seen'[j] = seen[j], scratch = j <=> scratch' = j,
           \A n \in 1..Attempts : staged[n].by = j \/ staged'[n].by = j => staged'[n] = staged[n]
    PROVE  ScratchOwner(j)' /\ StagingOwner(j)' /\ Counting(j)' /\ Writing(j)'
<1>1. ScratchOwner(j) /\ StagingOwner(j) /\ Counting(j) /\ Writing(j) /\ job[j] \in Locals
  BY Fields
<1>2. ScratchOwner(j)'
  BY <1>1 DEF ScratchOwner
<1>4. \A e : Behind(j, e)' = Behind(j, e)
  BY DEF Behind
<1>5. Counting(j)'
  BY <1>1, <1>4 DEF Counting
<1>6. job[j].staging # 0 /\ pc[j] \notin {"returned", "dead"} => File(j)' = File(j)
  <2>1. job[j].staging # 0 => job[j].staging \in 1..Attempts
    BY <1>1 DEF Locals
  <2> QED
    BY <1>1, <2>1 DEF File, StagingOwner
<1>7. StagingOwner(j)'
  BY <1>1, <1>6 DEF StagingOwner
<1>8. pc[j] \in {"staged", "emitting", "closing", "publishing"} => File(j)' = File(j)
  BY <1>1, <1>6 DEF StagingOwner
<1>9. Writing(j)'
  BY <1>1, <1>8 DEF Writing, Rendered
<1> QED
  BY <1>2, <1>5, <1>7, <1>9

\* What was published stays true while its job stays returned.
LEMMA ShownStays ==
    ASSUME Inv, output' = output, limits' = limits,
           \A j \in Jobs : pc[j] = "returned" => pc'[j] = pc[j] /\ seen'[j] = seen[j]
    PROVE  Shown'
  BY DEF Inv, Shown, Rendered

\* A step of one job that touches no file of another.
LEMMA JobStep ==
    ASSUME Inv, NEW k \in Jobs, pc[k] # "returned", TypeOK', output' = output, limits' = limits,
           \A j \in Jobs \ {k} :
                /\ pc'[j] = pc[j] /\ job'[j] = job[j] /\ reducer'[j] = reducer[j]
                /\ seen'[j] = seen[j] /\ (scratch = j <=> scratch' = j)
                /\ \A n \in 1..Attempts :
                    staged[n].by = j \/ staged'[n].by = j => staged'[n] = staged[n],
           ScratchOwner(k)' /\ StagingOwner(k)' /\ Counting(k)' /\ Writing(k)'
    PROVE  Inv'
<1>1. \A j \in Jobs : pc[j] = "returned" => pc'[j] = pc[j] /\ seen'[j] = seen[j]
  OBVIOUS
<1>2. Shown'
  BY <1>1, ShownStays
<1>3. \A j \in Jobs \ {k} : ScratchOwner(j)' /\ StagingOwner(j)' /\ Counting(j)' /\ Writing(j)'
  BY OtherJob
<1> QED
  BY <1>2, <1>3 DEF Inv

\* A step of one job that touches no file at all.
LEMMA LocalStep ==
    ASSUME Inv, NEW k \in Jobs, pc[k] # "returned", FilesUnchanged,
           /\ pc' \in [Jobs -> Places] /\ job' \in [Jobs -> Locals]
           /\ reducer' \in [Jobs -> Reducers] /\ seen' \in [Jobs -> Histories],
           \A j \in Jobs \ {k} :
             pc'[j] = pc[j] /\ job'[j] = job[j] /\ reducer'[j] = reducer[j] /\ seen'[j] = seen[j],
           ScratchOwner(k)' /\ StagingOwner(k)' /\ Counting(k)' /\ Writing(k)'
    PROVE  Inv'
<1>1. UNCHANGED <<limits, scratch, staged, output, crashes>>
  BY DEF FilesUnchanged
<1>2. TypeOK'
  BY <1>1 DEF Inv, TypeOK, Places, Locals, Reducers, Histories
<1> QED
  BY <1>1, <1>2, JobStep

\* The types of the locals of all jobs.
LEMMA Typed ==
    ASSUME Inv
    PROVE  /\ pc \in [Jobs -> Places] /\ job \in [Jobs -> Locals]
           /\ reducer \in [Jobs -> Reducers] /\ seen \in [Jobs -> Histories]
  BY DEF Inv, TypeOK, Places, Locals, Reducers, Histories

\* goto spill_finish, from wherever the job had its files.
LEMMA FailInv ==
    ASSUME Inv, NEW k \in Jobs, Fail(k), FilesUnchanged, pc[k] \in Opened \cup {"publishing"}
    PROVE  Inv'
<1> DEFINE b == [NewJob EXCEPT !.owned = job[k].owned, !.staging = job[k].staging,
                               !.status = "error"]
<1>1. /\ pc' = [pc EXCEPT ![k] = "failing"] /\ job' = [job EXCEPT ![k] = b]
      /\ reducer' = [reducer EXCEPT ![k] = NewReducer] /\ seen' = [seen EXCEPT ![k] = NothingSeen]
  BY DEF Fail, GoTo
<1>2. /\ job[k] \in Locals /\ ScratchOwner(k) /\ StagingOwner(k)
  BY Fields
<1>3. b \in Locals /\ b.owned = job[k].owned /\ b.staging = job[k].staging /\ b.status = "error"
  <2>1. job[k].owned \in BOOLEAN /\ job[k].staging \in 0..Attempts
    BY <1>2 DEF Locals
  <2> QED
    BY <2>1, FreshTypes DEF Locals, NewJob
<1>4. "failing" \in Places /\ pc[k] # "returned" /\ pc[k] # "dead" /\ pc[k] # "unstaging"
  BY DEF Places, Opened
<1>5. UNCHANGED <<scratch, staged>>
  BY DEF FilesUnchanged
<1> HIDE DEF b
<1>6. /\ pc' \in [Jobs -> Places] /\ job' \in [Jobs -> Locals]
      /\ reducer' \in [Jobs -> Reducers] /\ seen' \in [Jobs -> Histories]
      /\ \A j \in Jobs \ {k} :
            pc'[j] = pc[j] /\ job'[j] = job[j] /\ reducer'[j] = reducer[j] /\ seen'[j] = seen[j]
      /\ pc'[k] = "failing" /\ job'[k] = b
  BY <1>1, <1>3, <1>4, FreshTypes, Typed
<1>7. ScratchOwner(k)'
  BY <1>2, <1>3, <1>4, <1>5, <1>6 DEF ScratchOwner, Opened, Working
<1>8. StagingOwner(k)'
  BY <1>2, <1>3, <1>4, <1>5, <1>6 DEF StagingOwner, File, Working
<1>9. Counting(k)' /\ Writing(k)'
  BY <1>3, <1>6 DEF Counting, Writing, Opened
<1> QED
  BY <1>4, <1>6, <1>7, <1>8, <1>9, LocalStep

-----------------------------------------------------------------------------
(* Opening and reading *)

\* A job that starts has seen no row.
LEMMA NothingRead == RowsOf(NothingSeen) = {}
<1>1. \A g \in Groups \cup {Filtered} : {g} \X (1..NothingSeen[g]) = {}
  BY DEF NothingSeen
<1> QED
  BY <1>1 DEF RowsOf

LEMMA InitInv == ASSUME Init PROVE Inv
<1>1. TypeOK
  <2>1. staged \in [1..Attempts -> Reports]
    BY FreshTypes DEF Init
  <2> QED
    BY <2>1, Constants, FreshTypes DEF Init, TypeOK, Locals, Reducers, Histories
<1>2. ASSUME NEW j \in Jobs
      PROVE  ScratchOwner(j) /\ StagingOwner(j) /\ Counting(j) /\ Writing(j)
  <2>1. /\ pc[j] = "start" /\ job[j] = NewJob /\ reducer[j] = NewReducer /\ seen[j] = NothingSeen
        /\ scratch = NoJob /\ \A n \in 1..Attempts : staged[n].by = NoJob
    BY DEF Init, NoReport
  <2>2. RowsOf(seen[j]) = {}
    BY <2>1, NothingRead
  <2>3. IsFiniteSet(RowsOf(seen[j])) /\ Cardinality(RowsOf(seen[j])) = 0
    BY <2>2, FS_EmptySet
  <2>4. /\ job[j].owned = FALSE /\ job[j].staging = 0 /\ job[j].rows = 0 /\ job[j].groups = 0
        /\ job[j].key = 0 /\ job[j].next = 1 /\ reducer[j].failed = FALSE
    BY <2>1 DEF NewJob, NewReducer
  <2>5. limits[j].rows \in Nat
    BY ReportAssumption DEF Init
  <2> QED
    BY <2>1, <2>3, <2>4, <2>5, Constants
       DEF ScratchOwner, StagingOwner, Counting, Writing, Opened, Working
<1> QED
  BY <1>1, <1>2 DEF Inv, Shown, Init

LEMMA OpenReducerInv == ASSUME Inv, NEW k \in Jobs, OpenReducer(k) PROVE Inv'
<1>1. /\ pc[k] = "start" /\ scratch = NoJob /\ scratch' = k
      /\ job' = [job EXCEPT ![k].owned = TRUE] /\ pc' = [pc EXCEPT ![k] = "reading"]
      /\ UNCHANGED <<limits, reducer, staged, output, seen, crashes>>
  BY DEF OpenReducer, ScratchFree, GoTo
<1>2. /\ job[k] = NewJob /\ reducer[k] = NewReducer /\ seen[k] = NothingSeen
      /\ job[k] \in Locals /\ StagingOwner(k) /\ Counting(k)
  BY <1>1, Fields DEF Counting
<1>3. /\ pc \in [Jobs -> Places] /\ job \in [Jobs -> Locals]
  BY DEF Inv, TypeOK, Places, Locals
<1>4. [job[k] EXCEPT !.owned = TRUE] \in Locals
  BY <1>2 DEF Locals
<1>5. pc' \in [Jobs -> Places] /\ job' \in [Jobs -> Locals]
  BY <1>1, <1>3, <1>4 DEF Places
<1>6. TypeOK'
  BY <1>1, <1>5 DEF Inv, TypeOK, Places, Locals
<1>7. \A j \in Jobs \ {k} : pc'[j] = pc[j] /\ job'[j] = job[j] /\ j # NoJob
  BY <1>1, <1>3, Constants
<1>8. /\ pc'[k] = "reading" /\ job'[k].owned = TRUE /\ job'[k].staging = 0 /\ job'[k].rows = 0
      /\ job'[k].key = 0 /\ job'[k].next = 1 /\ job'[k].groups = 0
      /\ reducer'[k] = NewReducer /\ reducer'[k].failed = FALSE
      /\ seen'[k] = NothingSeen /\ \A e \in Entries : reducer'[k].counts[e] = 0 /\ seen'[k][e[1]] = 0
  BY <1>1, <1>2, <1>3 DEF NewJob, NewReducer, NothingSeen, Entries
<1>10. ScratchOwner(k)'
  BY <1>1, <1>8 DEF ScratchOwner, Opened, Working
<1>11. StagingOwner(k)'
  BY <1>1, <1>2, <1>8 DEF StagingOwner, Working, Opened
<1>12. Counting(k)'
  <2>1. IsFiniteSet(RowsOf(seen[k])) /\ Cardinality(RowsOf(seen[k])) = 0
    BY <1>1, <1>2, <1>8 DEF Counting, NewJob
  <2>2. \A e \in Entries : ~Behind(k, e)'
    BY <1>8 DEF Behind
  <2>3. limits'[k].rows \in Nat
    BY <1>1, Fields
  <2> QED
    BY <1>1, <1>8, <2>1, <2>2, <2>3 DEF Counting, Opened
<1>13. Writing(k)'
  BY <1>8 DEF Writing
<1> QED
  BY <1>1, <1>6, <1>7, <1>10, <1>11, <1>12, <1>13, JobStep

LEMMA OpenRefusedInv == ASSUME Inv, NEW k \in Jobs, OpenRefused(k) PROVE Inv'
<1> DEFINE b == [job[k] EXCEPT !.status = "error", !.owned = FALSE]
<1>1. /\ pc[k] = "start" /\ pc' = [pc EXCEPT ![k] = "failing"]
      /\ job' = [job EXCEPT ![k] = b]
      /\ UNCHANGED <<reducer, seen>> /\ FilesUnchanged
  BY Typed DEF OpenRefused, OwnedWhenRefused, GoTo
<1>2. job[k] = NewJob /\ ScratchOwner(k) /\ StagingOwner(k)
  BY <1>1, Fields DEF Counting
<1>3. b \in Locals /\ b.owned = FALSE /\ b.status = "error" /\ b.staging = 0
  <2>1. b = [NewJob EXCEPT !.status = "error", !.owned = FALSE]
    BY <1>2
  <2> QED
    BY <2>1, FreshTypes DEF Locals, NewJob
<1>4. UNCHANGED <<scratch, staged>>
  BY <1>1 DEF FilesUnchanged
<1> HIDE DEF b
<1>5. /\ pc' \in [Jobs -> Places] /\ job' \in [Jobs -> Locals]
      /\ reducer' \in [Jobs -> Reducers] /\ seen' \in [Jobs -> Histories]
      /\ \A j \in Jobs \ {k} :
            pc'[j] = pc[j] /\ job'[j] = job[j] /\ reducer'[j] = reducer[j] /\ seen'[j] = seen[j]
      /\ pc'[k] = "failing" /\ job'[k] = b
  BY <1>1, <1>3, Typed DEF Places
<1>6. ScratchOwner(k)'
  BY <1>1, <1>2, <1>3, <1>4, <1>5 DEF ScratchOwner, Opened, Working, NewJob
<1>7. StagingOwner(k)'
  BY <1>1, <1>2, <1>3, <1>4, <1>5 DEF StagingOwner, Opened, Working
<1>8. Counting(k)' /\ Writing(k)'
  BY <1>3, <1>5 DEF Counting, Writing, Opened
<1> QED
  BY <1>1, <1>5, <1>6, <1>7, <1>8, LocalStep

\* One more row is counted once.
LEMMA OneMoreRow ==
    ASSUME NEW s \in Histories, NEW g \in Groups \cup {Filtered}, IsFiniteSet(RowsOf(s))
    PROVE  LET t == [s EXCEPT ![g] = @ + 1]
           IN  /\ t \in Histories
               /\ IsFiniteSet(RowsOf(t)) /\ Cardinality(RowsOf(t)) = Cardinality(RowsOf(s)) + 1
<1> DEFINE t == [s EXCEPT ![g] = @ + 1]
           new == <<g, s[g] + 1>>
<1>1. s[g] \in Nat /\ t \in Histories /\ t[g] = s[g] + 1
  BY DEF Histories
<1>2. \A h \in Groups \cup {Filtered} : h # g => t[h] = s[h]
  BY DEF Histories
<1> HIDE DEF t
<1>3. 1..t[g] = (1..s[g]) \cup {s[g] + 1} /\ s[g] + 1 \notin 1..s[g]
  BY <1>1
<1>4. new \notin RowsOf(s)
  BY <1>3 DEF RowsOf
<1>5. RowsOf(t) = RowsOf(s) \cup {new}
  <2>1. {g} \X (1..t[g]) = ({g} \X (1..s[g])) \cup {new}
    BY <1>3
  <2>2. \A h \in Groups \cup {Filtered} : h # g => {h} \X (1..t[h]) = {h} \X (1..s[h])
    BY <1>2
  <2> QED
    BY <2>1, <2>2 DEF RowsOf
<1> HIDE DEF new
<1>6. IsFiniteSet(RowsOf(t)) /\ Cardinality(RowsOf(t)) = Cardinality(RowsOf(s)) + 1
  BY <1>4, <1>5, FS_AddElement
<1> QED
  BY <1>1, <1>6 DEF t

LEMMA ReadRowInv ==
    ASSUME Inv, NEW k \in Jobs, NEW g \in Groups, NEW last \in BOOLEAN, ReadRow(k, g, last)
    PROVE  Inv'
<1> DEFINE b == [job[k] EXCEPT !.rows = @ + 1, !.row = g, !.metric = 1, !.eof = last]
           s == [seen[k] EXCEPT ![g] = @ + 1]
<1>1. /\ pc[k] = "reading" /\ job[k].rows < CsvRows /\ ~OverRowLimit(k)
      /\ job' = [job EXCEPT ![k] = b]
      /\ seen' = [seen EXCEPT ![k] = s]
      /\ pc' = [pc EXCEPT ![k] = "adding"]
      /\ UNCHANGED reducer /\ FilesUnchanged
  BY Typed DEF ReadRow, GoTo
<1>2. /\ job[k] \in Locals /\ reducer[k] \in Reducers /\ seen[k] \in Histories
      /\ ScratchOwner(k) /\ StagingOwner(k) /\ Counting(k) /\ limits[k].rows \in Nat
  BY Fields
<1>3. b \in Locals
  <2>1. job[k].rows + 1 \in 0..CsvRows /\ 1 \in 1..Metrics
    BY <1>1, <1>2, Constants DEF Locals
  <2> QED
    BY <1>2, <2>1 DEF Locals
<1>3a. /\ b.owned = job[k].owned /\ b.staging = job[k].staging
       /\ b.rows = job[k].rows + 1 /\ b.row = g /\ b.metric = 1
       /\ b.key = job[k].key /\ b.next = job[k].next /\ b.groups = job[k].groups
  BY <1>2 DEF Locals
<1>4. UNCHANGED <<limits, scratch, staged>>
  BY <1>1 DEF FilesUnchanged
<1>5. IsFiniteSet(RowsOf(seen[k])) /\ job[k].rows = Cardinality(RowsOf(seen[k])) /\ ~reducer[k].failed
  BY <1>1, <1>2 DEF Counting, Opened
<1>6. /\ s \in Histories /\ IsFiniteSet(RowsOf(s)) /\ Cardinality(RowsOf(s)) = job[k].rows + 1
  BY <1>2, <1>5, OneMoreRow
<1>7. \A e \in Entries : reducer[k].counts[e] = seen[k][e[1]]
  <2>1. \A e \in Entries : ~Behind(k, e)
    BY <1>1 DEF Behind
  <2>2. \A e \in Entries : reducer[k].counts[e] \in Nat
    BY <1>2 DEF Reducers
  <2> QED
    BY <1>1, <1>2, <1>5, <2>1, <2>2 DEF Counting, Opened
<1>8. /\ \A e \in Entries : s[e[1]] = seen[k][e[1]] + (IF e[1] = g THEN 1 ELSE 0)
      /\ s[g] > 0
  <2>1. \A h \in Groups : s[h] = seen[k][h] + (IF h = g THEN 1 ELSE 0)
    BY <1>2 DEF Histories
  <2>2. s[g] > 0
    BY <1>2 DEF Histories
  <2> QED
    BY <2>1, <2>2 DEF Entries
<1>9. \A e \in Entries : e[2] \in Nat /\ e[2] >= 1
  BY DEF Entries
<1> HIDE DEF b, s
<1>10. /\ pc' \in [Jobs -> Places] /\ job' \in [Jobs -> Locals]
       /\ reducer' \in [Jobs -> Reducers] /\ seen' \in [Jobs -> Histories]
       /\ \A j \in Jobs \ {k} :
            pc'[j] = pc[j] /\ job'[j] = job[j] /\ reducer'[j] = reducer[j] /\ seen'[j] = seen[j]
       /\ pc'[k] = "adding" /\ job'[k] = b /\ reducer'[k] = reducer[k] /\ seen'[k] = s
  BY <1>1, <1>3, <1>6, Typed DEF Places
<1>11. ScratchOwner(k)'
  BY <1>1, <1>2, <1>3a, <1>4, <1>10 DEF ScratchOwner, Opened, Working
<1>12. StagingOwner(k)'
  BY <1>1, <1>2, <1>3a, <1>4, <1>10 DEF StagingOwner, File, Opened, Working
<1>13. Counting(k)'
  <2>1. \A e \in Entries : Behind(k, e)' <=> e[1] = g
    BY <1>3a, <1>9, <1>10 DEF Behind
  <2>2. limits[k].rows # 0 => b.rows <= limits[k].rows
    BY <1>1, <1>2, <1>3a DEF OverRowLimit, Locals
  <2> QED
    BY <1>1, <1>2, <1>3a, <1>4, <1>5, <1>6, <1>7, <1>8, <1>10, <2>1, <2>2 DEF Counting, Opened
<1>14. Writing(k)'
  BY <1>10 DEF Writing
<1> QED
  BY <1>1, <1>10, <1>11, <1>12, <1>13, <1>14, LocalStep

LEMMA ReadFilteredInv ==
    ASSUME Inv, NEW k \in Jobs, NEW last \in BOOLEAN, ReadFiltered(k, last)
    PROVE  Inv'
<1> DEFINE b == [job[k] EXCEPT !.rows = @ + 1, !.eof = last]
           s == [seen[k] EXCEPT ![Filtered] = @ + 1]
<1>1. /\ pc[k] = "reading" /\ job[k].rows < CsvRows /\ ~OverRowLimit(k)
      /\ job' = [job EXCEPT ![k] = b]
      /\ seen' = [seen EXCEPT ![k] = s]
      /\ UNCHANGED <<pc, reducer>> /\ FilesUnchanged
  BY Typed DEF ReadFiltered
<1>2. /\ job[k] \in Locals /\ reducer[k] \in Reducers /\ seen[k] \in Histories
      /\ ScratchOwner(k) /\ StagingOwner(k) /\ Counting(k) /\ limits[k].rows \in Nat
  BY Fields
<1>3. b \in Locals
  <2>1. job[k].rows + 1 \in 0..CsvRows
    BY <1>1, <1>2, Constants DEF Locals
  <2> QED
    BY <1>2, <2>1 DEF Locals
<1>4. /\ b.owned = job[k].owned /\ b.staging = job[k].staging /\ b.rows = job[k].rows + 1
      /\ b.key = job[k].key /\ b.next = job[k].next /\ b.groups = job[k].groups
  BY <1>2 DEF Locals
<1>5. UNCHANGED <<limits, scratch, staged>>
  BY <1>1 DEF FilesUnchanged
<1>6. IsFiniteSet(RowsOf(seen[k])) /\ job[k].rows = Cardinality(RowsOf(seen[k]))
  BY <1>1, <1>2 DEF Counting, Opened
<1>7. /\ s \in Histories /\ IsFiniteSet(RowsOf(s)) /\ Cardinality(RowsOf(s)) = job[k].rows + 1
  BY <1>2, <1>6, OneMoreRow
<1>8. \A e \in Entries : s[e[1]] = seen[k][e[1]]
  <2>1. \A h \in Groups : s[h] = seen[k][h]
    BY <1>2, Constants DEF Histories, Filtered
  <2> QED
    BY <2>1 DEF Entries
<1> HIDE DEF b, s
<1>9. /\ pc' \in [Jobs -> Places] /\ job' \in [Jobs -> Locals]
      /\ reducer' \in [Jobs -> Reducers] /\ seen' \in [Jobs -> Histories]
      /\ \A j \in Jobs \ {k} :
            pc'[j] = pc[j] /\ job'[j] = job[j] /\ reducer'[j] = reducer[j] /\ seen'[j] = seen[j]
      /\ pc'[k] = "reading" /\ job'[k] = b /\ reducer'[k] = reducer[k] /\ seen'[k] = s
  BY <1>1, <1>3, <1>7, Typed
<1>10. ScratchOwner(k)'
  BY <1>1, <1>2, <1>4, <1>5, <1>9 DEF ScratchOwner, Opened, Working
<1>11. StagingOwner(k)'
  BY <1>1, <1>2, <1>4, <1>5, <1>9 DEF StagingOwner, File, Opened, Working
<1>12. Counting(k)'
  <2>1. \A e : ~Behind(k, e)' /\ ~Behind(k, e)
    BY <1>1, <1>9 DEF Behind
  <2>2. limits[k].rows # 0 => b.rows <= limits[k].rows
    BY <1>1, <1>2, <1>4 DEF OverRowLimit, Locals
  <2> QED
    BY <1>1, <1>2, <1>4, <1>5, <1>7, <1>8, <1>9, <2>1, <2>2 DEF Counting, Opened
<1>13. Writing(k)'
  BY <1>9 DEF Writing
<1> QED
  BY <1>1, <1>9, <1>10, <1>11, <1>12, <1>13, LocalStep

LEMMA AddMetricInv == ASSUME Inv, NEW k \in Jobs, AddMetric(k) PROVE Inv'
<1> DEFINE m == job[k].metric
           g == job[k].row
           ended == m = Metrics
           b == [job[k] EXCEPT !.row = IF ended THEN 0 ELSE @,
                               !.metric = IF ended THEN 1 ELSE @ + 1]
           p == IF ended THEN "reading" ELSE "adding"
           r == [reducer[k] EXCEPT !.counts[<<g, m>>] = @ + 1]
<1>1. /\ pc[k] = "adding" /\ ~reducer[k].failed
      /\ reducer' = [reducer EXCEPT ![k] = r]
      /\ job' = [job EXCEPT ![k] = b]
      /\ pc' = [pc EXCEPT ![k] = p]
      /\ UNCHANGED seen /\ FilesUnchanged
  BY Typed DEF AddMetric, LastMetric, GoTo
<1>2. /\ job[k] \in Locals /\ reducer[k] \in Reducers /\ seen[k] \in Histories
      /\ ScratchOwner(k) /\ StagingOwner(k) /\ Counting(k)
  BY Fields
<1>3. /\ m \in 1..Metrics /\ m \in Nat /\ g \in Groups /\ <<g, m>> \in Entries
      /\ seen[k][g] \in Nat /\ seen[k][g] > 0
  BY <1>1, <1>2, Constants DEF Locals, Counting, Entries, Histories
<1>4. b \in Locals
  <2>1. (IF ended THEN 1 ELSE m + 1) \in 1..Metrics
    BY <1>3, Constants
  <2> QED
    BY <1>2, <1>3, <2>1 DEF Locals
<1>5. /\ b.owned = job[k].owned /\ b.staging = job[k].staging /\ b.rows = job[k].rows
      /\ b.key = job[k].key /\ b.next = job[k].next /\ b.groups = job[k].groups
      /\ ~ended => b.row = g /\ b.metric = m + 1
  BY <1>2 DEF Locals
<1>6. r \in Reducers /\ r.failed = reducer[k].failed
      /\ \A e \in Entries : r.counts[e] = reducer[k].counts[e] + (IF e = <<g, m>> THEN 1 ELSE 0)
  <2>1. /\ reducer[k].counts \in [Entries -> Nat]
        /\ r.counts = [reducer[k].counts EXCEPT ![<<g, m>>] = @ + 1]
        /\ r = [reducer[k] EXCEPT !.counts = r.counts]
    BY <1>2 DEF Reducers
  <2>2. r.counts \in [Entries -> Nat]
    BY <1>3, <2>1
  <2>3. r \in Reducers /\ r.failed = reducer[k].failed
    BY <1>2, <2>1, <2>2 DEF Reducers
  <2> QED
    BY <1>3, <2>1, <2>3
<1>7. UNCHANGED <<limits, scratch, staged>>
  BY <1>1 DEF FilesUnchanged
<1>8. p \in {"reading", "adding"} /\ p \in Places /\ (p = "adding" <=> ~ended)
  BY DEF Places
<1> HIDE DEF b, r, p, m, g
<1>9. /\ pc' \in [Jobs -> Places] /\ job' \in [Jobs -> Locals]
      /\ reducer' \in [Jobs -> Reducers] /\ seen' \in [Jobs -> Histories]
      /\ \A j \in Jobs \ {k} :
            pc'[j] = pc[j] /\ job'[j] = job[j] /\ reducer'[j] = reducer[j] /\ seen'[j] = seen[j]
      /\ pc'[k] = p /\ job'[k] = b /\ reducer'[k] = r /\ seen'[k] = seen[k]
  BY <1>1, <1>4, <1>6, <1>8, Typed
<1>10. ScratchOwner(k)'
  BY <1>1, <1>2, <1>5, <1>7, <1>8, <1>9 DEF ScratchOwner, Opened, Working
<1>11. StagingOwner(k)'
  BY <1>1, <1>2, <1>5, <1>7, <1>8, <1>9 DEF StagingOwner, File, Opened, Working
<1>12. Counting(k)'
  <2>1. ASSUME NEW e \in Entries
        PROVE  seen[k][e[1]] = r.counts[e] + (IF Behind(k, e)' THEN 1 ELSE 0)
    <3>1. e[1] \in Groups /\ e[2] \in 1..Metrics /\ e[2] \in Nat /\ e = <<e[1], e[2]>>
      BY Constants DEF Entries
    <3>2. seen[k][e[1]] = reducer[k].counts[e] + (IF Behind(k, e) THEN 1 ELSE 0)
      BY <1>1, <1>2 DEF Counting, Opened
    <3>3. Behind(k, e) <=> e[1] = g /\ e[2] >= m
      BY <1>1 DEF Behind, g, m
    <3>4. Behind(k, e)' <=> e[1] = g /\ e[2] >= m + 1
      <4>1. CASE ended
        BY <1>8, <1>9, <4>1, <3>1, <1>3 DEF Behind
      <4>2. CASE ~ended
        BY <1>5, <1>8, <1>9, <4>2 DEF Behind
      <4> QED
        BY <4>1, <4>2
    <3>5. e = <<g, m>> <=> e[1] = g /\ e[2] = m
      BY <3>1
    <3>6. reducer[k].counts[e] \in Nat
      BY <1>2 DEF Reducers
    <3>7. r.counts[e] = reducer[k].counts[e] + (IF e[1] = g /\ e[2] = m THEN 1 ELSE 0)
      BY <1>6, <3>5
    <3>8. e[2] >= m <=> e[2] = m \/ e[2] >= m + 1
      BY <3>1, <1>3
    <3>9. ~(e[2] = m /\ e[2] >= m + 1)
      BY <3>1, <1>3
    <3> QED
      BY <3>2, <3>3, <3>4, <3>6, <3>7, <3>8, <3>9
  <2> QED
    BY <1>1, <1>2, <1>3, <1>5, <1>6, <1>7, <1>8, <1>9, <2>1 DEF Counting, Opened
<1>13. Writing(k)'
  BY <1>8, <1>9 DEF Writing
<1> QED
  BY <1>1, <1>9, <1>10, <1>11, <1>12, <1>13, LocalStep

\* At the end of the source a flush that fails leaves a reducer that finalization
\* turns away.
LEMMA AddFlushFailsInv == ASSUME Inv, NEW k \in Jobs, AddFlushFails(k) PROVE Inv'
<1>1. CASE ~job[k].eof
  BY <1>1, FailInv DEF AddFlushFails, Opened
<1>2. CASE job[k].eof
  <2> DEFINE b == [job[k] EXCEPT !.row = 0, !.metric = 1]
             r == [reducer[k] EXCEPT !.failed = TRUE]
  <2>1. /\ pc[k] = "adding"
        /\ reducer' = [reducer EXCEPT ![k] = r]
        /\ job' = [job EXCEPT ![k] = b]
        /\ pc' = [pc EXCEPT ![k] = "staging"]
        /\ UNCHANGED seen /\ FilesUnchanged
    BY <1>2, Typed DEF AddFlushFails, FailedAfterFlush, GoTo
  <2>2. /\ job[k] \in Locals /\ reducer[k] \in Reducers
        /\ ScratchOwner(k) /\ StagingOwner(k) /\ Counting(k)
    BY Fields
  <2>3. b \in Locals
    <3>1. 1 \in 1..Metrics
      BY Constants
    <3> QED
      BY <2>2, <3>1 DEF Locals
  <2>4. /\ b.owned = job[k].owned /\ b.staging = job[k].staging /\ b.rows = job[k].rows
        /\ b.key = job[k].key /\ b.next = job[k].next /\ b.groups = job[k].groups
    BY <2>2 DEF Locals
  <2>5. r \in Reducers /\ r.failed
    BY <2>2 DEF Reducers
  <2>6. UNCHANGED <<limits, scratch, staged>>
    BY <2>1 DEF FilesUnchanged
  <2> HIDE DEF b, r
  <2>7. /\ pc' \in [Jobs -> Places] /\ job' \in [Jobs -> Locals]
        /\ reducer' \in [Jobs -> Reducers] /\ seen' \in [Jobs -> Histories]
        /\ \A j \in Jobs \ {k} :
            pc'[j] = pc[j] /\ job'[j] = job[j] /\ reducer'[j] = reducer[j] /\ seen'[j] = seen[j]
        /\ pc'[k] = "staging" /\ job'[k] = b /\ reducer'[k] = r /\ seen'[k] = seen[k]
    BY <2>1, <2>3, <2>5, Typed DEF Places
  <2>8. ScratchOwner(k)'
    BY <2>1, <2>2, <2>4, <2>6, <2>7 DEF ScratchOwner, Opened, Working
  <2>9. StagingOwner(k)'
    BY <2>1, <2>2, <2>4, <2>6, <2>7 DEF StagingOwner, File, Opened, Working
  <2>10. Counting(k)'
    BY <2>1, <2>2, <2>4, <2>5, <2>6, <2>7 DEF Counting, Opened
  <2>11. Writing(k)'
    BY <2>7 DEF Writing
  <2> QED
    BY <2>1, <2>7, <2>8, <2>9, <2>10, <2>11, LocalStep
<1> QED
  BY <1>1, <1>2

LEMMA ReadEndInv == ASSUME Inv, NEW k \in Jobs, ReadEnd(k) PROVE Inv'
<1>1. /\ pc[k] = "reading" /\ pc' = [pc EXCEPT ![k] = "staging"]
      /\ UNCHANGED <<job, reducer, seen>> /\ FilesUnchanged
  BY DEF ReadEnd, GoTo
<1>2. ScratchOwner(k) /\ StagingOwner(k) /\ Counting(k)
  BY Fields
<1>3. UNCHANGED <<limits, scratch, staged>>
  BY <1>1 DEF FilesUnchanged
<1>4. /\ pc' \in [Jobs -> Places] /\ pc'[k] = "staging"
      /\ \A j \in Jobs \ {k} : pc'[j] = pc[j]
  BY <1>1, Typed DEF Places
<1>5. ScratchOwner(k)'
  BY <1>1, <1>2, <1>3, <1>4 DEF ScratchOwner, Opened, Working
<1>6. StagingOwner(k)'
  BY <1>1, <1>2, <1>3, <1>4 DEF StagingOwner, File, Opened, Working
<1>7. Counting(k)'
  <2>1. \A e : ~Behind(k, e)' /\ ~Behind(k, e)
    BY <1>1, <1>4 DEF Behind
  <2> QED
    BY <1>1, <1>2, <1>3, <1>4, <2>1 DEF Counting, Opened
<1>8. Writing(k)'
  BY <1>4 DEF Writing
<1> QED
  BY <1>1, <1>4, <1>5, <1>6, <1>7, <1>8, Typed, LocalStep

-----------------------------------------------------------------------------
(* Writing the report *)

\* A step of one job that changes files, of its own only.
LEMMA FileStep ==
    ASSUME Inv, NEW k \in Jobs, pc[k] # "returned", limits' = limits, output' = output,
           /\ pc' \in [Jobs -> Places] /\ job' \in [Jobs -> Locals]
           /\ reducer' \in [Jobs -> Reducers] /\ seen' \in [Jobs -> Histories],
           scratch' \in Jobs \cup {NoJob}, staged' \in [1..Attempts -> Reports],
           crashes' \in 0..MaxCrashes,
           \A j \in Jobs \ {k} :
                /\ pc'[j] = pc[j] /\ job'[j] = job[j] /\ reducer'[j] = reducer[j]
                /\ seen'[j] = seen[j] /\ (scratch = j <=> scratch' = j)
                /\ \A n \in 1..Attempts :
                    staged[n].by = j \/ staged'[n].by = j => staged'[n] = staged[n],
           ScratchOwner(k)' /\ StagingOwner(k)' /\ Counting(k)' /\ Writing(k)'
    PROVE  Inv'
<1>1. TypeOK'
  BY DEF Inv, TypeOK, Places, Locals, Reducers, Histories
<1> QED
  BY <1>1, JobStep

\* The staging file a job writes is the one it created.
LEMMA OwnStaging ==
    ASSUME Inv, NEW k \in Jobs, job[k].staging # 0, pc[k] \notin {"returned", "dead"}
    PROVE  /\ job[k].staging \in 1..Attempts /\ File(k) = staged[job[k].staging]
           /\ File(k) \in Reports /\ File(k).by = k /\ k # NoJob
           /\ \A n \in 1..Attempts : staged[n].by = k => n = job[k].staging
           /\ staged \in [1..Attempts -> Reports]
<1>1. job[k] \in Locals /\ StagingOwner(k) /\ staged \in [1..Attempts -> Reports]
  BY Fields DEF Inv, TypeOK
<1>2. job[k].staging \in 1..Attempts
  BY <1>1 DEF Locals
<1> QED
  BY <1>1, <1>2, Constants DEF File, StagingOwner

LEMMA OpenStagingInv == ASSUME Inv, NEW k \in Jobs, OpenStaging(k) PROVE Inv'
<1> DEFINE n == FirstFree
           f == [NoReport EXCEPT !.by = k, !.bytes = HeaderBytes, !.rows = job[k].rows]
           b == [job[k] EXCEPT !.staging = n]
<1>1. /\ pc[k] = "staging" /\ FreeNames # {}
      /\ staged' = [staged EXCEPT ![n] = f]
      /\ job' = [job EXCEPT ![k] = b]
      /\ pc' = [pc EXCEPT ![k] = "staged"]
      /\ UNCHANGED <<limits, reducer, scratch, output, seen, crashes>>
  BY Typed DEF OpenStaging, GoTo
<1>2. n \in FreeNames
  <2>1. FreeNames \subseteq Nat
    BY DEF FreeNames
  <2>2. \E x \in FreeNames : \A y \in FreeNames : x <= y
    BY <1>1, <2>1, LeastElement
  <2> QED
    BY <2>2 DEF FirstFree
<1>3. /\ n \in 1..Attempts /\ n # 0 /\ staged[n] = NoReport /\ staged[n].by = NoJob
      /\ staged \in [1..Attempts -> Reports]
  BY <1>2 DEF FreeNames, NoReport, Inv, TypeOK
<1>4. /\ job[k] \in Locals /\ ScratchOwner(k) /\ StagingOwner(k) /\ Counting(k)
  BY Fields
<1>5. /\ b \in Locals /\ b.owned = job[k].owned /\ b.staging = n /\ b.rows = job[k].rows
      /\ b.key = job[k].key /\ b.next = job[k].next /\ b.groups = job[k].groups
  BY <1>3, <1>4 DEF Locals
<1>6. /\ f \in Reports /\ f.by = k /\ f.bytes = HeaderBytes /\ f.rows = job[k].rows
      /\ f.entries = << >>
  <2>1. job[k].rows \in Nat
    BY <1>4, Constants DEF Locals
  <2> QED
    BY <2>1, Constants, FreshTypes DEF NoReport, Reports
<1> HIDE DEF n, f, b
<1>7. staged'[n] = f /\ \A m \in 1..Attempts : m # n => staged'[m] = staged[m]
  BY <1>1, <1>3
<1>8. staged' \in [1..Attempts -> Reports]
  BY <1>1, <1>3, <1>6
<1>9. /\ pc' \in [Jobs -> Places] /\ job' \in [Jobs -> Locals]
      /\ reducer' \in [Jobs -> Reducers] /\ seen' \in [Jobs -> Histories]
      /\ \A j \in Jobs \ {k} :
            pc'[j] = pc[j] /\ job'[j] = job[j] /\ reducer'[j] = reducer[j] /\ seen'[j] = seen[j]
      /\ pc'[k] = "staged" /\ job'[k] = b /\ reducer'[k] = reducer[k] /\ seen'[k] = seen[k]
  BY <1>1, <1>5, Typed DEF Places
<1>10. \A j \in Jobs \ {k} : \A m \in 1..Attempts :
            staged[m].by = j \/ staged'[m].by = j => staged'[m] = staged[m]
  BY <1>3, <1>6, <1>7, Constants
<1>11. ScratchOwner(k)'
  BY <1>1, <1>4, <1>5, <1>9 DEF ScratchOwner, Opened, Working
<1>12. File(k)' = f
  BY <1>5, <1>7, <1>9 DEF File
<1>13. StagingOwner(k)'
  BY <1>1, <1>3, <1>4, <1>5, <1>6, <1>7, <1>9, <1>12 DEF StagingOwner, Opened, Working
<1>14. Counting(k)'
  <2>1. \A e : ~Behind(k, e)' /\ ~Behind(k, e)
    BY <1>1, <1>9 DEF Behind
  <2> QED
    BY <1>1, <1>4, <1>5, <1>9, <2>1 DEF Counting, Opened
<1>15. Writing(k)'
  BY <1>5, <1>6, <1>9, <1>12 DEF Writing
<1>16. scratch' \in Jobs \cup {NoJob} /\ crashes' \in 0..MaxCrashes
  BY <1>1 DEF Inv, TypeOK
<1> QED
  BY <1>1, <1>8, <1>9, <1>10, <1>11, <1>13, <1>14, <1>15, <1>16, FileStep

\* What an open reducer has counted when no row is being added.
LEMMA AllCounted ==
    ASSUME Inv, NEW k \in Jobs, pc[k] \in Opened, pc[k] # "adding", ~reducer[k].failed
    PROVE  \A e \in Entries : /\ reducer[k].counts[e] = seen[k][e[1]]
                              /\ reducer[k].counts[e] \in Nat
<1>1. Counting(k) /\ reducer[k] \in Reducers
  BY Fields
<1>2. \A e : ~Behind(k, e)
  BY DEF Behind
<1>3. \A e \in Entries : reducer[k].counts[e] \in Nat
  BY <1>1 DEF Reducers
<1> QED
  BY <1>1, <1>2, <1>3 DEF Counting

LEMMA FinalizeInv == ASSUME Inv, NEW k \in Jobs, Finalize(k) PROVE Inv'
<1>1. /\ pc[k] = "staged" /\ pc' = [pc EXCEPT ![k] = "emitting"]
      /\ HeaderBytes <= limits[k].bytes /\ ~reducer[k].failed
      /\ UNCHANGED <<job, reducer, seen>> /\ FilesUnchanged
  BY DEF Finalize, GoTo
<1>2. /\ ScratchOwner(k) /\ StagingOwner(k) /\ Counting(k) /\ Writing(k)
      /\ limits[k].groups \in Nat
  BY Fields
<1>3. UNCHANGED <<limits, scratch, staged>>
  BY <1>1 DEF FilesUnchanged
<1>4. /\ pc' \in [Jobs -> Places] /\ pc'[k] = "emitting"
      /\ \A j \in Jobs \ {k} : pc'[j] = pc[j]
  BY <1>1, Typed DEF Places
<1>5. ScratchOwner(k)'
  BY <1>1, <1>2, <1>3, <1>4 DEF ScratchOwner, Opened, Working
<1>6. StagingOwner(k)'
  BY <1>1, <1>2, <1>3, <1>4 DEF StagingOwner, File, Opened, Working
<1>7. Counting(k)'
  <2>1. \A e : ~Behind(k, e)' /\ ~Behind(k, e)
    BY <1>1, <1>4 DEF Behind
  <2> QED
    BY <1>1, <1>2, <1>3, <1>4, <2>1 DEF Counting, Opened
<1>8. Writing(k)'
  <2>1. /\ File(k)' = File(k) /\ File(k).entries = << >> /\ File(k).bytes = HeaderBytes
        /\ File(k).rows = job[k].rows
    BY <1>1, <1>2, <1>3 DEF Writing, File
  <2>2. job[k].key = 0 /\ job[k].groups = 0
    BY <1>1, <1>2 DEF Counting
  <2>3. Cardinality(GroupsOf(<< >>)) = 0
    <3>1. GroupsOf(<< >>) = {}
      BY DEF GroupsOf
    <3> QED
      BY <3>1, FS_EmptySet
  <2>4. Written(<< >>, 0) = HeaderBytes
    BY Constants DEF Written
  <2>5. Faithful(<< >>, seen[k])
    BY DEF Faithful
  <2> QED
    BY <1>1, <1>2, <1>3, <1>4, <2>1, <2>2, <2>3, <2>4, <2>5 DEF Writing
<1> QED
  BY <1>1, <1>4, <1>5, <1>6, <1>7, <1>8, Typed, LocalStep

\* Entries are in a strict order, in which any two of them differ.
LEMMA EntryOrder ==
    /\ \A e \in Entries : e[1] \in Groups /\ e[1] \in Nat /\ e[1] # 0 /\ e[2] \in 1..Metrics /\ e[2] \in Nat
    /\ \A d, e \in Entries : d = e \/ Before(d, e) \/ Before(e, d)
    /\ \A d, e, f \in Entries : Before(d, e) /\ Before(e, f) => Before(d, f)
    /\ \A e \in Entries : ~Before(e, e)
<1>1. \A e \in Entries : e[1] \in Groups /\ e[1] \in Nat /\ e[1] # 0 /\ e[2] \in 1..Metrics /\ e[2] \in Nat
                         /\ e = <<e[1], e[2]>>
  <2> SUFFICES ASSUME NEW e \in Entries
               PROVE  /\ e[1] \in Groups /\ e[1] \in Nat /\ e[1] # 0
                      /\ e[2] \in 1..Metrics /\ e[2] \in Nat /\ e = <<e[1], e[2]>>
    OBVIOUS
  <2>1. e[1] \in Groups /\ e[2] \in 1..Metrics /\ e = <<e[1], e[2]>>
    BY DEF Entries
  <2>2. Groups \subseteq Nat /\ 0 \notin Groups
    BY Constants
  <2> QED
    BY <2>1, <2>2
<1>2. \A d, e \in Entries : d = e \/ Before(d, e) \/ Before(e, d)
  BY <1>1 DEF Before
<1>3. \A d, e, f \in Entries : Before(d, e) /\ Before(e, f) => Before(d, f)
  BY <1>1 DEF Before
<1>4. \A e \in Entries : ~Before(e, e)
  BY <1>1 DEF Before
<1> QED
  BY <1>1, <1>2, <1>3, <1>4

\* Of the entries that are left one comes first.
LEMMA NextIsFirst ==
    ASSUME NEW W, W \subseteq Entries, W # {}
    PROVE  \E e \in W : \A d \in W \ {e} : Before(e, d)
<1>1. PICK g \in {e[1] : e \in W} : \A h \in {e[1] : e \in W} : g <= h
  <2>1. {e[1] : e \in W} \subseteq Nat /\ {e[1] : e \in W} # {}
    BY EntryOrder
  <2> QED
    BY <2>1, LeastElement
<1> DEFINE M == {e[2] : e \in {d \in W : d[1] = g}}
<1>2. PICK m \in M : \A n \in M : m <= n
  <2>1. M \subseteq Nat /\ M # {}
    BY <1>1, EntryOrder
  <2> QED
    BY <2>1, LeastElement
<1>3. PICK e \in W : e[1] = g /\ e[2] = m
  BY <1>2
<1>4. ASSUME NEW d \in W, d # e PROVE Before(e, d)
  <2>1. g <= d[1]
    BY <1>1
  <2>2. d[1] = g => m <= d[2]
    BY <1>2
  <2>3. d \in Entries /\ e \in Entries
    OBVIOUS
  <2>4. d[1] \in Nat /\ d[2] \in Nat /\ e[1] \in Nat /\ e[2] \in Nat
    BY <2>3, EntryOrder
  <2>5. Before(d, e) \/ Before(e, d)
    BY <1>4, <2>3, EntryOrder
  <2> QED
    BY <1>3, <2>1, <2>2, <2>4, <2>5 DEF Before
<1> QED
  BY <1>3, <1>4

EntryRecords == [key : Entries, count : Nat]

\* What one more entry adds to a report.
LEMMA OneMoreEntry ==
    ASSUME NEW es \in Seq(EntryRecords), NEW e \in Entries, NEW c \in Nat
    PROVE  LET more == Append(es, [key |-> e, count |-> c]) IN
           /\ more \in Seq(EntryRecords)
           /\ Len(more) = Len(es) + 1 /\ Len(es) \in Nat
           /\ \A i \in 1..Len(es) : more[i] = es[i]
           /\ more[Len(es) + 1] = [key |-> e, count |-> c]
           /\ Keys(more) = Keys(es) \cup {e}
           /\ GroupsOf(more) = GroupsOf(es) \cup {e[1]}
<1> DEFINE ent == [key |-> e, count |-> c]
           more == Append(es, ent)
<1>1. ent \in EntryRecords /\ ent.key = e
  BY DEF EntryRecords
<1> HIDE DEF ent
<1>2. /\ more \in Seq(EntryRecords)
      /\ Len(more) = Len(es) + 1 /\ Len(es) \in Nat
      /\ \A i \in 1..Len(es) : more[i] = es[i]
      /\ more[Len(es) + 1] = ent
  BY <1>1
<1>3. 1..Len(more) = (1..Len(es)) \cup {Len(es) + 1}
  BY <1>2
<1> HIDE DEF more
<1>4. Keys(more) = Keys(es) \cup {e}
  BY <1>1, <1>2, <1>3 DEF Keys
<1>5. GroupsOf(more) = GroupsOf(es) \cup {e[1]}
  BY <1>1, <1>2, <1>3 DEF GroupsOf
<1> QED
  BY <1>2, <1>4, <1>5 DEF more, ent

\* The groups of a report are finitely many.
LEMMA GroupsCounted ==
    ASSUME NEW es \in Seq(EntryRecords)
    PROVE  /\ GroupsOf(es) \subseteq Groups
           /\ IsFiniteSet(GroupsOf(es))
           /\ Cardinality(GroupsOf(es)) \in 0..Cardinality(Groups)
           /\ Cardinality(GroupsOf(es)) \in Nat
           /\ \A i \in 1..Len(es) : es[i].key \in Entries
           /\ Cardinality(GroupsOf(es)) = 0 <=> es = << >>
<1>1. \A i \in 1..Len(es) : es[i] \in EntryRecords
  OBVIOUS
<1>2. \A i \in 1..Len(es) : es[i].key \in Entries
  BY <1>1 DEF EntryRecords
<1>3. GroupsOf(es) \in SUBSET Groups
  BY <1>2, EntryOrder DEF GroupsOf
<1>4. IsFiniteSet(GroupsOf(es)) /\ Cardinality(GroupsOf(es)) <= Cardinality(Groups)
  BY <1>3, Constants, FS_Subset
<1>5. Cardinality(GroupsOf(es)) \in Nat
  BY <1>4, FS_CardinalityType
<1>6. Cardinality(GroupsOf(es)) = 0 <=> GroupsOf(es) = {}
  BY <1>4, FS_EmptySet
<1>7. GroupsOf(es) = {} <=> es = << >>
  <2>1. es = << >> => GroupsOf(es) = {}
    BY DEF GroupsOf
  <2>2. es # << >> => 1 \in 1..Len(es)
    OBVIOUS
  <2> QED
    BY <2>1, <2>2 DEF GroupsOf
<1> QED
  BY <1>2, <1>3, <1>4, <1>5, <1>6, <1>7, Constants

\* The bytes one more entry takes.
LEMMA WrittenMore ==
    ASSUME NEW es \in Seq(EntryRecords), NEW more \in Seq(EntryRecords), Len(more) = Len(es) + 1,
           NEW g \in Nat
    PROVE  /\ Written(more, g) = Written(es, g) + EntryBytes + 1
           /\ Written(more, g + 1) =
                Written(es, g) + EntryBytes + GroupBytes + (IF g > 0 THEN 2 + 1 ELSE 0)
<1> DEFINE l == Len(es)
           le == l * EntryBytes
           gg == g * GroupBytes
<1>1. l \in Nat /\ EntryBytes \in Nat /\ GroupBytes \in Nat /\ HeaderBytes \in Nat
  BY Constants
<1>2. (l + 1) * EntryBytes = le + EntryBytes /\ (g + 1) * GroupBytes = gg + GroupBytes
      /\ le \in Nat /\ gg \in Nat
  BY <1>1
<1>3. Written(es, g) = HeaderBytes + le + gg + (l - g) + (IF g > 0 THEN 3 * g - 3 ELSE 0)
  BY DEF Written
<1>4. Written(more, g) =
        HeaderBytes + (le + EntryBytes) + gg + (l + 1 - g) + (IF g > 0 THEN 3 * g - 3 ELSE 0)
  BY <1>2 DEF Written
<1>5. Written(more, g + 1) =
        HeaderBytes + (le + EntryBytes) + (gg + GroupBytes) + (l + 1 - (g + 1))
        + (IF g + 1 > 0 THEN 3 * (g + 1) - 3 ELSE 0)
  BY <1>2 DEF Written
<1> HIDE DEF l, le, gg
<1> QED
  BY <1>1, <1>2, <1>3, <1>4, <1>5

\* What closes a report brings its bytes to those of the whole.
LEMMA WrittenWhole ==
    ASSUME NEW r, r.entries \in Seq(EntryRecords), r.groups \in Nat
    PROVE  Written(r.entries, r.groups) + (IF r.groups = 0 THEN 0 ELSE 2) + SuffixBytes = Rendered(r)
<1> DEFINE l == Len(r.entries)
           g == r.groups
           le == l * EntryBytes
           gg == g * GroupBytes
<1>1. l \in Nat /\ g \in Nat /\ EntryBytes \in Nat /\ GroupBytes \in Nat /\ HeaderBytes \in Nat
      /\ SuffixBytes \in Nat
  BY Constants
<1>2. g * (GroupBytes + 2) = gg + 2 * g /\ gg \in Nat /\ le \in Nat
  BY <1>1
<1>3. Written(r.entries, g) = HeaderBytes + le + gg + (l - g) + (IF g > 0 THEN 3 * g - 3 ELSE 0)
  BY DEF Written
<1>4. Rendered(r) =
        HeaderBytes + SuffixBytes + (gg + 2 * g) + le + (l - g) + (IF g > 0 THEN g - 1 ELSE 0)
  BY <1>2 DEF Rendered
<1> HIDE DEF l, g, le, gg
<1>5. Written(r.entries, g) + (IF g = 0 THEN 0 ELSE 2) + SuffixBytes = Rendered(r)
  BY <1>1, <1>2, <1>3, <1>4
<1> QED
  BY <1>5 DEF g

\* stream_spill_emit_group: the first entry that is left stands behind all the others.
LEMMA EmitEntryInv == ASSUME Inv, NEW k \in Jobs, EmitEntry(k) PROVE Inv'
<1> DEFINE n == job[k].staging
           es == File(k).entries
           e == NextEntry(k)
           c == reducer[k].counts[e]
           same == SameGroup(k, e)
           more == Append(es, [key |-> e, count |-> c])
           bytes == File(k).bytes + AppendBytes(k, e)
           f == [File(k) EXCEPT !.entries = more, !.bytes = bytes]
           groups == IF same THEN job[k].groups ELSE job[k].groups + 1
           b == [job[k] EXCEPT !.key = e[1], !.next = e[2] + 1, !.groups = groups]
<1>1. /\ pc[k] = "emitting" /\ Waiting(k) # {} /\ InOrder(k, e) /\ bytes <= limits[k].bytes
      /\ UNCHANGED <<limits, pc, reducer, scratch, output, seen, crashes>>
  BY DEF EmitEntry
<1>2. /\ job[k] \in Locals /\ ScratchOwner(k) /\ StagingOwner(k) /\ Counting(k) /\ Writing(k)
      /\ limits[k].rows \in Nat /\ limits[k].groups \in Nat /\ limits[k].bytes \in Nat
  BY Fields
<1>3. /\ n \in 1..Attempts /\ File(k) = staged[n] /\ File(k) \in Reports /\ File(k).by = k
      /\ k # NoJob /\ \A m \in 1..Attempts : staged[m].by = k => m = n
      /\ staged \in [1..Attempts -> Reports]
  BY <1>1, <1>2, OwnStaging DEF StagingOwner
<1>4. /\ staged' = [staged EXCEPT ![n] = f]
      /\ job' = [job EXCEPT ![k] = b]
  BY <1>1, <1>3, Typed DEF EmitEntry
<1>5. es \in Seq(EntryRecords) /\ File(k).bytes \in Nat
  BY <1>3 DEF Reports, EntryRecords
<1>6. \A d \in Entries : reducer[k].counts[d] = seen[k][d[1]] /\ reducer[k].counts[d] \in Nat
  BY <1>1, <1>2, AllCounted DEF Counting, Opened
<1>7. /\ e \in Entries /\ e \notin Keys(es) /\ c > 0
      /\ \A d \in Waiting(k) \ {e} : Before(e, d)
  <2>1. Waiting(k) \subseteq Entries
    BY DEF Waiting
  <2>2. \E x \in Waiting(k) : \A d \in Waiting(k) \ {x} : Before(x, d)
    BY <1>1, <2>1, NextIsFirst
  <2>3. e \in Waiting(k) /\ \A d \in Waiting(k) \ {e} : Before(e, d)
    BY <2>2 DEF NextEntry
  <2> QED
    BY <2>3 DEF Waiting
<1>8. c = seen[k][e[1]] /\ c \in Nat
  BY <1>6, <1>7
<1>9. /\ Faithful(es, seen[k])
      /\ \A d \in Entries : seen[k][d[1]] > 0 /\ d \notin Keys(es) =>
            \A i \in 1..Len(es) : Before(es[i].key, d)
      /\ job[k].key = (IF es = << >> THEN 0 ELSE es[Len(es)].key[1])
      /\ job[k].groups = Cardinality(GroupsOf(es)) /\ job[k].groups <= limits[k].groups
      /\ File(k).bytes = Written(es, job[k].groups) /\ File(k).rows = job[k].rows
  BY <1>1, <1>2 DEF Writing
<1>10. \A i \in 1..Len(es) : Before(es[i].key, e)
  BY <1>7, <1>8, <1>9
<1>11. /\ more \in Seq(EntryRecords)
       /\ Len(more) = Len(es) + 1 /\ Len(es) \in Nat
       /\ \A i \in 1..Len(es) : more[i] = es[i]
       /\ more[Len(es) + 1] = [key |-> e, count |-> c]
       /\ Keys(more) = Keys(es) \cup {e}
       /\ GroupsOf(more) = GroupsOf(es) \cup {e[1]}
  BY <1>5, <1>7, <1>8, OneMoreEntry
<1>12. /\ e[1] \in Groups /\ e[1] \in Nat /\ e[1] # 0 /\ e[2] \in 1..Metrics /\ e[2] \in Nat
       /\ \A i \in 1..Len(es) : es[i].key \in Entries /\ es[i].key[1] \in Nat
       /\ IsFiniteSet(GroupsOf(es)) /\ Cardinality(GroupsOf(es)) \in Nat
  BY <1>5, <1>7, EntryOrder, GroupsCounted
<1>13. same <=> job[k].key = e[1]
  BY DEF SameGroup
<1> HIDE DEF n, e, c, same, more
<1>14. same <=> e[1] \in GroupsOf(es)
  <2>1. ASSUME same PROVE e[1] \in GroupsOf(es)
    <3>1. es # << >> /\ es[Len(es)].key[1] = e[1]
      BY <1>9, <1>12, <1>13, <2>1
    <3>2. Len(es) \in 1..Len(es)
      BY <1>5, <3>1
    <3> QED
      BY <3>1, <3>2 DEF GroupsOf
  <2>2. ASSUME e[1] \in GroupsOf(es) PROVE same
    <3>1. PICK i \in 1..Len(es) : es[i].key[1] = e[1]
      BY <2>2 DEF GroupsOf
    <3>2. es # << >> /\ Len(es) \in 1..Len(es)
      BY <1>5, <3>1
    <3>3. i = Len(es) \/ Before(es[i].key, es[Len(es)].key)
      BY <1>9, <1>11, <3>2 DEF Faithful
    <3>4. Before(es[Len(es)].key, e)
      BY <1>10, <3>2
    <3>5. es[Len(es)].key[1] \in Nat /\ es[i].key[1] \in Nat
      BY <1>12, <3>2
    <3>6. es[Len(es)].key[1] = e[1]
      BY <1>12, <3>1, <3>3, <3>4, <3>5 DEF Before
    <3> QED
      BY <1>9, <1>13, <3>2, <3>6
  <2> QED
    BY <2>1, <2>2
<1>15. groups = Cardinality(GroupsOf(more)) /\ groups \in 0..Cardinality(Groups) /\ groups \in Nat
       /\ groups <= limits[k].groups
  <2>1. groups = Cardinality(GroupsOf(more))
    <3>1. CASE same
      <4>1. GroupsOf(more) = GroupsOf(es)
        BY <1>11, <1>14, <3>1
      <4> QED
        BY <1>9, <3>1, <4>1
    <3>2. CASE ~same
      <4>1. Cardinality(GroupsOf(es) \cup {e[1]}) = Cardinality(GroupsOf(es)) + 1
        BY <1>12, <1>14, <3>2, FS_AddElement
      <4> QED
        BY <1>9, <1>11, <3>2, <4>1
    <3> QED
      BY <3>1, <3>2
  <2>2. groups <= limits[k].groups
    <3>1. job[k].groups < limits[k].groups \/ same
      BY <1>1 DEF InOrder, same
    <3> QED
      BY <1>2, <1>9, <1>12, <3>1
  <2> QED
    BY <1>11, <2>1, <2>2, GroupsCounted
<1>16. bytes = Written(more, groups) /\ bytes \in Nat
  <2> DEFINE g == job[k].groups
  <2>1. g \in Nat
    BY <1>9, <1>12
  <2>2. /\ Written(more, g) = Written(es, g) + EntryBytes + 1
        /\ Written(more, g + 1) =
                Written(es, g) + EntryBytes + GroupBytes + (IF g > 0 THEN 2 + 1 ELSE 0)
    BY <1>5, <1>11, <2>1, WrittenMore
  <2>3. AppendBytes(k, e) = IF same THEN EntryBytes + 1
                            ELSE EntryBytes + GroupBytes + (IF g > 0 THEN 2 + 1 ELSE 0)
    BY DEF AppendBytes, same
  <2> HIDE DEF g
  <2>4. AppendBytes(k, e) \in Nat
    BY <2>3, Constants
  <2>5. bytes \in Nat /\ bytes = Written(es, g) + AppendBytes(k, e)
    BY <1>5, <1>9, <2>4 DEF g
  <2>6. Written(es, g) \in Nat
    BY <1>5, <1>9 DEF g
  <2> HIDE DEF bytes
  <2>7. CASE same
    BY <2>2, <2>3, <2>5, <2>6, <2>7, Constants DEF g
  <2>8. CASE ~same
    <3>1. bytes = Written(more, g + 1)
      BY <2>1, <2>2, <2>3, <2>5, <2>6, <2>8, Constants
    <3> QED
      BY <2>5, <2>8, <3>1 DEF g
  <2> QED
    BY <2>7, <2>8
<1> HIDE DEF groups, bytes
<1>17. b \in Locals
  <2>1. e[2] + 1 \in 1..(Metrics + 1)
    BY <1>12, Constants
  <2> QED
    BY <1>2, <1>12, <1>15, <2>1 DEF Locals
<1>18. /\ b.owned = job[k].owned /\ b.staging = n /\ b.rows = job[k].rows
       /\ b.key = e[1] /\ b.groups = groups
  BY <1>2 DEF Locals, n
<1>19. f \in Reports
  BY <1>3, <1>11, <1>16 DEF Reports, EntryRecords
<1>20. f.by = k /\ f.rows = File(k).rows /\ f.entries = more /\ f.bytes = bytes
  BY <1>3 DEF Reports
<1> HIDE DEF f, b
<1>21. staged'[n] = f /\ \A m \in 1..Attempts : m # n => staged'[m] = staged[m]
  BY <1>3, <1>4
<1>22. staged' \in [1..Attempts -> Reports]
  BY <1>3, <1>4, <1>19
<1>23. /\ pc' \in [Jobs -> Places] /\ job' \in [Jobs -> Locals]
       /\ reducer' \in [Jobs -> Reducers] /\ seen' \in [Jobs -> Histories]
       /\ \A j \in Jobs \ {k} :
            pc'[j] = pc[j] /\ job'[j] = job[j] /\ reducer'[j] = reducer[j] /\ seen'[j] = seen[j]
       /\ pc'[k] = "emitting" /\ job'[k] = b /\ reducer'[k] = reducer[k] /\ seen'[k] = seen[k]
  BY <1>1, <1>4, <1>17, Typed
<1>24. \A j \in Jobs \ {k} : \A m \in 1..Attempts :
            staged[m].by = j \/ staged'[m].by = j => staged'[m] = staged[m]
  BY <1>3, <1>20, <1>21
<1>25. File(k)' = f
  BY <1>18, <1>21, <1>23 DEF File
<1>26. ScratchOwner(k)'
  BY <1>1, <1>2, <1>18, <1>23 DEF ScratchOwner, Opened, Working
<1>27. StagingOwner(k)'
  BY <1>1, <1>2, <1>3, <1>18, <1>20, <1>21, <1>23, <1>25 DEF StagingOwner, Opened, Working
<1>28. Counting(k)'
  <2>1. \A d : ~Behind(k, d)' /\ ~Behind(k, d)
    BY <1>1, <1>23 DEF Behind
  <2> QED
    BY <1>1, <1>2, <1>18, <1>23, <2>1 DEF Counting, Opened
<1>29. Faithful(more, seen[k])
  <2>0. \A i \in 1..Len(more) : i \in 1..Len(es) \/ i = Len(es) + 1
    BY <1>11
  <2>1. ASSUME NEW i \in 1..Len(more), NEW l \in 1..Len(more), i < l
        PROVE  Before(more[i].key, more[l].key)
    <3>1. i \in 1..Len(es)
      BY <1>11, <2>1
    <3>2. CASE l \in 1..Len(es)
      BY <1>9, <1>11, <2>1, <3>1, <3>2 DEF Faithful
    <3>3. CASE l = Len(es) + 1
      BY <1>10, <1>11, <3>1, <3>3
    <3> QED
      BY <2>0, <3>2, <3>3
  <2>2. ASSUME NEW i \in 1..Len(more)
        PROVE  seen[k][more[i].key[1]] > 0 /\ more[i].count = seen[k][more[i].key[1]]
    <3>1. CASE i \in 1..Len(es)
      BY <1>9, <1>11, <3>1 DEF Faithful
    <3>2. CASE i = Len(es) + 1
      BY <1>7, <1>8, <1>11, <3>2
    <3> QED
      BY <2>0, <3>1, <3>2
  <2> QED
    BY <2>1, <2>2 DEF Faithful
<1>30. ASSUME NEW d \in Entries, seen[k][d[1]] > 0, d \notin Keys(more), NEW i \in 1..Len(more)
       PROVE  Before(more[i].key, d)
  <2>1. d # e /\ d \notin Keys(es)
    BY <1>11, <1>30
  <2>2. d \in Waiting(k)
    BY <1>6, <1>30, <2>1 DEF Waiting
  <2>3. CASE i \in 1..Len(es)
    BY <1>9, <1>11, <1>30, <2>1, <2>3
  <2>4. CASE i = Len(es) + 1
    BY <1>7, <1>11, <2>1, <2>2, <2>4
  <2> QED
    BY <1>11, <2>3, <2>4
<1>31. b.key = IF more = << >> THEN 0 ELSE more[Len(more)].key[1]
  <2>1. more # << >>
    BY <1>11
  <2> QED
    BY <1>11, <1>18, <2>1
<1>32. Writing(k)'
  BY <1>1, <1>9, <1>15, <1>16, <1>18, <1>20, <1>23, <1>25, <1>29, <1>30, <1>31 DEF Writing
<1>33. scratch' \in Jobs \cup {NoJob} /\ crashes' \in 0..MaxCrashes
  BY <1>1 DEF Inv, TypeOK
<1> QED
  BY <1>1, <1>22, <1>23, <1>24, <1>26, <1>27, <1>28, <1>32, <1>33, FileStep

\* The report is closed when no entry is left.
LEMMA FinishReportInv == ASSUME Inv, NEW k \in Jobs, FinishReport(k) PROVE Inv'
<1> DEFINE n == job[k].staging
           es == File(k).entries
           bytes == File(k).bytes + CloseBytes(k) + SuffixBytes
           f == [File(k) EXCEPT !.bytes = bytes, !.groups = job[k].groups, !.closed = TRUE]
<1>1. /\ pc[k] = "emitting" /\ Waiting(k) = {} /\ bytes <= limits[k].bytes
      /\ pc' = [pc EXCEPT ![k] = "closing"]
      /\ UNCHANGED <<limits, job, reducer, scratch, output, seen, crashes>>
  BY DEF FinishReport, Fits, GoTo
<1>2. /\ job[k] \in Locals /\ ScratchOwner(k) /\ StagingOwner(k) /\ Counting(k) /\ Writing(k)
  BY Fields
<1>3. /\ n \in 1..Attempts /\ File(k) = staged[n] /\ File(k) \in Reports /\ File(k).by = k
      /\ k # NoJob /\ \A m \in 1..Attempts : staged[m].by = k => m = n
      /\ staged \in [1..Attempts -> Reports]
  BY <1>1, <1>2, OwnStaging DEF StagingOwner
<1>4. staged' = [staged EXCEPT ![n] = f]
  BY <1>3 DEF FinishReport
<1>5. es \in Seq(EntryRecords) /\ File(k).bytes \in Nat
  BY <1>3 DEF Reports, EntryRecords
<1>6. /\ Faithful(es, seen[k])
      /\ \A d \in Entries : seen[k][d[1]] > 0 /\ d \notin Keys(es) =>
            \A i \in 1..Len(es) : Before(es[i].key, d)
      /\ job[k].key = (IF es = << >> THEN 0 ELSE es[Len(es)].key[1])
      /\ job[k].groups = Cardinality(GroupsOf(es)) /\ job[k].groups <= limits[k].groups
      /\ File(k).bytes = Written(es, job[k].groups) /\ File(k).rows = job[k].rows
  BY <1>1, <1>2 DEF Writing
<1>7. job[k].groups \in Nat /\ (job[k].groups = 0 <=> es = << >>)
  BY <1>5, <1>6, GroupsCounted
<1>8. job[k].key = 0 <=> es = << >>
  <2>1. es # << >> => Len(es) \in 1..Len(es)
    BY <1>5
  <2>2. es # << >> => es[Len(es)].key[1] # 0
    BY <1>5, <2>1, GroupsCounted, EntryOrder
  <2> QED
    BY <1>6, <2>2
<1>9. CloseBytes(k) = (IF job[k].groups = 0 THEN 0 ELSE 2)
  BY <1>7, <1>8 DEF CloseBytes
<1>10. Complete(es, seen[k])
  <2>1. \A d \in Entries : reducer[k].counts[d] = seen[k][d[1]]
    BY <1>1, <1>2, AllCounted DEF Counting, Opened
  <2> QED
    BY <1>1, <2>1 DEF Waiting, Complete
<1>11. bytes \in Nat
  BY <1>5, <1>9, Constants
<1> HIDE DEF n, bytes
<1>12. f \in Reports
  BY <1>3, <1>7, <1>11 DEF Reports
<1>13. /\ f.by = k /\ f.rows = File(k).rows /\ f.entries = es /\ f.bytes = bytes
       /\ f.groups = job[k].groups /\ f.closed = TRUE
  BY <1>3 DEF Reports
<1> HIDE DEF f
<1>14. bytes = Rendered(f)
  <2>1. Written(f.entries, f.groups) + (IF f.groups = 0 THEN 0 ELSE 2) + SuffixBytes = Rendered(f)
    BY <1>5, <1>7, <1>13, WrittenWhole
  <2> QED
    BY <1>6, <1>9, <1>13, <2>1 DEF bytes
<1>15. staged'[n] = f /\ \A m \in 1..Attempts : m # n => staged'[m] = staged[m]
  BY <1>3, <1>4
<1>16. staged' \in [1..Attempts -> Reports]
  BY <1>3, <1>4, <1>12
<1>17. /\ pc' \in [Jobs -> Places] /\ pc'[k] = "closing" /\ \A j \in Jobs \ {k} : pc'[j] = pc[j]
  BY <1>1, Typed DEF Places
<1>18. \A j \in Jobs \ {k} : \A m \in 1..Attempts :
            staged[m].by = j \/ staged'[m].by = j => staged'[m] = staged[m]
  BY <1>3, <1>13, <1>15
<1>19. File(k)' = f
  BY <1>1, <1>15 DEF File, n
<1>20. ScratchOwner(k)'
  BY <1>1, <1>2, <1>17 DEF ScratchOwner, Opened, Working
<1>21. StagingOwner(k)'
  BY <1>1, <1>2, <1>3, <1>13, <1>15, <1>17, <1>19 DEF StagingOwner, Opened, Working, n
<1>22. Counting(k)'
  <2>1. \A d : ~Behind(k, d)' /\ ~Behind(k, d)
    BY <1>1, <1>17 DEF Behind
  <2> QED
    BY <1>1, <1>2, <1>17, <2>1 DEF Counting, Opened
<1>23. Writing(k)'
  BY <1>1, <1>6, <1>10, <1>13, <1>14, <1>17, <1>19 DEF Writing
<1>24. scratch' \in Jobs \cup {NoJob} /\ crashes' \in 0..MaxCrashes
  BY <1>1 DEF Inv, TypeOK
<1> QED
  BY <1>1, <1>16, <1>17, <1>18, <1>20, <1>21, <1>22, <1>23, <1>24, Typed, FileStep

-----------------------------------------------------------------------------
(* Publishing and cleaning up *)

LEMMA RemoveScratchInv == ASSUME Inv, NEW k \in Jobs, RemoveScratch(k) PROVE Inv'
<1> DEFINE b == [job[k] EXCEPT !.owned = FALSE]
<1>1. /\ pc[k] = "closing" /\ scratch' = NoJob
      /\ job' = [job EXCEPT ![k] = b]
      /\ reducer' = [reducer EXCEPT ![k] = NewReducer]
      /\ pc' = [pc EXCEPT ![k] = "publishing"]
      /\ UNCHANGED <<limits, staged, output, seen, crashes>>
  BY Typed DEF RemoveScratch, GoTo
<1>2. /\ job[k] \in Locals /\ ScratchOwner(k) /\ StagingOwner(k) /\ Counting(k) /\ Writing(k)
  BY Fields
<1>3. scratch = k
  BY <1>1, <1>2 DEF ScratchOwner, Opened
<1>4. b \in Locals
  BY <1>2 DEF Locals
<1>5. /\ b.owned = FALSE /\ b.staging = job[k].staging /\ b.rows = job[k].rows
      /\ b.key = job[k].key /\ b.groups = job[k].groups
  BY <1>2 DEF Locals
<1> HIDE DEF b
<1>6. /\ pc' \in [Jobs -> Places] /\ job' \in [Jobs -> Locals]
      /\ reducer' \in [Jobs -> Reducers] /\ seen' \in [Jobs -> Histories]
      /\ \A j \in Jobs \ {k} :
            /\ pc'[j] = pc[j] /\ job'[j] = job[j] /\ reducer'[j] = reducer[j] /\ seen'[j] = seen[j]
            /\ scratch = j <=> scratch' = j
      /\ pc'[k] = "publishing" /\ job'[k] = b /\ reducer'[k] = NewReducer /\ seen'[k] = seen[k]
  BY <1>1, <1>3, <1>4, Typed, FreshTypes, Constants DEF Places
<1>7. ScratchOwner(k)'
  BY <1>1, <1>5, <1>6, Constants DEF ScratchOwner, Opened, Working
<1>8. File(k)' = File(k)
  BY <1>1, <1>5, <1>6 DEF File
<1>9. StagingOwner(k)'
  BY <1>1, <1>2, <1>5, <1>6, <1>8 DEF StagingOwner, Opened, Working
<1>10. Counting(k)'
  BY <1>1, <1>2, <1>5, <1>6 DEF Counting, Opened
<1>11. Writing(k)'
  BY <1>1, <1>2, <1>5, <1>6, <1>8 DEF Writing
<1>12. /\ scratch' \in Jobs \cup {NoJob} /\ crashes' \in 0..MaxCrashes
       /\ staged' \in [1..Attempts -> Reports]
  BY <1>1 DEF Inv, TypeOK
<1> QED
  BY <1>1, <1>6, <1>7, <1>9, <1>10, <1>11, <1>12, FileStep

\* The rename shows what was written.
LEMMA PublishInv == ASSUME Inv, NEW k \in Jobs, Publish(k) PROVE Inv'
<1> DEFINE n == job[k].staging
           b == [NewJob EXCEPT !.status = "ok"]
<1>1. /\ pc[k] = "publishing" /\ output' = File(k)
      /\ staged' = [staged EXCEPT ![n] = NoReport]
      /\ job' = [job EXCEPT ![k] = b]
      /\ pc' = [pc EXCEPT ![k] = "returned"]
      /\ UNCHANGED <<limits, reducer, scratch, seen, crashes>>
  BY DEF Publish, GoTo
<1>2. /\ job[k] \in Locals /\ ScratchOwner(k) /\ StagingOwner(k) /\ Counting(k) /\ Writing(k)
  BY Fields
<1>3. /\ n \in 1..Attempts /\ File(k) = staged[n] /\ File(k) \in Reports /\ File(k).by = k
      /\ k # NoJob /\ \A m \in 1..Attempts : staged[m].by = k => m = n
      /\ staged \in [1..Attempts -> Reports]
  BY <1>1, <1>2, OwnStaging DEF StagingOwner
<1>4. b \in Locals /\ b.owned = FALSE /\ b.staging = 0
  BY FreshTypes DEF Locals, NewJob
<1> HIDE DEF n, b
<1>5. /\ staged'[n] = NoReport /\ NoReport.by = NoJob
      /\ \A m \in 1..Attempts : m # n => staged'[m] = staged[m]
  BY <1>1, <1>3 DEF NoReport
<1>6. /\ pc' \in [Jobs -> Places] /\ job' \in [Jobs -> Locals]
      /\ \A j \in Jobs \ {k} : pc'[j] = pc[j] /\ job'[j] = job[j]
      /\ pc'[k] = "returned" /\ job'[k] = b
  BY <1>1, <1>4, Typed DEF Places
<1>7. staged' \in [1..Attempts -> Reports]
  BY <1>1, <1>3, FreshTypes
<1>8. TypeOK'
  BY <1>1, <1>3, <1>6, <1>7 DEF Inv, TypeOK, Places, Locals
<1>9. \A j \in Jobs \ {k} : ScratchOwner(j)' /\ StagingOwner(j)' /\ Counting(j)' /\ Writing(j)'
  <2> SUFFICES ASSUME NEW j \in Jobs \ {k}
               PROVE  ScratchOwner(j)' /\ StagingOwner(j)' /\ Counting(j)' /\ Writing(j)'
    OBVIOUS
  <2>1. \A m \in 1..Attempts : staged[m].by = j \/ staged'[m].by = j => staged'[m] = staged[m]
    BY <1>3, <1>5, Constants
  <2> QED
    BY <1>1, <1>6, <2>1, OtherJob
<1>10. scratch # k
  BY <1>1, <1>2, <1>3, <1>4 DEF ScratchOwner, Working, Opened, Counting
<1>11. ScratchOwner(k)'
  BY <1>1, <1>4, <1>6, <1>10 DEF ScratchOwner, Opened, Working
<1>12. StagingOwner(k)'
  BY <1>1, <1>3, <1>4, <1>5, <1>6 DEF StagingOwner, File
<1>13. Counting(k)' /\ Writing(k)'
  BY <1>6 DEF Counting, Writing, Opened
<1>14. Shown'
  <2>1. /\ File(k).closed /\ Faithful(File(k).entries, seen[k])
        /\ Complete(File(k).entries, seen[k]) /\ File(k).groups = job[k].groups
        /\ File(k).bytes = Rendered(File(k)) /\ File(k).rows = job[k].rows
        /\ job[k].groups = Cardinality(GroupsOf(File(k).entries))
        /\ job[k].groups <= limits[k].groups /\ File(k).bytes <= limits[k].bytes
    BY <1>1, <1>2 DEF Writing
  <2>2. /\ job[k].rows = Cardinality(RowsOf(seen[k]))
        /\ limits[k].rows # 0 => job[k].rows <= limits[k].rows
    BY <1>1, <1>2 DEF Counting
  <2>3. output'.by = k
    BY <1>1, <1>3
  <2> QED
    BY <1>1, <1>6, <2>1, <2>2, <2>3 DEF Shown, Rendered
<1> QED
  BY <1>8, <1>9, <1>11, <1>12, <1>13, <1>14 DEF Inv

\* A failing call removes the scratch it created, and no other.
LEMMA RemoveOwnedScratchInv == ASSUME Inv, NEW k \in Jobs, RemoveOwnedScratch(k) PROVE Inv'
<1>1. /\ pc[k] = "failing" /\ scratch' = (IF job[k].owned THEN NoJob ELSE scratch)
      /\ pc' = [pc EXCEPT ![k] = "unstaging"]
      /\ UNCHANGED <<limits, job, reducer, staged, output, seen, crashes>>
  BY DEF RemoveOwnedScratch, GoTo
<1>2. ScratchOwner(k) /\ StagingOwner(k) /\ Counting(k)
  BY Fields
<1>3. job[k].owned <=> scratch = k
  BY <1>1, <1>2 DEF ScratchOwner
<1>4. /\ pc' \in [Jobs -> Places] /\ pc'[k] = "unstaging"
      /\ \A j \in Jobs \ {k} : pc'[j] = pc[j] /\ (scratch = j <=> scratch' = j)
      /\ scratch' # k
  BY <1>1, <1>3, Typed, Constants DEF Places
<1>5. ScratchOwner(k)'
  BY <1>4 DEF ScratchOwner, Opened, Working
<1>6. StagingOwner(k)'
  BY <1>1, <1>2, <1>4 DEF StagingOwner, File, Opened, Working
<1>7. Counting(k)' /\ Writing(k)'
  BY <1>1, <1>2, <1>4 DEF Counting, Writing, Opened
<1>8. /\ scratch' \in Jobs \cup {NoJob} /\ crashes' \in 0..MaxCrashes
      /\ staged' \in [1..Attempts -> Reports]
  BY <1>1 DEF Inv, TypeOK
<1> QED
  BY <1>1, <1>4, <1>5, <1>6, <1>7, <1>8, Typed, FileStep

\* And the staging file it created, and no other.
LEMMA RemoveStagingInv == ASSUME Inv, NEW k \in Jobs, RemoveStaging(k) PROVE Inv'
<1> DEFINE n == job[k].staging
<1>1. /\ pc[k] = "unstaging" /\ pc' = [pc EXCEPT ![k] = "returned"]
      /\ staged' = (IF n # 0 THEN [staged EXCEPT ![n] = NoReport] ELSE staged)
      /\ UNCHANGED <<limits, job, reducer, scratch, output, seen, crashes>>
  BY DEF RemoveStaging, StagingToRemove, GoTo
<1>2. job[k] \in Locals /\ ScratchOwner(k) /\ StagingOwner(k)
  BY Fields
<1>3. /\ pc' \in [Jobs -> Places] /\ pc'[k] = "returned"
      /\ \A j \in Jobs \ {k} : pc'[j] = pc[j]
  BY <1>1, Typed DEF Places
<1>4. staged \in [1..Attempts -> Reports] /\ n \in 0..Attempts
  BY <1>2 DEF Inv, TypeOK, Locals
<1>5. /\ n # 0 => n \in 1..Attempts /\ staged[n].by = k
      /\ \A m \in 1..Attempts : staged[m].by = k => m = n
  BY <1>1, <1>2, <1>4 DEF StagingOwner, File
<1> HIDE DEF n
<1>6. /\ n # 0 => staged'[n].by = NoJob
      /\ \A m \in 1..Attempts : m # n => staged'[m] = staged[m]
      /\ staged' \in [1..Attempts -> Reports]
  <2>1. NoReport.by = NoJob
    BY DEF NoReport
  <2> QED
    BY <1>1, <1>4, <1>5, <2>1, FreshTypes
<1>7. \A j \in Jobs \ {k} : \A m \in 1..Attempts :
        staged[m].by = j \/ staged'[m].by = j => staged'[m] = staged[m]
  BY <1>5, <1>6, Constants
<1>8. ScratchOwner(k)'
  BY <1>1, <1>2, <1>3 DEF ScratchOwner, Opened, Working
<1>9. StagingOwner(k)'
  BY <1>3, <1>5, <1>6, Constants DEF StagingOwner
<1>10. Counting(k)' /\ Writing(k)'
  BY <1>3 DEF Counting, Writing, Opened
<1>11. scratch' \in Jobs \cup {NoJob} /\ crashes' \in 0..MaxCrashes
  BY <1>1 DEF Inv, TypeOK
<1>12. pc[k] # "returned"
  BY <1>1
<1> QED
  BY <1>1, <1>3, <1>6, <1>7, <1>8, <1>9, <1>10, <1>11, <1>12, Typed, FileStep

LEMMA CrashInv == ASSUME Inv, NEW k \in Jobs, Crash(k) PROVE Inv'
<1>1. /\ pc[k] # "returned" /\ crashes < MaxCrashes /\ crashes' = crashes + 1
      /\ pc' = [pc EXCEPT ![k] = "dead"] /\ job' = [job EXCEPT ![k] = NewJob]
      /\ reducer' = [reducer EXCEPT ![k] = NewReducer]
      /\ seen' = [seen EXCEPT ![k] = NothingSeen]
      /\ UNCHANGED <<limits, scratch, staged, output>>
  BY DEF Crash, GoTo
<1>2. /\ pc' \in [Jobs -> Places] /\ job' \in [Jobs -> Locals]
      /\ reducer' \in [Jobs -> Reducers] /\ seen' \in [Jobs -> Histories]
      /\ \A j \in Jobs \ {k} :
            pc'[j] = pc[j] /\ job'[j] = job[j] /\ reducer'[j] = reducer[j] /\ seen'[j] = seen[j]
      /\ pc'[k] = "dead"
  BY <1>1, Typed, FreshTypes DEF Places
<1>3. ScratchOwner(k)' /\ StagingOwner(k)' /\ Counting(k)' /\ Writing(k)'
  BY <1>2 DEF ScratchOwner, StagingOwner, Counting, Writing, Opened, Working
<1>4. /\ scratch' \in Jobs \cup {NoJob} /\ crashes' \in 0..MaxCrashes
      /\ staged' \in [1..Attempts -> Reports]
  BY <1>1, Constants DEF Inv, TypeOK
<1> QED
  BY <1>1, <1>2, <1>3, <1>4, FileStep

LEMMA StutterInv == ASSUME Inv, UNCHANGED vars PROVE Inv'
<1>1. UNCHANGED <<limits, pc, job, reducer, scratch, staged, output, seen, crashes>>
  BY DEF vars
<1>2. TypeOK' /\ Shown'
  BY <1>1 DEF Inv, TypeOK, Shown, Rendered
<1>3. ASSUME NEW j \in Jobs PROVE ScratchOwner(j)' /\ StagingOwner(j)' /\ Counting(j)' /\ Writing(j)'
  BY <1>1, OtherJob
<1> QED
  BY <1>2, <1>3 DEF Inv

\* Every other step is a failure.
LEMMA ErrorInv ==
    ASSUME Inv, NEW k \in Jobs,
           \/ ReadOverLimit(k) \/ FinalizeRefused(k) \/ EmitRefused(k) \/ FinishRefused(k)
           \/ PublishFails(k) \/ Fault(k)
    PROVE  Inv'
<1>1. Fail(k) /\ FilesUnchanged /\ pc[k] \in Opened \cup {"publishing"}
  BY DEF ReadOverLimit, FinalizeRefused, EmitRefused, FinishRefused, PublishFails, Fault, Opened
<1> QED
  BY <1>1, FailInv

LEMMA NextInv == ASSUME Inv, [Next]_vars PROVE Inv'
<1>1. ASSUME NEW k \in Jobs, Read(k) PROVE Inv'
  BY <1>1, OpenReducerInv, OpenRefusedInv, ReadRowInv, ReadFilteredInv, ErrorInv, AddMetricInv,
     AddFlushFailsInv, ReadEndInv DEF Read
<1>2. ASSUME NEW k \in Jobs, Write(k) PROVE Inv'
  BY <1>2, OpenStagingInv, FinalizeInv, ErrorInv, EmitEntryInv, FinishReportInv,
     RemoveScratchInv, PublishInv DEF Write
<1>3. ASSUME NEW k \in Jobs, End(k) PROVE Inv'
  BY <1>3, ErrorInv, RemoveOwnedScratchInv, RemoveStagingInv, CrashInv DEF End
<1>4. CASE Idle \/ UNCHANGED vars
  BY <1>4, StutterInv DEF Idle
<1> QED
  BY <1>1, <1>2, <1>3, <1>4 DEF Next

-----------------------------------------------------------------------------
(* What holds in every state *)

\* The inductive invariant holds in every behavior.
THEOREM ReportInvariant == Spec => []Inv
<1>1. Init => Inv
  BY InitInv
<1>2. Inv /\ [Next]_vars => Inv'
  BY NextInv
<1> QED
  BY <1>1, <1>2, PTL DEF Spec

\* Type correctness of the report and its jobs.
THEOREM TypeCorrect == Spec => []TypeOK
<1>1. Inv => TypeOK
  BY DEF Inv
<1> QED
  BY <1>1, ReportInvariant, PTL

\* Two processes given the same scratch path never both use it: the reducer that is open
\* is the one that created the file (milena_grouped_aggregate_create refuses a spill that exists).
THEOREM ScratchIsExclusive == Spec => []ScratchExclusive
<1>1. Inv => ScratchExclusive
  BY DEF Inv, ScratchOwner, ScratchExclusive
<1> QED
  BY <1>1, ReportInvariant, PTL

\* However a call ends short of the death of its process, spill_finish has removed the
\* scratch and the staging file it had created.
THEOREM CallLeavesNothing == Spec => []NothingLeft
<1>1. Inv => NothingLeft
  BY DEF Inv, ScratchOwner, StagingOwner, NothingLeft, Working, Opened
<1> QED
  BY <1>1, ReportInvariant, PTL

\* The bytes the emitter added up are those of the published report, which is within the
\* limits its caller gave.
THEOREM LimitsAlwaysHold == Spec => []LimitsHold
<1>1. Inv => LimitsHold
  BY DEF Inv, Shown, LimitsHold
<1> QED
  BY <1>1, ReportInvariant, PTL

\* The published report has every group of the rows its job read, with all the metrics
\* and all the rows, in key order.
THEOREM PublishedWhole == Spec => []OutputWhole
<1>1. ASSUME Inv, output # NoReport PROVE OutputWhole
  <2> DEFINE j == output.by
             es == output.entries
             s == seen[output.by]
  <2>1. /\ j \in Jobs /\ output.closed /\ Faithful(es, s) /\ Complete(es, s)
        /\ output.groups = Cardinality(GroupsOf(es))
        /\ output.rows = Cardinality(RowsOf(s))
    BY <1>1 DEF Inv, Shown
  <2>2. es \in Seq(EntryRecords)
    BY <1>1 DEF Inv, TypeOK, Reports, EntryRecords
  <2>3. Len(es) \in Nat /\ \A i \in 1..Len(es) : es[i].key \in Entries
    BY <2>2, GroupsCounted
  <2> HIDE DEF es, s
  <2>4. Keys(es) = {e \in Entries : s[e[1]] > 0}
    BY <2>1, <2>3 DEF Keys, Faithful, Complete
  <2>5. GroupsOf(es) = {g \in Groups : s[g] > 0}
    <3>1. ASSUME NEW g \in Groups, s[g] > 0 PROVE g \in GroupsOf(es)
      <4>1. <<g, 1>> \in Entries
        BY Constants DEF Entries
      <4>2. PICK i \in 1..Len(es) : es[i].key = <<g, 1>>
        BY <2>4, <3>1, <4>1 DEF Keys
      <4> QED
        BY <4>2 DEF GroupsOf
    <3>2. ASSUME NEW i \in 1..Len(es)
          PROVE  es[i].key[1] \in Groups /\ s[es[i].key[1]] > 0
      BY <2>1, <2>3, EntryOrder DEF Faithful
    <3> QED
      BY <3>1, <3>2 DEF GroupsOf
  <2>6. \A i \in 1..Len(es) : es[i].count = s[es[i].key[1]]
    BY <2>1 DEF Faithful
  <2>7. \A i \in 1..(Len(es) - 1) : Before(es[i].key, es[i + 1].key)
    <3> SUFFICES ASSUME NEW i \in 1..(Len(es) - 1) PROVE Before(es[i].key, es[i + 1].key)
      OBVIOUS
    <3>1. i \in 1..Len(es) /\ i + 1 \in 1..Len(es) /\ i < i + 1
      BY <2>3
    <3> QED
      BY <2>1, <3>1 DEF Faithful
  <2> QED
    BY <2>1, <2>4, <2>5, <2>6, <2>7 DEF OutputWhole, es, s
<1>2. Inv => OutputWhole
  BY <1>1 DEF OutputWhole
<1> QED
  BY <1>2, ReportInvariant, PTL

-----------------------------------------------------------------------------
(* What no step does *)

\* Only these steps touch the scratch or a staging file.
FileSteps(k) ==
    \/ OpenReducer(k) \/ OpenStaging(k) \/ EmitEntry(k) \/ FinishReport(k)
    \/ RemoveScratch(k) \/ Publish(k) \/ RemoveOwnedScratch(k) \/ RemoveStaging(k)

LEMMA FilesOrNot ==
    ASSUME Inv, [Next]_vars
    PROVE  (scratch' = scratch /\ staged' = staged) \/ (\E k \in Jobs : FileSteps(k))
<1>1. ASSUME NEW k \in Jobs, Read(k)
      PROVE  (scratch' = scratch /\ staged' = staged) \/ FileSteps(k)
  BY <1>1 DEF Read, FileSteps, OpenRefused, ReadRow, ReadFiltered, ReadOverLimit, AddMetric,
              AddFlushFails, ReadEnd, FilesUnchanged
<1>2. ASSUME NEW k \in Jobs, Write(k)
      PROVE  (scratch' = scratch /\ staged' = staged) \/ FileSteps(k)
  BY <1>2 DEF Write, FileSteps, Finalize, FinalizeRefused, EmitRefused, FinishRefused,
              PublishFails, FilesUnchanged
<1>3. ASSUME NEW k \in Jobs, End(k)
      PROVE  (scratch' = scratch /\ staged' = staged) \/ FileSteps(k)
  BY <1>3 DEF End, FileSteps, Fault, Crash, FilesUnchanged
<1>4. CASE Idle \/ UNCHANGED vars
  BY <1>4 DEF Idle, vars
<1> QED
  BY <1>1, <1>2, <1>3, <1>4 DEF Next

\* The report file a job has is the only one its steps touch.
LEMMA OwnFileOnly ==
    ASSUME Inv, NEW k \in Jobs, pc[k] \notin {"returned", "dead"},
           \/ staged' = staged
           \/ job[k].staging # 0 /\ \E f : staged' = [staged EXCEPT ![job[k].staging] = f],
           NEW j \in Jobs, j # k, NEW n \in 1..Attempts, staged[n].by = j
    PROVE  staged'[n] = staged[n]
<1>1. CASE staged' = staged
  BY <1>1
<1>2. CASE job[k].staging # 0 /\ \E f : staged' = [staged EXCEPT ![job[k].staging] = f]
  <2>1. /\ job[k].staging \in 1..Attempts /\ staged[job[k].staging].by = k
        /\ staged \in [1..Attempts -> Reports]
    BY <1>2, OwnStaging
  <2>2. n # job[k].staging
    BY <2>1
  <2> QED
    BY <1>2, <2>1, <2>2
<1> QED
  BY <1>1, <1>2

\* What a step of k does to the files of the others, and to its own when nothing
\* shows that it moved.
Touches(k) ==
    /\ pc'[k] # pc[k] \/ job'[k] # job[k]
    /\ \A j \in Jobs \ {k} :
        /\ scratch = j => scratch' = j
        /\ \A n \in 1..Attempts : staged[n].by = j => staged'[n] = staged[n]

LEMMA OpeningTouches ==
    ASSUME Inv, NEW k \in Jobs, OpenReducer(k) \/ OpenStaging(k)
    PROVE  Touches(k)
<1>1. pc \in [Jobs -> Places] /\ staged \in [1..Attempts -> Reports] /\ NoJob \notin Jobs
  BY Typed, Constants DEF Inv, TypeOK
<1>2. CASE OpenReducer(k)
  BY <1>1, <1>2 DEF OpenReducer, ScratchFree, GoTo, Touches
<1>3. CASE OpenStaging(k)
  <2>1. FirstFree \in FreeNames
    <3>1. FreeNames \subseteq Nat /\ FreeNames # {}
      BY <1>3 DEF FreeNames, OpenStaging
    <3>2. \E x \in FreeNames : \A y \in FreeNames : x <= y
      BY <3>1, LeastElement
    <3> QED
      BY <3>2 DEF FirstFree
  <2>2. FirstFree \in 1..Attempts /\ staged[FirstFree].by = NoJob
    BY <2>1 DEF FreeNames, NoReport
  <2>3. \A n \in 1..Attempts : n # FirstFree => staged'[n] = staged[n]
    BY <1>1, <1>3, <2>2 DEF OpenStaging
  <2>4. scratch' = scratch /\ pc'[k] # pc[k]
    BY <1>1, <1>3 DEF OpenStaging, GoTo
  <2> QED
    BY <1>1, <2>2, <2>3, <2>4 DEF Touches
<1> QED
  BY <1>2, <1>3

LEMMA WritingTouches ==
    ASSUME Inv, NEW k \in Jobs, EmitEntry(k) \/ FinishReport(k) \/ Publish(k) \/ RemoveStaging(k)
    PROVE  Touches(k)
<1>1. /\ pc \in [Jobs -> Places] /\ job[k] \in Locals /\ job \in [Jobs -> Locals]
      /\ staged \in [1..Attempts -> Reports] /\ StagingOwner(k)
  BY Typed, Fields DEF Inv, TypeOK
<1>2. pc[k] \notin {"returned", "dead"} /\ scratch' = scratch
  BY DEF EmitEntry, FinishReport, Publish, RemoveStaging
<1>3. \/ staged' = staged
      \/ job[k].staging # 0 /\ \E f : staged' = [staged EXCEPT ![job[k].staging] = f]
  <2>1. CASE EmitEntry(k)
    BY <1>1, <2>1 DEF EmitEntry, StagingOwner
  <2>2. CASE FinishReport(k)
    BY <1>1, <2>2 DEF FinishReport, StagingOwner
  <2>3. CASE Publish(k)
    BY <1>1, <2>3 DEF Publish, StagingOwner
  <2>4. CASE RemoveStaging(k)
    BY <1>1, <2>4 DEF RemoveStaging, StagingToRemove
  <2> QED
    BY <2>1, <2>2, <2>3, <2>4
<1>4. pc'[k] # pc[k] \/ job'[k] # job[k]
  <2>1. CASE EmitEntry(k)
    <3> DEFINE e == NextEntry(k)
    <3>1. /\ InOrder(k, e) /\ job'[k].key = e[1] /\ job'[k].next = e[2] + 1
      BY <1>1, <2>1 DEF EmitEntry, Locals
    <3>2. e \in Entries
      <4>1. Waiting(k) \subseteq Entries /\ Waiting(k) # {}
        BY <2>1 DEF Waiting, EmitEntry
      <4>2. \E x \in Waiting(k) : \A d \in Waiting(k) \ {x} : Before(x, d)
        BY <4>1, NextIsFirst
      <4> QED
        BY <4>1, <4>2 DEF NextEntry
    <3>3. e[2] \in Nat /\ e[1] # 0
      BY <3>2, EntryOrder
    <3> HIDE DEF e
    <3>4. job'[k] = job[k] => job[k].key = e[1] /\ job[k].next = e[2] + 1
      BY <3>1
    <3> QED
      BY <3>1, <3>3, <3>4 DEF InOrder, SameGroup
  <2>2. CASE FinishReport(k)
    BY <1>1, <2>2 DEF FinishReport, GoTo
  <2>3. CASE Publish(k)
    BY <1>1, <2>3 DEF Publish, GoTo
  <2>4. CASE RemoveStaging(k)
    BY <1>1, <2>4 DEF RemoveStaging, GoTo
  <2> QED
    BY <2>1, <2>2, <2>3, <2>4
<1>5. \A j \in Jobs \ {k} : \A n \in 1..Attempts : staged[n].by = j => staged'[n] = staged[n]
  BY <1>2, <1>3, OwnFileOnly
<1> QED
  BY <1>2, <1>4, <1>5 DEF Touches

LEMMA RemovalTouches ==
    ASSUME Inv, NEW k \in Jobs, RemoveScratch(k) \/ RemoveOwnedScratch(k)
    PROVE  Touches(k)
<1>1. pc \in [Jobs -> Places] /\ ScratchOwner(k)
  BY Typed, Fields
<1>2. /\ staged' = staged /\ pc'[k] # pc[k]
      /\ scratch' = scratch \/ scratch = k
  BY <1>1 DEF RemoveScratch, RemoveOwnedScratch, GoTo, ScratchOwner, Opened
<1> QED
  BY <1>2 DEF Touches

\* No job removes or changes a scratch or a staging file of another, alive or dead.
THEOREM OthersFilesAreSafe == Spec => OthersFilesStay
<1> DEFINE Stays == \A j \in Jobs : pc'[j] = pc[j] /\ job'[j] = job[j] =>
                        /\ scratch = j => scratch' = j
                        /\ \A n \in 1..Attempts : staged[n].by = j => staged'[n] = staged[n]
<1>1. ASSUME Inv, [Next]_vars PROVE Stays
  <2>1. CASE scratch' = scratch /\ staged' = staged
    BY <2>1
  <2>2. ASSUME NEW k \in Jobs, FileSteps(k) PROVE Stays
    <3>1. Touches(k)
      BY <1>1, <2>2, OpeningTouches, WritingTouches, RemovalTouches DEF FileSteps
    <3> QED
      BY <3>1 DEF Touches
  <2> QED
    BY <1>1, <2>1, <2>2, FilesOrNot
<1>2. Inv /\ [Next]_vars => [Stays]_vars
  BY <1>1
<1> QED
  BY <1>2, ReportInvariant, PTL DEF Spec, OthersFilesStay

\* A call returns OK exactly when it has replaced the output with its own report.
THEOREM PublishesOrFails == Spec => OkIffPublished
<1> DEFINE Exact == \A j \in Jobs : (pc[j] # "returned" /\ pc'[j] = "returned") =>
                        IF job'[j].status = "ok"
                        THEN output'.by = j /\ output' = File(j)
                        ELSE output' = output
<1>1. ASSUME Inv, [Next]_vars, NEW j \in Jobs, pc[j] # "returned", pc'[j] = "returned"
      PROVE  Publish(j) \/ RemoveStaging(j)
  <2>1. pc \in [Jobs -> Places]
    BY <1>1, Typed
  <2>2. ASSUME NEW k \in Jobs, Read(k) PROVE FALSE
    BY <1>1, <2>1, <2>2 DEF Read, OpenReducer, OpenRefused, ReadRow, ReadFiltered, ReadOverLimit,
       AddMetric, AddFlushFails, ReadEnd, Fail, GoTo, FilesUnchanged
  <2>3. ASSUME NEW k \in Jobs, Write(k) PROVE Publish(j)
    BY <1>1, <2>1, <2>3 DEF Write, OpenStaging, Finalize, FinalizeRefused, EmitEntry, EmitRefused,
       FinishReport, FinishRefused, RemoveScratch, Publish, PublishFails, Fail, GoTo
  <2>4. ASSUME NEW k \in Jobs, End(k) PROVE RemoveStaging(j)
    BY <1>1, <2>1, <2>4 DEF End, Fault, RemoveOwnedScratch, RemoveStaging, Crash, Fail, GoTo
  <2>5. CASE Idle \/ UNCHANGED vars
    BY <1>1, <2>5 DEF Idle, vars
  <2> QED
    BY <1>1, <2>2, <2>3, <2>4, <2>5 DEF Next
<1>2. ASSUME Inv, NEW j \in Jobs, Publish(j)
      PROVE  job'[j].status = "ok" /\ output' = File(j) /\ output'.by = j
  <2>1. job \in [Jobs -> Locals] /\ StagingOwner(j) /\ pc[j] = "publishing"
    BY <1>2, Typed, Fields DEF Publish
  <2>2. File(j).by = j
    BY <2>1 DEF StagingOwner
  <2> QED
    BY <1>2, <2>1, <2>2 DEF Publish, NewJob
<1>3. ASSUME Inv, NEW j \in Jobs, RemoveStaging(j)
      PROVE  job'[j].status # "ok" /\ output' = output
  <2>1. Counting(j)
    BY <1>3, Fields
  <2> QED
    BY <1>3, <2>1 DEF RemoveStaging, Counting
<1>4. Inv /\ [Next]_vars => [Exact]_vars
  BY <1>1, <1>2, <1>3
<1> QED
  BY <1>4, ReportInvariant, PTL DEF Spec, OkIffPublished

=============================================================================
