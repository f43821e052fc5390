------------------------------- MODULE DataReport -------------------------------
(***************************************************************************)
(* Running a data plan: the report of one column of a CSV file, written    *)
(* beside its destination and renamed over it.  The process may die at any *)
(* step; only the files stay.                                              *)
(*                                                                         *)
(* A path is the sequence of its parts, "/" first when it is absolute.     *)
(***************************************************************************)
EXTENDS DataPlan

CONSTANTS
  WorkingDirectory,
  Role            \* what the schema of a run says of its column

VARIABLES
  files,          \* places -> the file there: two places may be one file
  contents,       \* files -> what they hold
  job             \* the run under way

reportVars == <<files, contents, job>>

Csv(chars) == [kind |-> "csv", chars |-> chars, report |-> <<>>]
Report(name, cell, valid) == [kind |-> "report", chars |-> <<>>, report |-> <<name, cell, valid>>]
Fragment == [kind |-> "fragment", chars |-> <<>>, report |-> <<>>]

\* The last field is history: the system would not remove the temporary file.
Idle == [stage |-> "idle", status |-> "ok", output |-> <<>>, temporary |-> <<>>, report |-> Fragment,
         refused |-> FALSE]

-----------------------------------------------------------------------------
(* Paths.                                                                   *)

IsAbsolute(path) == path[1] = "/"

LexicalPart(done, part) ==
  CASE part = "."                                         -> done
    [] part = ".." /\ done = <<"/">>                      -> done
    [] part = ".." /\ done # <<>> /\ Last(done) # ".."    -> Front(done)
    [] OTHER                                              -> Append(done, part)

LexicalPath(path) ==
  LET done == FoldLeft(LexicalPart, <<>>, path) IN IF done = <<>> THEN <<".">> ELSE done

\* Where the system finds a path.
Place(path) == LexicalPath(IF IsAbsolute(path) THEN path ELSE WorkingDirectory \o path)
Exists(path) == Place(path) \in DOMAIN files

\* The directory of the program's source, if it has one.
Base(script) == IF Len(script) < 2 THEN <<".">> ELSE Front(script)

\* An input may be in the working directory; an output is beside the source.
Resolved(requested, script, output) ==
  IF IsAbsolute(requested) \/ (~output /\ Exists(requested)) THEN requested
  ELSE Base(script) \o requested

SameFile(input, output) == Exists(output) /\ files[Place(input)] = files[Place(output)]

-----------------------------------------------------------------------------
(* From the block to the summary, before anything is written.               *)

Least32(encoded, requested) == IF requested = 0 \/ requested > encoded THEN encoded ELSE requested

RunLimits(caps, requested) ==
  [bounded |-> TRUE] @@ [cap \in DOMAIN caps |-> Least32(caps[cap], requested[cap])]

FromVerifier(status) == IF status \in {"ok", "limit", "type"} THEN status ELSE "data"

PathStatus(input, output) ==
  IF ~Exists(input) THEN "io"
  ELSE Must(LexicalPath(input) # LexicalPath(output) /\ ~SameFile(input, output), "argument")

\* A text of the column that is no number ends the run: it would be a null.
ColumnStatus(dataset, name) ==
  IF ~HasHeader(dataset, name) THEN "data"
  ELSE Must(\A text \in ToSet(DatasetColumn(dataset, HeaderIndex(dataset, name))) :
              text \in DOMAIN NumberOf \cup {EmptyText}, "type")

Stamped(table, source) == [table EXCEPT !.metadata = SetMetadata(@, "milena.hir.dataset.path", source)]

SummaryOf(dataset, block) ==
  Then(FromDataset(dataset, block.strings[3] :> [kind |-> "numeric", role |-> Role]), LAMBDA table :
    GroupBy(Stamped(table, block.strings[1]), <<>>,
      <<[column |-> block.strings[3], operation |-> block.operation, name |-> block.strings[4]]>>))

Reported(summary, name) ==
  IF summary.status # "ok" THEN [status |-> summary.status, report |-> Fragment]
  ELSE IF summary.table.rows # 1 THEN [status |-> "internal", report |-> Fragment]
  ELSE [status |-> "ok",
        report |-> Report(name, summary.table.columns[1].cells[1], summary.table.columns[1].valid[1])]

SummaryOfLoad(load, block) ==
  IF load.status # "ok" THEN [status |-> load.status, report |-> Fragment]
  ELSE IF ColumnStatus(load.dataset, block.strings[3]) # "ok"
    THEN [status |-> ColumnStatus(load.dataset, block.strings[3]), report |-> Fragment]
  ELSE Reported(SummaryOf(load.dataset, block), block.strings[4])

Summary(input, block, requested) ==
  SummaryOfLoad(LoadCsv(contents[files[Place(input)]].chars, RunLimits(block.caps, requested)), block)

Ended(status, output) == [Idle EXCEPT !.stage = "ended", !.status = status, !.output = output]

JobOf(status, output, summary) ==
  IF status # "ok" THEN Ended(status, output)
  ELSE IF summary.status # "ok" THEN Ended(summary.status, output)
  ELSE [Idle EXCEPT !.stage = "summarized", !.output = output, !.report = summary.report]

Begin(request) ==
  LET block == request.block
      input == Resolved(block.strings[1], request.script, FALSE)
      output == Resolved(block.strings[2], request.script, TRUE)
      verified == FromVerifier(VerifyData(block))
  IN /\ job.stage \in {"idle", "ended"}
     /\ job' = IF verified # "ok" THEN Ended(verified, <<>>)
               ELSE JobOf(PathStatus(input, output), Place(output),
                          Summary(input, block, request.limits))
     /\ UNCHANGED <<files, contents>>

-----------------------------------------------------------------------------
(* The steps on files.                                                      *)

FreeFile == Min(1..(Cardinality(DOMAIN contents) + 1) \ DOMAIN contents)

TemporaryName(output) ==
  Append(Front(output),
         Last(output) \o ".milena-tmp-" \o ToString(Cardinality(DOMAIN files)))

CreateTemporary ==
  /\ job.stage = "summarized"
  /\ LET name == TemporaryName(job.output) IN
     /\ name \notin DOMAIN files
     /\ files' = name :> FreeFile @@ files
     /\ contents' = FreeFile :> Fragment @@ contents
     /\ job' = [job EXCEPT !.stage = "created", !.temporary = name]

CreateFails ==
  /\ job.stage = "summarized"
  /\ job' = Ended("io", job.output)
  /\ UNCHANGED <<files, contents>>

\* The descriptor is closed and the report written by name.
WriteReport ==
  /\ job.stage = "created"
  /\ contents' = [contents EXCEPT ![files[job.temporary]] = job.report]
  /\ job' = [job EXCEPT !.stage = "written"]
  /\ UNCHANGED files

WriteFails ==
  /\ job.stage = "created"
  /\ job' = [job EXCEPT !.stage = "failed", !.status = "io"]
  /\ UNCHANGED <<files, contents>>

Publish ==
  /\ job.stage = "written"
  /\ files' = job.output :> files[job.temporary]
                @@ [place \in DOMAIN files \ {job.temporary} |-> files[place]]
  /\ job' = [job EXCEPT !.stage = "ended"]
  /\ UNCHANGED contents

PublishFails ==
  /\ job.stage = "written"
  /\ job' = [job EXCEPT !.stage = "failed", !.status = "io"]
  /\ UNCHANGED <<files, contents>>

RemoveTemporary ==
  /\ job.stage = "failed"
  /\ files' = [place \in DOMAIN files \ {job.temporary} |-> files[place]]
  /\ job' = [job EXCEPT !.stage = "ended"]
  /\ UNCHANGED contents

\* The status of the failure is the one that is told.
RemoveFails ==
  /\ job.stage = "failed"
  /\ job' = [job EXCEPT !.stage = "ended", !.refused = TRUE]
  /\ UNCHANGED <<files, contents>>

Crash ==
  /\ job.stage \in {"summarized", "created", "written", "failed"}
  /\ job' = [Idle EXCEPT !.temporary = job.temporary]
  /\ UNCHANGED <<files, contents>>

ReportStep ==
  \/ CreateTemporary \/ CreateFails \/ WriteReport \/ WriteFails
  \/ Publish \/ PublishFails \/ RemoveTemporary \/ RemoveFails \/ Crash
=================================================================================
