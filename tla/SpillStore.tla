----------------------------- MODULE SpillStore -----------------------------
(***************************************************************************)
(* The spill file of src/src/spill_store.c: an append-only file of framed  *)
(* records (16-byte header, payload, 4-byte checksum) that a process       *)
(* writes through one MilenaSpillStore handle, reads through one           *)
(* MilenaSpillReader, and that recovery cuts back to its longest valid     *)
(* prefix by writing a sibling file and renaming it over the original.     *)
(*                                                                         *)
(* The model keeps what a crash can tell apart.  A path names an inode; an *)
(* inode holds complete records, each with the offset its frame ends at,   *)
(* and the bytes of at most one incomplete frame behind them.  The API     *)
(* calls that take several file-system steps (recover, append) are split   *)
(* at those steps, so that the process may die between any two of them.    *)
(* A call that returns an error and changes nothing is a stuttering step.  *)
(***************************************************************************)
EXTENDS Integers, Sequences, FiniteSets

CONSTANTS
    Records,        \* payloads
    PayloadLen,     \* their lengths in bytes
    Configs,        \* the (quota, max) limits callers open the path with
    CutPoints,      \* how many bytes of a frame an interrupted write may leave
    MaxInodes,      \* bound: files ever created
    MaxCrashes,     \* bound: process deaths
    NoRecord        \* no record is being written

\* MILENA_SPILL_HEADER_SIZE and MILENA_SPILL_TRAILER_SIZE.
Header == 16
Trailer == 4

RecordBytes(r) == Header + PayloadLen[r] + Trailer

\* Payload lengths are sizes.  The limits are those recover, open and
\* create_exclusive accept; smaller ones are refused before any file is touched.
ASSUME RecordsAssumption ==
    /\ PayloadLen \in [Records -> Nat]
    /\ NoRecord \notin Records

ASSUME ConfigsAssumption ==
    \A c \in Configs :
        /\ c \in [quota : Nat, max : Nat]
        /\ c.quota >= Header + Trailer
        /\ c.max > 0

ASSUME BoundsAssumption ==
    /\ CutPoints \subseteq Nat \ {0}
    /\ MaxInodes \in Nat \ {0}
    /\ MaxCrashes \in Nat

VARIABLES
    disk,       \* inode -> its contents
    path,       \* the inode the path names, 0 when there is no such file
    inodes,     \* how many inodes have been allocated
    store,      \* the MilenaSpillStore handle
    reader,     \* the MilenaSpillReader handle
    call,       \* the call in progress: what it does and where it stands
    acked,      \* history: the <<position, payload>> pairs append returned OK for
    crashes     \* history: process deaths so far

vars == <<disk, path, inodes, store, reader, call, acked, crashes>>

-----------------------------------------------------------------------------
(* The contents of a file *)

NoLen == -1     \* the incomplete frame ends before its length field does

Empty == [recs |-> << >>, tail |-> 0, decl |-> NoLen]

\* (mutant) The copy loses the last record of the prefix.
Prefix_OffByOne(c, k) ==
    [recs |-> SubSeq(c.recs, 1, k - 1), tail |-> 0, decl |-> NoLen]

\* Bytes of the valid prefix that ends with record k.
EndOf(c, k) == IF k = 0 THEN 0 ELSE c.recs[k].end
ValidBytes(c) == EndOf(c, Len(c.recs))
FileBytes(c) == ValidBytes(c) + c.tail

\* The payloads of the complete records.
Values(c) == [i \in 1..Len(c.recs) |-> c.recs[i].val]

\* A whole frame written at the end.  Behind an incomplete frame it is garbage.
WriteFrame(c, r) ==
    IF c.tail = 0
    THEN [c EXCEPT !.recs = Append(@, [val |-> r, end |-> ValidBytes(c) + RecordBytes(r)])]
    ELSE [c EXCEPT !.tail = @ + RecordBytes(r)]

\* The first n bytes of a frame written at the end.
TearFrame(c, r, n) ==
    IF c.tail = 0
    THEN [c EXCEPT !.tail = n, !.decl = IF n >= Header THEN PayloadLen[r] ELSE NoLen]
    ELSE [c EXCEPT !.tail = @ + n]

\* What an interrupted write of r may have left: nothing, or a part of the frame.
Cuts(r) == {0} \cup {n \in CutPoints : n < RecordBytes(r)}
Interrupted(c, r, n) == IF n = 0 THEN c ELSE TearFrame(c, r, n)

\* The incomplete frame completed by bytes that were still buffered.
Complete(c, r) == WriteFrame([c EXCEPT !.tail = 0, !.decl = NoLen], r)

\* The copy recovery makes of the first k records.
Prefix(c, k) == [recs |-> SubSeq(c.recs, 1, k), tail |-> 0, decl |-> NoLen]

-----------------------------------------------------------------------------
(* Handles and calls *)

ClosedStore == [ino |-> 0, quota |-> 0, max |-> 0, bytes_used |-> 0,
                record_count |-> 0, failed |-> FALSE, pending |-> NoRecord]

ClosedReader == [ino |-> 0, quota |-> 0, max |-> 0, bytes_read |-> 0,
                 got |-> << >>, status |-> "closed", owed |-> {}]

Idle == [pc |-> "idle", op |-> "none", quota |-> 0, max |-> 0,
         keep |-> 0, rec |-> NoRecord]

Init ==
    /\ disk = [i \in 1..MaxInodes |-> Empty]
    /\ path = 0
    /\ inodes = 0
    /\ store = ClosedStore
    /\ reader = ClosedReader
    /\ call = Idle
    /\ acked = {}
    /\ crashes = 0

Return == call' = Idle

-----------------------------------------------------------------------------
(* milena_spill_store_recover, which open, reader_open and visit run first *)

\* scan_store fails on a file that is valid under larger limits, and on an
\* incomplete frame whose header already declares a payload over the limit.
ScanRejects(c, quota, max) ==
    \/ ValidBytes(c) > quota
    \/ \E i \in 1..Len(c.recs) : PayloadLen[c.recs[i].val] > max
    \/ c.tail > 0 /\ c.decl > max

\* A store handle is not opened twice, nor a reader handle.
StartRecover(op, cfg) ==
    /\ call.pc = "idle"
    /\ op = "open" => store.ino = 0
    /\ op = "reader" => reader.status = "closed"
    /\ call' = [Idle EXCEPT !.pc = "scan", !.op = op,
                            !.quota = cfg.quota, !.max = cfg.max]
    /\ UNCHANGED <<disk, path, inodes, store, reader, acked, crashes>>

RecoverMissing ==
    /\ call.pc = "scan"
    /\ path = 0
    /\ call' = [call EXCEPT !.pc = "recovered"]
    /\ UNCHANGED <<disk, path, inodes, store, reader, acked, crashes>>

RecoverReject ==
    /\ call.pc = "scan"
    /\ path # 0
    /\ ScanRejects(disk[path], call.quota, call.max)
    /\ Return
    /\ UNCHANGED <<disk, path, inodes, store, reader, acked, crashes>>

RecoverClean ==
    /\ call.pc = "scan"
    /\ path # 0
    /\ ~ScanRejects(disk[path], call.quota, call.max)
    /\ disk[path].tail = 0
    /\ call' = [call EXCEPT !.pc = "recovered", !.keep = Len(disk[path].recs)]
    /\ UNCHANGED <<disk, path, inodes, store, reader, acked, crashes>>

\* The valid prefix is copied to a new file beside the original.
CopyPrefix(k) ==
    /\ inodes < MaxInodes
    /\ inodes' = inodes + 1
    /\ disk' = [disk EXCEPT ![inodes + 1] = Prefix(disk[path], k)]
    /\ call' = [call EXCEPT !.pc = "rename", !.keep = k]
    /\ UNCHANGED <<path, store, reader, acked, crashes>>

RecoverCopy ==
    /\ call.pc = "scan"
    /\ path # 0
    /\ ~ScanRejects(disk[path], call.quota, call.max)
    /\ disk[path].tail > 0
    /\ CopyPrefix(Len(disk[path].recs))

\* fread returns part of a header because the read failed: the loop takes the
\* short count for the end of the file and never asks ferror.  k records were
\* read before, and the scan sees none of the rest.
RecoverShortRead(k) ==
    /\ call.pc = "scan"
    /\ path # 0
    /\ k < Len(disk[path].recs)
    /\ EndOf(disk[path], k) <= call.quota
    /\ \A i \in 1..k : PayloadLen[disk[path].recs[i].val] <= call.max
    /\ CopyPrefix(k)

RecoverRename ==
    /\ call.pc = "rename"
    /\ path' = inodes
    /\ call' = [call EXCEPT !.pc = "recovered"]
    /\ UNCHANGED <<disk, inodes, store, reader, acked, crashes>>

\* Any I/O or memory error the code does check: the sibling is removed, the
\* original stays, the call fails.
RecoverFault ==
    /\ call.pc \in {"scan", "rename", "recovered"}
    /\ Return
    /\ UNCHANGED <<disk, path, inodes, store, reader, acked, crashes>>

RecoverReturn ==
    /\ call.pc = "recovered"
    /\ call.op = "recover"
    /\ Return
    /\ UNCHANGED <<disk, path, inodes, store, reader, acked, crashes>>

-----------------------------------------------------------------------------
(* The writer *)

\* (mutant) A reopened store starts counting from zero.
NewStore_FromZero(ino, quota, max, bytes, count) ==
    [ino |-> ino, quota |-> quota, max |-> max, bytes_used |-> 0,
     record_count |-> 0, failed |-> FALSE, pending |-> NoRecord]

NewStore(ino, quota, max, bytes, count) ==
    [ino |-> ino, quota |-> quota, max |-> max, bytes_used |-> bytes,
     record_count |-> count, failed |-> FALSE, pending |-> NoRecord]

\* fopen(path, "ab") after the recovery, which may have to create the file.
FinishOpen ==
    /\ call.pc = "recovered"
    /\ call.op = "open"
    /\ \/ /\ path # 0
          /\ store' = NewStore(path, call.quota, call.max,
                               EndOf(disk[path], call.keep), call.keep)
          /\ UNCHANGED <<path, inodes>>
       \/ /\ path = 0
          /\ inodes < MaxInodes
          /\ inodes' = inodes + 1
          /\ path' = inodes + 1
          /\ store' = NewStore(inodes + 1, call.quota, call.max, 0, 0)
    /\ Return
    /\ UNCHANGED <<disk, reader, acked, crashes>>

\* O_CREAT | O_EXCL: an existing path is an ARGUMENT error.
CreateExclusive(cfg) ==
    /\ call.pc = "idle"
    /\ store.ino = 0
    /\ path = 0
    /\ inodes < MaxInodes
    /\ inodes' = inodes + 1
    /\ path' = inodes + 1
    /\ store' = NewStore(inodes + 1, cfg.quota, cfg.max, 0, 0)
    /\ UNCHANGED <<disk, reader, call, acked, crashes>>

\* (mutant) A failed handle goes on writing.
CanAppend_AfterFailure(r) ==
    /\ store.ino # 0
    /\ PayloadLen[r] <= store.max
    /\ RecordBytes(r) <= store.quota - store.bytes_used

\* (mutant) The quota is compared with the payload alone.
CanAppend_PayloadOnly(r) ==
    /\ store.ino # 0
    /\ ~store.failed
    /\ PayloadLen[r] <= store.max
    /\ PayloadLen[r] <= store.quota - store.bytes_used

CanAppend(r) ==
    /\ store.ino # 0
    /\ ~store.failed
    /\ PayloadLen[r] <= store.max
    /\ store.bytes_used <= store.quota
    /\ RecordBytes(r) <= store.quota - store.bytes_used

\* append passes its checks and hands the frame to stdio.
AppendStart(r) ==
    /\ call.pc = "idle"
    /\ CanAppend(r)
    /\ call' = [Idle EXCEPT !.pc = "write", !.op = "append", !.rec = r]
    /\ UNCHANGED <<disk, path, inodes, store, reader, acked, crashes>>

\* fflush succeeds: the whole frame is in the file.
AppendFlush ==
    /\ call.pc = "write"
    /\ disk' = [disk EXCEPT ![store.ino] = WriteFrame(@, call.rec)]
    /\ call' = [call EXCEPT !.pc = "count"]
    /\ UNCHANGED <<path, inodes, store, reader, acked, crashes>>

\* The counters are updated and append returns OK.
AppendReturn ==
    /\ call.pc = "count"
    /\ store' = [store EXCEPT !.bytes_used = @ + RecordBytes(call.rec),
                              !.record_count = @ + 1]
    /\ acked' = acked \cup {<<store.record_count + 1, call.rec>>}
    /\ Return
    /\ UNCHANGED <<disk, path, inodes, reader, crashes>>

\* fwrite or fflush fails with n bytes of the frame in the file.
AppendFault(n) ==
    /\ call.pc = "write"
    /\ n \in Cuts(call.rec)
    /\ disk' = [disk EXCEPT ![store.ino] = Interrupted(@, call.rec, n)]
    /\ store' = [store EXCEPT !.failed = TRUE, !.pending = call.rec]
    /\ Return
    /\ UNCHANGED <<path, inodes, reader, acked, crashes>>

\* fclose.  After a failed append some C libraries still hold the rest of the
\* frame and write it now.
CloseStore ==
    /\ call.pc = "idle"
    /\ store.ino # 0
    /\ store' = ClosedStore
    /\ \/ UNCHANGED disk
       \/ /\ store.failed
          /\ disk' = [disk EXCEPT ![store.ino] = Complete(@, store.pending)]
    /\ UNCHANGED <<path, inodes, reader, call, acked, crashes>>

-----------------------------------------------------------------------------
(* The reader *)

\* fopen(path, "rb") after the recovery; a missing file is an I/O error.
FinishReaderOpen ==
    /\ call.pc = "recovered"
    /\ call.op = "reader"
    /\ path # 0
    /\ reader' = [ClosedReader EXCEPT !.ino = path, !.quota = call.quota,
                     !.max = call.max, !.status = "open", !.owed = acked]
    /\ Return
    /\ UNCHANGED <<disk, path, inodes, store, acked, crashes>>

ReadFile == disk[reader.ino]

\* The frame the reader stands at passes its checks.
ReadRecord ==
    LET k == Len(reader.got) + 1 IN
    /\ call.pc = "idle"
    /\ reader.status = "open"
    /\ k <= Len(ReadFile.recs)
    /\ PayloadLen[ReadFile.recs[k].val] <= reader.max
    /\ reader.bytes_read + RecordBytes(ReadFile.recs[k].val) <= reader.quota
    /\ reader' = [reader EXCEPT !.got = Append(@, ReadFile.recs[k].val),
                                !.bytes_read = @ + RecordBytes(ReadFile.recs[k].val)]
    /\ UNCHANGED <<disk, path, inodes, store, call, acked, crashes>>

\* The frame is over a limit or incomplete, or the read fails.
ReadError ==
    /\ call.pc = "idle"
    /\ reader.status = "open"
    /\ reader' = [reader EXCEPT !.status = "error"]
    /\ UNCHANGED <<disk, path, inodes, store, call, acked, crashes>>

\* (mutant) A short read is taken for the end of the file.
ReadEnd_AtShortRead ==
    /\ call.pc = "idle"
    /\ reader.status = "open"
    /\ reader' = [reader EXCEPT !.status = "end"]
    /\ UNCHANGED <<disk, path, inodes, store, call, acked, crashes>>

\* fread returns nothing at a frame boundary: OK and no record.
ReadEnd ==
    /\ call.pc = "idle"
    /\ reader.status = "open"
    /\ Len(reader.got) = Len(ReadFile.recs)
    /\ ReadFile.tail = 0
    /\ reader' = [reader EXCEPT !.status = "end"]
    /\ UNCHANGED <<disk, path, inodes, store, call, acked, crashes>>

CloseReader ==
    /\ call.pc = "idle"
    /\ reader.status # "closed"
    /\ reader' = ClosedReader
    /\ UNCHANGED <<disk, path, inodes, store, call, acked, crashes>>

-----------------------------------------------------------------------------
\* The process dies: handles are gone, n bytes of a frame being written stay.
Crash(n) ==
    /\ crashes < MaxCrashes
    /\ crashes' = crashes + 1
    /\ IF call.pc = "write"
       THEN /\ n \in Cuts(call.rec)
            /\ disk' = [disk EXCEPT ![store.ino] = Interrupted(@, call.rec, n)]
       ELSE /\ n = 0
            /\ UNCHANGED disk
    /\ store' = ClosedStore
    /\ reader' = ClosedReader
    /\ Return
    /\ UNCHANGED <<path, inodes, acked>>

Recover ==
    \/ \E op \in {"open", "reader", "recover"}, cfg \in Configs : StartRecover(op, cfg)
    \/ RecoverMissing
    \/ RecoverReject
    \/ RecoverClean
    \/ RecoverCopy
    \/ RecoverRename
    \/ RecoverFault
    \/ RecoverReturn

Write ==
    \/ FinishOpen
    \/ \E cfg \in Configs : CreateExclusive(cfg)
    \/ \E r \in Records : AppendStart(r)
    \/ AppendFlush
    \/ AppendReturn
    \/ \E n \in {0} \cup CutPoints : AppendFault(n)
    \/ CloseStore

Read == FinishReaderOpen \/ ReadRecord \/ ReadError \/ ReadEnd \/ CloseReader

Next == Recover \/ Write \/ Read \/ \E n \in {0} \cup CutPoints : Crash(n)

Spec == Init /\ [][Next]_vars

\* The same on a disk on which the read of a header may fail half way.
ReadFault ==
    \E k \in 0..(IF path = 0 THEN 0 ELSE Len(disk[path].recs)) : RecoverShortRead(k)

SpecWithReadFaults == Init /\ [][Next \/ ReadFault]_vars

-----------------------------------------------------------------------------
(* Properties *)

Contents ==
    [recs : Seq([val : Records, end : Nat]), tail : Nat, decl : Nat \cup {NoLen}]

Stores ==
    [ino : 0..MaxInodes, quota : Nat, max : Nat, bytes_used : Nat, record_count : Nat,
     failed : BOOLEAN, pending : Records \cup {NoRecord}]

Readers ==
    [ino : 0..MaxInodes, quota : Nat, max : Nat, bytes_read : Nat, got : Seq(Records),
     status : {"closed", "open", "end", "error"}, owed : SUBSET (Nat \X Records)]

Calls ==
    [pc : {"idle", "scan", "rename", "recovered", "write", "count"},
     op : {"none", "open", "reader", "recover", "append"},
     quota : Nat, max : Nat, keep : Nat, rec : Records \cup {NoRecord}]

\* Types of the state.  The room append computes, quota_bytes - bytes_used, does
\* not wrap around.
TypeOK ==
    /\ disk \in [1..MaxInodes -> Contents]
    /\ path \in 0..MaxInodes
    /\ inodes \in 0..MaxInodes
    /\ store \in Stores
    /\ store.bytes_used <= store.quota
    /\ reader \in Readers
    /\ call \in Calls
    /\ acked \in SUBSET (Nat \X Records)
    /\ crashes \in 0..MaxCrashes

\* The counters of a usable handle are the file's: between calls, a handle that
\* has not failed writes to the file the path names (no recovery has put another
\* file there), its bytes_used is that file's size, its record_count the number
\* of records, and no incomplete frame is in the way of the next append.
HandleMatchesFile ==
    (store.ino # 0 /\ ~store.failed /\ call.pc \notin {"write", "count"}) =>
        /\ store.ino = path
        /\ disk[path].tail = 0
        /\ store.bytes_used = FileBytes(disk[path])
        /\ store.record_count = Len(disk[path].recs)

\* A record append returned OK for stays in the file, at the position the handle
\* counted it, across failed writes, crashes, reopening under other limits and
\* recoveries that die half way.
AckedStays ==
    \A p \in acked :
        /\ path # 0
        /\ p[1] \in 1..Len(disk[path].recs)
        /\ disk[path].recs[p[1]].val = p[2]

\* A reader that reached the end without an error was given every record that
\* had been acknowledged when it was opened, at its position.
EndMeansAll ==
    reader.status = "end" =>
        \A p \in reader.owed : p[1] \in 1..Len(reader.got) /\ reader.got[p[1]] = p[2]

\* No file, its incomplete frame included, outgrows the quota of every caller:
\* what a failing append, a late flush or a recovery leaves is within it too.
DiskBounded ==
    \A i \in 1..inodes : disk[i] = Empty \/ \E c \in Configs : FileBytes(disk[i]) <= c.quota

\* The file behind the path is an append-only log of records, whatever the
\* handles, the crashes and the recoveries do.
Log == INSTANCE SpillLog WITH
    log <- IF path = 0 THEN << >> ELSE Values(disk[path])

ImplementsLog == Log!Spec

=============================================================================
