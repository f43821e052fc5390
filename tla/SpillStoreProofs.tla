-------------------------- MODULE SpillStoreProofs --------------------------
(***************************************************************************)
(* Proofs about SpillStore: its safety invariants, and that it implements  *)
(* SpillLog, for every set of records, limits and cut points, any number   *)
(* of files and crashes.  Spec is without the reads that fail in the middle*)
(* of a header; with them (SpecWithReadFaults) the code loses records,     *)
(* which a run of MCSpillStore shows.                                      *)
(***************************************************************************)
EXTENDS SpillStore, SequenceTheorems, TLAPS

-----------------------------------------------------------------------------
(* Files *)

\* Every frame ends one frame behind the one before it.
Laid(c) ==
    \A k \in 1..Len(c.recs) :
        c.recs[k].end = EndOf(c, k - 1) + RecordBytes(c.recs[k].val)

\* A frame has at least its header and its trailer.
LEMMA FrameSize ==
    ASSUME NEW r \in Records
    PROVE  RecordBytes(r) \in Nat /\ RecordBytes(r) >= Header + Trailer
  BY RecordsAssumption DEF RecordBytes, Header, Trailer

\* The prefixes of a file have a size, and the frame sizes add up to it.
LEMMA PrefixSizes ==
    ASSUME NEW c \in Contents
    PROVE  /\ Len(c.recs) \in Nat
           /\ \A k \in 0..Len(c.recs) : EndOf(c, k) \in Nat
           /\ ValidBytes(c) \in Nat
           /\ FileBytes(c) = ValidBytes(c) + c.tail
           /\ \A k \in 1..Len(c.recs) : c.recs[k].val \in Records /\ c.recs[k].end \in Nat
<1>1. /\ c.recs \in Seq([val : Records, end : Nat])
      /\ c.tail \in Nat
  BY DEF Contents
<1>2. Len(c.recs) \in Nat /\ \A k \in 1..Len(c.recs) : c.recs[k] \in [val : Records, end : Nat]
  BY <1>1, LenProperties
<1>3. \A k \in 0..Len(c.recs) : EndOf(c, k) \in Nat
  BY <1>2 DEF EndOf
<1> QED
  BY <1>1, <1>2, <1>3 DEF ValidBytes, FileBytes

\* What a frame written behind complete records makes of the file.
LEMMA WriteFrameFile ==
    ASSUME NEW c \in Contents, Laid(c), c.tail = 0, NEW r \in Records
    PROVE  LET d == WriteFrame(c, r) IN
           /\ d \in Contents
           /\ Laid(d)
           /\ d.tail = 0
           /\ Len(d.recs) = Len(c.recs) + 1
           /\ \A k \in 1..Len(c.recs) : d.recs[k] = c.recs[k]
           /\ d.recs[Len(c.recs) + 1].val = r
           /\ ValidBytes(d) = ValidBytes(c) + RecordBytes(r)
<1> DEFINE e == [val |-> r, end |-> ValidBytes(c) + RecordBytes(r)]
           d == WriteFrame(c, r)
<1>1. /\ c.recs \in Seq([val : Records, end : Nat])
      /\ Len(c.recs) \in Nat
      /\ ValidBytes(c) \in Nat
      /\ RecordBytes(r) \in Nat
  BY PrefixSizes, FrameSize DEF Contents
<1>2. e \in [val : Records, end : Nat]
  BY <1>1
<1>3. d = [c EXCEPT !.recs = Append(c.recs, e)]
  BY DEF WriteFrame
<1>4. d.recs = Append(c.recs, e) /\ d.tail = 0 /\ d.decl = c.decl
  BY <1>3 DEF Contents
<1>5. /\ d.recs \in Seq([val : Records, end : Nat])
      /\ Len(d.recs) = Len(c.recs) + 1
      /\ \A k \in 1..Len(c.recs) : d.recs[k] = c.recs[k]
      /\ d.recs[Len(c.recs) + 1] = e
  BY <1>1, <1>2, <1>4, AppendProperties
<1> HIDE DEF d
<1>6. d \in Contents
  <2> SUFFICES [c EXCEPT !.recs = d.recs] \in Contents
    BY <1>3, <1>4
  <2> QED
    BY <1>5 DEF Contents
<1>7. ASSUME NEW k \in 0..Len(c.recs)
      PROVE  EndOf(d, k) = EndOf(c, k)
  <2>1. CASE k = 0
    BY <2>1 DEF EndOf
  <2>2. CASE k # 0
    <3>1. k \in 1..Len(c.recs)
      BY <2>2, <1>1
    <3>2. d.recs[k] = c.recs[k]
      BY <3>1, <1>5
    <3> QED
      BY <2>2, <3>2 DEF EndOf
  <2> QED
    BY <2>1, <2>2
<1>8. ValidBytes(d) = ValidBytes(c) + RecordBytes(r)
  BY <1>1, <1>5 DEF EndOf, ValidBytes
<1>9. Laid(d)
  <2> SUFFICES ASSUME NEW k \in 1..Len(d.recs)
               PROVE  d.recs[k].end = EndOf(d, k - 1) + RecordBytes(d.recs[k].val)
    BY DEF Laid
  <2>1. k \in Int /\ k - 1 \in 0..Len(c.recs) /\ EndOf(d, k - 1) = EndOf(c, k - 1)
    BY <1>1, <1>5, <1>7
  <2>2. CASE k \in 1..Len(c.recs)
    <3>1. d.recs[k] = c.recs[k]
      BY <2>2, <1>5
    <3>2. c.recs[k].end = EndOf(c, k - 1) + RecordBytes(c.recs[k].val)
      BY <2>2 DEF Laid
    <3> QED
      BY <2>1, <3>1, <3>2
  <2>3. CASE k = Len(c.recs) + 1
    <3>1. k - 1 = Len(c.recs) /\ d.recs[k] = e
      BY <2>3, <1>1, <1>5
    <3> QED
      BY <2>1, <3>1 DEF ValidBytes
  <2> QED
    BY <2>2, <2>3, <1>1, <1>5
<1> QED
  BY <1>4, <1>5, <1>6, <1>8, <1>9 DEF d

\* The same of an incomplete frame that is completed.
LEMMA CompleteFile ==
    ASSUME NEW c \in Contents, Laid(c), NEW r \in Records
    PROVE  LET d == Complete(c, r) IN
           /\ d \in Contents
           /\ Laid(d)
           /\ d.tail = 0
           /\ Len(d.recs) = Len(c.recs) + 1
           /\ \A k \in 1..Len(c.recs) : d.recs[k] = c.recs[k]
           /\ d.recs[Len(c.recs) + 1].val = r
           /\ ValidBytes(d) = ValidBytes(c) + RecordBytes(r)
<1> DEFINE b == [c EXCEPT !.tail = 0, !.decl = NoLen]
<1>1. b \in Contents /\ b.recs = c.recs /\ b.tail = 0
  BY DEF Contents
<1>2. Laid(b) /\ ValidBytes(b) = ValidBytes(c)
  BY <1>1 DEF Laid, EndOf, ValidBytes
<1>3. Complete(c, r) = WriteFrame(b, r)
  BY DEF Complete
<1> HIDE DEF b
<1> QED
  BY <1>1, <1>2, <1>3, WriteFrameFile

\* An interrupted write leaves the records and adds less than a frame.
LEMMA InterruptedFile ==
    ASSUME NEW c \in Contents, Laid(c), c.tail = 0, NEW r \in Records, NEW n \in Cuts(r)
    PROVE  LET d == Interrupted(c, r, n) IN
           /\ d \in Contents
           /\ Laid(d)
           /\ d.recs = c.recs
           /\ ValidBytes(d) = ValidBytes(c)
           /\ d.tail \in Nat /\ d.tail < RecordBytes(r)
<1> DEFINE d == Interrupted(c, r, n)
<1>1. n \in Nat /\ n < RecordBytes(r)
  BY FrameSize, BoundsAssumption DEF Cuts, Header, Trailer
<1>2. PayloadLen[r] \in Nat
  BY RecordsAssumption
<1>3. d \in Contents /\ d.recs = c.recs /\ d.tail = n
  <2>1. CASE n = 0
    BY <2>1 DEF Interrupted
  <2>2. CASE n # 0
    BY <2>2, <1>1, <1>2 DEF Interrupted, TearFrame, Contents
  <2> QED
    BY <2>1, <2>2
<1>4. Laid(d) /\ ValidBytes(d) = ValidBytes(c)
  BY <1>3 DEF Laid, EndOf, ValidBytes
<1> QED
  BY <1>1, <1>3, <1>4

\* The copy of a whole valid prefix has its records and nothing behind them.
LEMMA PrefixFile ==
    ASSUME NEW c \in Contents, Laid(c)
    PROVE  LET d == Prefix(c, Len(c.recs)) IN
           /\ d \in Contents
           /\ Laid(d)
           /\ d.recs = c.recs
           /\ d.tail = 0
           /\ ValidBytes(d) = ValidBytes(c)
<1> DEFINE d == Prefix(c, Len(c.recs))
<1>1. c.recs \in Seq([val : Records, end : Nat])
  BY DEF Contents
<1>2. d.recs = c.recs /\ d.tail = 0
  BY <1>1, SubSeqFull DEF Prefix
<1>3. d \in Contents
  BY <1>1, <1>2 DEF Prefix, Contents
<1>4. Laid(d) /\ ValidBytes(d) = ValidBytes(c)
  BY <1>2 DEF Laid, EndOf, ValidBytes
<1> QED
  BY <1>2, <1>3, <1>4

-----------------------------------------------------------------------------
(* The inductive invariant *)

\* Inodes are allocated in order, and every file is well laid out.
InodesInv ==
    /\ path <= inodes
    /\ store.ino <= inodes
    /\ reader.ino <= inodes
    /\ \A i \in 1..MaxInodes : Laid(disk[i])
    /\ \A i \in 1..MaxInodes : i > inodes => disk[i] = Empty

\* The handle's counters against its file.  A failed handle may still flush the
\* frame it holds, into a file that has room for it.
StoreInv ==
    store.ino # 0 =>
        LET c == disk[store.ino] IN
        /\ \E cfg \in Configs : cfg.quota = store.quota
        /\ store.failed =>
            /\ store.pending \in Records
            /\ ValidBytes(c) + RecordBytes(store.pending) <= store.quota
        /\ ~store.failed =>
            /\ store.ino = path
            /\ c.tail = 0
            /\ IF call.pc = "count"
               THEN /\ ValidBytes(c) = store.bytes_used + RecordBytes(call.rec)
                    /\ Len(c.recs) = store.record_count + 1
                    /\ c.recs[store.record_count + 1].val = call.rec
               ELSE /\ ValidBytes(c) = store.bytes_used
                    /\ Len(c.recs) = store.record_count

\* An append is under way on a usable handle, with room for its frame.
AppendInv ==
    call.pc \in {"write", "count"} =>
        /\ store.ino # 0
        /\ ~store.failed
        /\ call.rec \in Records
        /\ store.bytes_used + RecordBytes(call.rec) <= store.quota

\* A recovery is under way.  Only a failed or closed handle can be in its way when
\* it replaces the file; the copy has the records of the original.
RecoverInv ==
    /\ call.pc \in {"scan", "rename", "recovered"} =>
        /\ \E cfg \in Configs : cfg.quota = call.quota
        /\ call.op = "open" => store.ino = 0
    /\ call.pc = "rename" =>
        /\ path # 0
        /\ path < inodes
        /\ disk[path].tail > 0
        /\ disk[inodes].recs = disk[path].recs
        /\ disk[inodes].tail = 0
        /\ call.keep = Len(disk[path].recs)
        /\ ValidBytes(disk[path]) <= call.quota
    /\ (call.pc = "recovered" /\ path # 0) =>
        /\ disk[path].tail = 0
        /\ call.keep = Len(disk[path].recs)
        /\ ValidBytes(disk[path]) <= call.quota

\* What the reader has been given is the beginning of its file, which holds
\* everything it is owed.
ReaderInv ==
    reader.status # "closed" =>
        LET c == disk[reader.ino] IN
        /\ reader.ino # 0
        /\ Len(reader.got) <= Len(c.recs)
        /\ \A k \in 1..Len(reader.got) : reader.got[k] = c.recs[k].val
        /\ \A p \in reader.owed : p[1] \in 1..Len(c.recs) /\ c.recs[p[1]].val = p[2]

Inv ==
    /\ TypeOK
    /\ InodesInv
    /\ StoreInv
    /\ AppendInv
    /\ RecoverInv
    /\ ReaderInv
    /\ AckedStays
    /\ EndMeansAll
    /\ DiskBounded

-----------------------------------------------------------------------------
(* Types *)

\* The numbers of the files in use.
LEMMA Inodes ==
    ASSUME Inv
    PROVE  /\ MaxInodes \in Nat \ {0}
           /\ inodes \in Nat /\ inodes <= MaxInodes
           /\ path \in Nat /\ path <= inodes
           /\ store.ino \in Nat /\ store.ino <= inodes
           /\ reader.ino \in Nat /\ reader.ino <= inodes
           /\ \A i \in 1..inodes : i \in 1..MaxInodes
  BY BoundsAssumption DEF Inv, TypeOK, Stores, Readers, InodesInv

\* A file of the state is a file, and is well laid out.
LEMMA FileOK ==
    ASSUME Inv, NEW i \in 1..MaxInodes
    PROVE  /\ disk[i] \in Contents
           /\ Laid(disk[i])
           /\ Len(disk[i].recs) \in Nat
           /\ disk[i].tail \in Nat
           /\ ValidBytes(disk[i]) \in Nat
           /\ FileBytes(disk[i]) = ValidBytes(disk[i]) + disk[i].tail
<1>1. disk[i] \in Contents /\ Laid(disk[i])
  BY DEF Inv, TypeOK, InodesInv
<1> QED
  BY <1>1, PrefixSizes DEF Contents

-----------------------------------------------------------------------------
(* Steps that leave most of the state alone *)

LEMMA InitInv == ASSUME Init PROVE Inv
<1> USE DEF Init
<1>1. Empty \in Contents /\ Laid(Empty) /\ Empty.tail = 0
  BY EmptySeq DEF Empty, Contents, Laid
<1>2. << >> \in Seq(Records) /\ Len(<< >>) = 0
  BY EmptySeq
<1>3. TypeOK
  BY <1>1, <1>2, BoundsAssumption
  DEF TypeOK, Stores, Readers, Calls, ClosedStore, ClosedReader, Idle
<1>4. InodesInv
  BY <1>1, BoundsAssumption DEF InodesInv, ClosedStore, ClosedReader
<1>5. StoreInv /\ AppendInv /\ RecoverInv
  BY DEF StoreInv, AppendInv, RecoverInv, ClosedStore, Idle
<1>6. ReaderInv /\ AckedStays /\ EndMeansAll /\ DiskBounded
  BY DEF ReaderInv, AckedStays, EndMeansAll, DiskBounded, ClosedReader
<1> QED
  BY <1>3, <1>4, <1>5, <1>6 DEF Inv

LEMMA StutterInv == ASSUME Inv, UNCHANGED vars PROVE Inv'
  BY DEF vars, Inv, TypeOK, InodesInv, StoreInv, AppendInv, RecoverInv, ReaderInv,
         AckedStays, EndMeansAll, DiskBounded

\* A step of the call alone: what it must keep.
LEMMA CallStep ==
    ASSUME Inv, UNCHANGED <<disk, path, inodes, store, reader, acked, crashes>>,
           call.pc # "count", call'.pc # "count",
           call' \in Calls,
           AppendInv', RecoverInv'
    PROVE  Inv'
<1>1. TypeOK'
  BY DEF Inv, TypeOK
<1>2. StoreInv'
  BY DEF Inv, StoreInv
<1>3. InodesInv' /\ ReaderInv' /\ AckedStays' /\ EndMeansAll' /\ DiskBounded'
  BY DEF Inv, InodesInv, ReaderInv, AckedStays, EndMeansAll, DiskBounded
<1> QED
  BY <1>1, <1>2, <1>3 DEF Inv

LEMMA IdleCall ==
    /\ Idle \in Calls
    /\ Idle.pc = "idle"
  BY DEF Idle, Calls

\* A call that ends without having changed anything.
LEMMA ReturnStep ==
    ASSUME Inv, UNCHANGED <<disk, path, inodes, store, reader, acked, crashes>>,
           call.pc \notin {"write", "count"}, Return
    PROVE  Inv'
<1>1. AppendInv' /\ RecoverInv'
  BY IdleCall DEF Return, AppendInv, RecoverInv
<1> QED
  BY <1>1, IdleCall, CallStep DEF Return

\* A step of the reader alone.
LEMMA ReaderStep ==
    ASSUME Inv, UNCHANGED <<disk, path, inodes, store, call, acked, crashes>>,
           reader' \in Readers,
           reader'.ino <= inodes, ReaderInv', EndMeansAll'
    PROVE  Inv'
<1>1. TypeOK'
  BY DEF Inv, TypeOK
<1>2. InodesInv' /\ StoreInv' /\ AppendInv' /\ RecoverInv' /\ AckedStays' /\ DiskBounded'
  BY DEF Inv, InodesInv, StoreInv, AppendInv, RecoverInv, AckedStays, DiskBounded
<1> QED
  BY <1>1, <1>2 DEF Inv

\* A file that keeps its records and may get more keeps what readers and writers
\* were promised of it.
LEMMA GrowStep ==
    ASSUME Inv, NEW i \in 1..MaxInodes, i <= inodes,
           NEW d \in Contents, Laid(d),
           Len(disk[i].recs) <= Len(d.recs),
           \A k \in 1..Len(disk[i].recs) : d.recs[k] = disk[i].recs[k],
           \E cfg \in Configs : FileBytes(d) <= cfg.quota,
           disk' = [disk EXCEPT ![i] = d],
           UNCHANGED <<path, inodes, acked>>,
           reader' = reader \/ reader' = ClosedReader
    PROVE  /\ disk' \in [1..MaxInodes -> Contents]
           /\ \A j \in 1..MaxInodes : Laid(disk[j])'
           /\ \A j \in 1..MaxInodes : j > inodes => disk'[j] = Empty
           /\ ReaderInv'
           /\ AckedStays'
           /\ EndMeansAll'
           /\ DiskBounded'
<1> USE DEF Inv
<1>1. disk' \in [1..MaxInodes -> Contents]
  BY DEF TypeOK
<1>2. \A j \in 1..MaxInodes : disk'[j] = IF j = i THEN d ELSE disk[j]
  BY DEF TypeOK
<1>3. \A j \in 1..MaxInodes : Laid(disk[j])'
  BY <1>2 DEF InodesInv, Laid, EndOf
<1>4. \A j \in 1..MaxInodes : j > inodes => disk'[j] = Empty
  BY <1>2 DEF InodesInv, TypeOK
<1>5. \A j \in 1..MaxInodes :
        /\ Len(disk[j].recs) \in Nat
        /\ Len(disk'[j].recs) \in Nat
        /\ Len(disk[j].recs) <= Len(disk'[j].recs)
        /\ \A k \in 1..Len(disk[j].recs) :
            k \in 1..Len(disk'[j].recs) /\ disk'[j].recs[k] = disk[j].recs[k]
  <2> SUFFICES ASSUME NEW j \in 1..MaxInodes
               PROVE  /\ Len(disk[j].recs) \in Nat
                      /\ Len(disk'[j].recs) \in Nat
                      /\ Len(disk[j].recs) <= Len(disk'[j].recs)
                      /\ \A k \in 1..Len(disk[j].recs) :
                          k \in 1..Len(disk'[j].recs) /\ disk'[j].recs[k] = disk[j].recs[k]
    OBVIOUS
  <2>1. disk[j] \in Contents /\ disk'[j] \in Contents
    BY <1>1 DEF TypeOK
  <2>2. Len(disk[j].recs) \in Nat /\ Len(disk'[j].recs) \in Nat
    BY <2>1, PrefixSizes
  <2>3. CASE j = i
    BY <2>2, <2>3, <1>2
  <2>4. CASE j # i
    BY <2>2, <2>4, <1>2
  <2> QED
    BY <2>3, <2>4
<1>6. ReaderInv'
  <2>1. CASE reader' = ClosedReader
    BY <2>1 DEF ReaderInv, ClosedReader
  <2>2. CASE reader' = reader
    <3> SUFFICES ASSUME reader.status # "closed"
                 PROVE  ReaderInv'
      BY <2>2 DEF ReaderInv
    <3>1. reader.ino \in 1..MaxInodes /\ Len(reader.got) \in Nat
      BY Inodes DEF ReaderInv, TypeOK, Readers
    <3>2. /\ Len(reader.got) <= Len(disk'[reader.ino].recs)
          /\ \A k \in 1..Len(reader.got) : reader.got[k] = disk'[reader.ino].recs[k].val
      BY <3>1, <1>5 DEF ReaderInv
    <3>3. \A p \in reader.owed : p[1] \in 1..Len(disk'[reader.ino].recs)
                                /\ disk'[reader.ino].recs[p[1]].val = p[2]
      BY <3>1, <1>5 DEF ReaderInv
    <3> QED
      BY <2>2, <3>1, <3>2, <3>3 DEF ReaderInv
  <2> QED
    BY <2>1, <2>2
<1>7. AckedStays'
  <2> SUFFICES ASSUME NEW p \in acked
               PROVE  /\ path # 0
                      /\ p[1] \in 1..Len(disk'[path].recs)
                      /\ disk'[path].recs[p[1]].val = p[2]
    BY DEF AckedStays
  <2>1. path # 0 /\ p[1] \in 1..Len(disk[path].recs) /\ disk[path].recs[p[1]].val = p[2]
    BY DEF AckedStays
  <2>2. path \in 1..MaxInodes
    BY <2>1 DEF TypeOK
  <2> QED
    BY <2>1, <2>2, <1>5
<1>8. EndMeansAll'
  BY DEF EndMeansAll, ClosedReader
<1>9. DiskBounded'
  <2> SUFFICES ASSUME NEW j \in 1..inodes
               PROVE  disk'[j] = Empty \/ \E cfg \in Configs : FileBytes(disk'[j]) <= cfg.quota
    BY DEF DiskBounded, FileBytes, ValidBytes, EndOf
  <2>1. j \in 1..MaxInodes
    BY BoundsAssumption DEF TypeOK
  <2> QED
    BY <2>1, <1>2 DEF DiskBounded
<1> QED
  BY <1>1, <1>3, <1>4, <1>6, <1>7, <1>8, <1>9

-----------------------------------------------------------------------------
(* milena_spill_store_recover *)

LEMMA StartRecoverInv ==
    ASSUME Inv, NEW op \in {"open", "reader", "recover"}, NEW cfg \in Configs,
           StartRecover(op, cfg)
    PROVE  Inv'
<1>1. /\ cfg.quota \in Nat /\ cfg.max \in Nat
      /\ call.pc = "idle"
      /\ op = "open" => store.ino = 0
      /\ call' = [Idle EXCEPT !.pc = "scan", !.op = op, !.quota = cfg.quota, !.max = cfg.max]
      /\ UNCHANGED <<disk, path, inodes, store, reader, acked, crashes>>
  BY ConfigsAssumption DEF StartRecover
<1>2. /\ call' = [pc |-> "scan", op |-> op, quota |-> cfg.quota, max |-> cfg.max,
                  keep |-> 0, rec |-> NoRecord]
  BY <1>1 DEF Idle
<1>3. AppendInv' /\ RecoverInv'
  BY <1>1, <1>2 DEF AppendInv, RecoverInv
<1>4. /\ call'.pc = "scan"
      /\ call' \in Calls
  <2>1. cfg.quota \in Nat /\ cfg.max \in Nat
    BY <1>1
  <2> QED
    BY <1>2, <2>1 DEF Calls
<1> QED
  BY <1>1, <1>3, <1>4, CallStep

LEMMA RecoverMissingInv == ASSUME Inv, RecoverMissing PROVE Inv'
<1>1. /\ call.pc = "scan" /\ path = 0
      /\ call' = [call EXCEPT !.pc = "recovered"]
      /\ UNCHANGED <<disk, path, inodes, store, reader, acked, crashes>>
  BY DEF RecoverMissing
<1>2. call'.pc = "recovered" /\ call'.op = call.op /\ call'.quota = call.quota
  BY <1>1 DEF Inv, TypeOK, Calls
<1>3. AppendInv' /\ RecoverInv'
  BY <1>1, <1>2 DEF Inv, AppendInv, RecoverInv
<1> QED
  BY <1>1, <1>2, <1>3, CallStep DEF Inv, TypeOK, Calls

LEMMA RecoverCleanInv == ASSUME Inv, RecoverClean PROVE Inv'
<1>1. /\ call.pc = "scan" /\ path # 0
      /\ ~ScanRejects(disk[path], call.quota, call.max)
      /\ disk[path].tail = 0
      /\ call' = [call EXCEPT !.pc = "recovered", !.keep = Len(disk[path].recs)]
      /\ UNCHANGED <<disk, path, inodes, store, reader, acked, crashes>>
  BY DEF RecoverClean
<1>2. /\ call'.pc = "recovered" /\ call'.op = call.op /\ call'.quota = call.quota
      /\ call'.keep = Len(disk[path].recs)
  BY <1>1 DEF Inv, TypeOK, Calls
<1>3. path \in 1..MaxInodes /\ disk[path] \in Contents
  BY <1>1 DEF Inv, TypeOK, Calls
<1>4. Len(disk[path].recs) \in Nat /\ ValidBytes(disk[path]) \in Nat
  BY <1>3, PrefixSizes
<1>5. ValidBytes(disk[path]) <= call.quota
  BY <1>1, <1>4 DEF ScanRejects, Inv, TypeOK, Calls
<1>6. AppendInv' /\ RecoverInv'
  BY <1>1, <1>2, <1>5 DEF Inv, AppendInv, RecoverInv
<1> QED
  BY <1>1, <1>2, <1>4, <1>6, CallStep DEF Inv, TypeOK, Calls

LEMMA RecoverCopyInv == ASSUME Inv, RecoverCopy PROVE Inv'
<1> DEFINE c == disk[path]
           d == Prefix(c, Len(c.recs))
<1>1. /\ call.pc = "scan" /\ path # 0
      /\ ~ScanRejects(c, call.quota, call.max)
      /\ c.tail > 0
      /\ inodes < MaxInodes
      /\ inodes' = inodes + 1
      /\ disk' = [disk EXCEPT ![inodes + 1] = d]
      /\ call' = [call EXCEPT !.pc = "rename", !.keep = Len(c.recs)]
      /\ UNCHANGED <<path, store, reader, acked, crashes>>
  BY DEF RecoverCopy, CopyPrefix
<1>2. /\ path \in 1..MaxInodes /\ path <= inodes /\ inodes \in Nat
      /\ inodes + 1 \in 1..MaxInodes
      /\ c \in Contents /\ Laid(c)
  <2>1. /\ path \in 1..MaxInodes /\ path <= inodes /\ inodes \in Nat
        /\ inodes + 1 \in 1..MaxInodes
    BY <1>1, Inodes
  <2>2. c \in Contents /\ Laid(c)
    BY <2>1, FileOK DEF Inv
  <2> QED
    BY <2>1, <2>2
<1>3. Len(c.recs) \in Nat /\ ValidBytes(c) \in Nat /\ FileBytes(c) = ValidBytes(c) + c.tail
  BY <1>2, PrefixSizes
<1>4. /\ d \in Contents /\ Laid(d) /\ d.recs = c.recs /\ d.tail = 0
      /\ ValidBytes(d) = ValidBytes(c)
  BY <1>2, PrefixFile
<1>5. /\ call'.pc = "rename" /\ call'.op = call.op /\ call'.quota = call.quota
      /\ call'.keep = Len(c.recs)
  BY <1>1 DEF Inv, TypeOK, Calls
<1> HIDE DEF d
<1>6. \A j \in 1..MaxInodes : disk'[j] = IF j = inodes + 1 THEN d ELSE disk[j]
  BY <1>1, <1>2 DEF Inv, TypeOK
<1>7. TypeOK'
  <2>1. disk' \in [1..MaxInodes -> Contents]
    BY <1>1, <1>2, <1>4 DEF Inv, TypeOK
  <2>2. call' \in Calls
    BY <1>1, <1>3 DEF Inv, TypeOK, Calls
  <2>3. inodes' \in 0..MaxInodes
    BY <1>1, <1>2
  <2> QED
    BY <1>1, <2>1, <2>2, <2>3 DEF Inv, TypeOK
<1>8. ValidBytes(c) <= call.quota
  BY <1>1, <1>3 DEF ScanRejects, Inv, TypeOK, Calls
<1>9. \A j \in 1..inodes : disk'[j] = disk[j]
  BY <1>2, <1>6, BoundsAssumption DEF Inv, TypeOK
<1>10. InodesInv'
  <2>1. \A j \in 1..MaxInodes : Laid(disk[j])'
    BY <1>4, <1>6 DEF Inv, InodesInv, Laid, EndOf
  <2>2. \A j \in 1..MaxInodes : j > inodes' => disk'[j] = Empty
    BY <1>1, <1>2, <1>6 DEF Inv, InodesInv
  <2> QED
    BY <1>1, <1>2, <2>1, <2>2, Inodes DEF InodesInv
<1>11. StoreInv'
  <2> SUFFICES ASSUME store.ino # 0 PROVE StoreInv'
    BY <1>1 DEF StoreInv
  <2>1. store.ino \in 1..inodes
    BY Inodes
  <2>2. disk'[store.ino] = disk[store.ino]
    BY <1>9, <2>1
  <2> QED
    BY <1>1, <1>5, <2>2 DEF Inv, StoreInv, ValidBytes, EndOf
<1>12. AppendInv' /\ RecoverInv'
  <2>1. disk'[path] = c /\ disk'[inodes'] = d
    BY <1>1, <1>2, <1>6, <1>9
  <2>2. \E cfg \in Configs : cfg.quota = call.quota
    BY <1>1 DEF Inv, RecoverInv
  <2> QED
    BY <1>1, <1>2, <1>4, <1>5, <1>8, <2>1, <2>2
    DEF Inv, AppendInv, RecoverInv, ValidBytes, EndOf
<1>13. ReaderInv'
  <2> SUFFICES ASSUME reader.status # "closed" PROVE ReaderInv'
    BY <1>1 DEF ReaderInv
  <2>1. reader.ino \in 1..inodes
    BY Inodes DEF ReaderInv, Inv
  <2>2. disk'[reader.ino] = disk[reader.ino]
    BY <1>9, <2>1
  <2> QED
    BY <1>1, <2>2 DEF Inv, ReaderInv
<1>14. AckedStays' /\ EndMeansAll'
  <2>1. disk'[path] = disk[path]
    BY <1>2, <1>9
  <2> QED
    BY <1>1, <2>1 DEF Inv, AckedStays, EndMeansAll
<1>15. DiskBounded'
  <2> SUFFICES ASSUME NEW j \in 1..inodes'
               PROVE  disk'[j] = Empty \/ \E cfg \in Configs : FileBytes(disk'[j]) <= cfg.quota
    BY DEF DiskBounded, FileBytes, ValidBytes, EndOf
  <2>1. CASE j \in 1..inodes
    BY <2>1, <1>9 DEF Inv, DiskBounded
  <2>2. CASE j = inodes + 1
    <3>1. disk'[j] = d
      BY <1>2, <1>6, <2>2
    <3>2. \E cfg \in Configs : cfg.quota = call.quota
      BY <1>1 DEF Inv, RecoverInv
    <3>3. FileBytes(d) = ValidBytes(c)
      BY <1>3, <1>4 DEF FileBytes
    <3> QED
      BY <1>8, <3>1, <3>2, <3>3
  <2> QED
    BY <1>1, <1>2, <2>1, <2>2
<1> QED
  BY <1>7, <1>10, <1>11, <1>12, <1>13, <1>14, <1>15 DEF Inv

LEMMA RecoverRenameInv == ASSUME Inv, RecoverRename PROVE Inv'
<1>1. /\ call.pc = "rename"
      /\ path' = inodes
      /\ call' = [call EXCEPT !.pc = "recovered"]
      /\ UNCHANGED <<disk, inodes, store, reader, acked, crashes>>
  BY DEF RecoverRename
<1>2. /\ call'.pc = "recovered" /\ call'.op = call.op /\ call'.quota = call.quota
      /\ call'.keep = call.keep
  BY <1>1 DEF Inv, TypeOK, Calls
<1>3. /\ path # 0 /\ path < inodes
      /\ disk[path].tail > 0
      /\ disk[inodes].recs = disk[path].recs
      /\ disk[inodes].tail = 0
      /\ call.keep = Len(disk[path].recs)
      /\ ValidBytes(disk[path]) <= call.quota
      /\ \E cfg \in Configs : cfg.quota = call.quota
      /\ call.op = "open" => store.ino = 0
  BY <1>1 DEF Inv, RecoverInv
<1>4. store.ino = 0 \/ store.failed
  BY <1>3 DEF Inv, StoreInv, TypeOK
<1>5. inodes \in 1..MaxInodes
  BY <1>3 DEF Inv, TypeOK
<1>6. TypeOK'
  BY <1>1, <1>5 DEF Inv, TypeOK, Calls
<1>7. InodesInv'
  BY <1>1, <1>5 DEF Inv, InodesInv
<1>8. StoreInv' /\ AppendInv'
  BY <1>1, <1>2, <1>4 DEF Inv, StoreInv, AppendInv
<1>9. RecoverInv'
  BY <1>1, <1>2, <1>3 DEF RecoverInv, ValidBytes, EndOf
<1>10. ReaderInv' /\ EndMeansAll' /\ DiskBounded'
  BY <1>1 DEF Inv, ReaderInv, EndMeansAll, DiskBounded
<1>11. AckedStays'
  BY <1>1, <1>3, <1>5 DEF Inv, AckedStays
<1> QED
  BY <1>6, <1>7, <1>8, <1>9, <1>10, <1>11 DEF Inv

LEMMA RecoverInvariant == ASSUME Inv, Recover PROVE Inv'
<1>1. ASSUME NEW op \in {"open", "reader", "recover"}, NEW cfg \in Configs,
             StartRecover(op, cfg)
      PROVE  Inv'
  BY <1>1, StartRecoverInv
<1>2. CASE RecoverMissing
  BY <1>2, RecoverMissingInv
<1>3. CASE RecoverReject
  BY <1>3, ReturnStep DEF RecoverReject
<1>4. CASE RecoverClean
  BY <1>4, RecoverCleanInv
<1>5. CASE RecoverCopy
  BY <1>5, RecoverCopyInv
<1>6. CASE RecoverRename
  BY <1>6, RecoverRenameInv
<1>7. CASE RecoverFault
  BY <1>7, ReturnStep DEF RecoverFault
<1>8. CASE RecoverReturn
  BY <1>8, ReturnStep DEF RecoverReturn
<1> QED
  BY <1>1, <1>2, <1>3, <1>4, <1>5, <1>6, <1>7, <1>8 DEF Recover

-----------------------------------------------------------------------------
(* The writer *)

\* What recovery leaves a new handle to start from.
LEMMA OpenedFile ==
    ASSUME Inv, call.pc = "recovered", path # 0
    PROVE  /\ path \in 1..MaxInodes
           /\ Len(disk[path].recs) \in Nat
           /\ call.keep = Len(disk[path].recs)
           /\ EndOf(disk[path], call.keep) = ValidBytes(disk[path])
           /\ disk[path].tail = 0
           /\ ValidBytes(disk[path]) \in Nat
           /\ ValidBytes(disk[path]) <= call.quota
           /\ \E cfg \in Configs : cfg.quota = call.quota
<1>1. path \in 1..MaxInodes
  BY Inodes
<1>2. ValidBytes(disk[path]) \in Nat /\ Len(disk[path].recs) \in Nat
  BY <1>1, FileOK
<1> QED
  BY <1>1, <1>2 DEF Inv, RecoverInv, ValidBytes

\* The handles the writer's steps make.
LEMMA StoreRecord ==
    ASSUME NEW ino \in 0..MaxInodes, NEW quota \in Nat, NEW max \in Nat,
           NEW bytes \in Nat, NEW count \in Nat
    PROVE  [ino |-> ino, quota |-> quota, max |-> max, bytes_used |-> bytes,
            record_count |-> count, failed |-> FALSE, pending |-> NoRecord] \in Stores
BY DEF Stores

LEMMA StoreCounted ==
    ASSUME NEW s \in Stores, NEW n \in Nat
    PROVE  LET t == [s EXCEPT !.bytes_used = @ + n, !.record_count = @ + 1] IN
           /\ t \in Stores
           /\ t.ino = s.ino /\ t.quota = s.quota /\ t.failed = s.failed
           /\ t.bytes_used = s.bytes_used + n
           /\ t.record_count = s.record_count + 1
<1>1. s.bytes_used + n \in Nat /\ s.record_count + 1 \in Nat
  BY DEF Stores
<1> QED
  BY <1>1 DEF Stores

\* A handle on a file that has just been created.
LEMMA CreateStep ==
    ASSUME Inv, call.pc \in {"idle", "recovered"}, store.ino = 0, path = 0,
           inodes < MaxInodes,
           NEW quota \in Nat, NEW max \in Nat, \E cfg \in Configs : cfg.quota = quota,
           inodes' = inodes + 1, path' = inodes + 1,
           store' = NewStore(inodes + 1, quota, max, 0, 0),
           call' \in Calls, call'.pc = "idle",
           UNCHANGED <<disk, reader, acked, crashes>>
    PROVE  Inv'
<1>1. inodes \in Nat /\ inodes + 1 \in 1..MaxInodes
  BY BoundsAssumption DEF Inv, TypeOK
<1>2. store' = [ino |-> inodes + 1, quota |-> quota, max |-> max, bytes_used |-> 0,
                record_count |-> 0, failed |-> FALSE, pending |-> NoRecord]
  BY DEF NewStore
<1>3. disk[inodes + 1] = Empty
  BY <1>1 DEF Inv, InodesInv
<1>4. Empty.tail = 0 /\ Len(Empty.recs) = 0 /\ ValidBytes(Empty) = 0
  BY EmptySeq DEF Empty, ValidBytes, EndOf
<1>5. TypeOK'
  <2>1. store' \in Stores /\ store'.bytes_used <= store'.quota
    <3>1. inodes + 1 \in 0..MaxInodes
      BY <1>1, Inodes
    <3>2. store' \in Stores
      BY <1>2, <3>1, StoreRecord
    <3>3. store'.bytes_used = 0 /\ store'.quota = quota
      BY <1>2
    <3> QED
      BY <3>2, <3>3
  <2>2. path' \in 0..MaxInodes /\ inodes' \in 0..MaxInodes
    BY <1>1, Inodes
  <2> QED
    BY <2>1, <2>2 DEF Inv, TypeOK
<1>6. InodesInv'
  <2>1. \A j \in 1..MaxInodes : Laid(disk[j])'
    BY DEF Inv, InodesInv, Laid, EndOf
  <2>2. \A j \in 1..MaxInodes : j > inodes' => disk'[j] = Empty
    BY <1>1 DEF Inv, InodesInv
  <2> QED
    BY <1>1, <1>2, <2>1, <2>2, Inodes DEF InodesInv
<1>7. StoreInv'
  BY <1>1, <1>2, <1>3, <1>4 DEF StoreInv, ValidBytes, EndOf
<1>8. AppendInv' /\ RecoverInv'
  BY DEF AppendInv, RecoverInv
<1>9. ReaderInv' /\ EndMeansAll'
  BY DEF Inv, ReaderInv, EndMeansAll
<1>10. AckedStays'
  BY DEF Inv, AckedStays
<1>11. DiskBounded'
  BY <1>1, <1>3 DEF Inv, DiskBounded
<1> QED
  BY <1>5, <1>6, <1>7, <1>8, <1>9, <1>10, <1>11 DEF Inv

LEMMA FinishOpenInv == ASSUME Inv, FinishOpen PROVE Inv'
<1>1. /\ call.pc = "recovered" /\ call.op = "open" /\ call' = Idle
      /\ UNCHANGED <<disk, reader, acked, crashes>>
      /\ store.ino = 0
      /\ \E cfg \in Configs : cfg.quota = call.quota
      /\ call.quota \in Nat /\ call.max \in Nat
  BY DEF FinishOpen, Return, Inv, RecoverInv, TypeOK, Calls
<1>2. CASE path # 0
  <2>1. /\ store' = NewStore(path, call.quota, call.max,
                             EndOf(disk[path], call.keep), call.keep)
        /\ UNCHANGED <<path, inodes>>
    BY <1>2 DEF FinishOpen
  <2>2. store' = [ino |-> path, quota |-> call.quota, max |-> call.max,
                  bytes_used |-> ValidBytes(disk[path]),
                  record_count |-> Len(disk[path].recs),
                  failed |-> FALSE, pending |-> NoRecord]
    BY <1>1, <1>2, <2>1, OpenedFile DEF NewStore
  <2>3. /\ path \in 1..MaxInodes
        /\ disk[path].tail = 0
        /\ ValidBytes(disk[path]) \in Nat
        /\ call.quota - ValidBytes(disk[path]) \in Nat
        /\ Len(disk[path].recs) \in Nat
    BY <1>1, <1>2, OpenedFile
  <2>4. TypeOK'
    BY <1>1, <2>1, <2>2, <2>3, IdleCall DEF Inv, TypeOK, Stores
  <2>5. InodesInv'
    BY <1>1, <2>1, <2>2 DEF Inv, InodesInv
  <2>6. StoreInv'
    <3>1. ValidBytes(disk'[path]) = ValidBytes(disk[path])
      BY <1>1
    <3>2. /\ store'.ino = path /\ ~store'.failed /\ store'.quota = call.quota
          /\ store'.bytes_used = ValidBytes(disk[path])
          /\ store'.record_count = Len(disk[path].recs)
          /\ path' = path /\ disk' = disk /\ call'.pc # "count"
      BY <1>1, <2>1, <2>2, IdleCall
    <3> QED
      BY <1>1, <2>3, <3>1, <3>2 DEF StoreInv
  <2>7. AppendInv' /\ RecoverInv'
    BY <1>1, IdleCall DEF AppendInv, RecoverInv
  <2>8. ReaderInv' /\ EndMeansAll' /\ AckedStays' /\ DiskBounded'
    BY <1>1, <2>1 DEF Inv, ReaderInv, EndMeansAll, AckedStays, DiskBounded
  <2> QED
    BY <2>4, <2>5, <2>6, <2>7, <2>8 DEF Inv
<1>3. CASE path = 0
  <2>1. /\ inodes < MaxInodes /\ inodes' = inodes + 1 /\ path' = inodes + 1
        /\ store' = NewStore(inodes + 1, call.quota, call.max, 0, 0)
    BY <1>3 DEF FinishOpen
  <2> QED
    BY <1>1, <1>3, <2>1, IdleCall, CreateStep
<1> QED
  BY <1>2, <1>3

LEMMA CreateExclusiveInv ==
    ASSUME Inv, NEW cfg \in Configs, CreateExclusive(cfg) PROVE Inv'
<1>1. cfg.quota \in Nat /\ cfg.max \in Nat
  BY ConfigsAssumption
<1>2. call' \in Calls /\ call'.pc = "idle"
  BY DEF CreateExclusive, Inv, TypeOK
<1> QED
  BY <1>1, <1>2, CreateStep DEF CreateExclusive

LEMMA AppendStartInv ==
    ASSUME Inv, NEW r \in Records, AppendStart(r) PROVE Inv'
<1>1. /\ call.pc = "idle"
      /\ store.ino # 0 /\ ~store.failed
      /\ RecordBytes(r) <= store.quota - store.bytes_used
      /\ UNCHANGED <<disk, path, inodes, store, reader, acked, crashes>>
  BY DEF AppendStart, CanAppend
<1>2. call' = [pc |-> "write", op |-> "append", quota |-> 0, max |-> 0, keep |-> 0, rec |-> r]
  BY DEF AppendStart, Idle
<1>3. call' \in Calls /\ call'.pc = "write" /\ call'.rec = r
  BY <1>2 DEF Calls
<1>4. store.quota \in Nat /\ store.bytes_used \in Nat /\ RecordBytes(r) \in Nat
  BY FrameSize DEF Inv, TypeOK, Stores
<1>5. AppendInv' /\ RecoverInv'
  BY <1>1, <1>3, <1>4 DEF AppendInv, RecoverInv, RecordBytes
<1> QED
  BY <1>1, <1>3, <1>5, CallStep

\* The file an append writes to, before anything of the frame is in it.
LEMMA AppendFile ==
    ASSUME Inv, call.pc = "write"
    PROVE  /\ store.ino \in 1..MaxInodes /\ store.ino <= inodes /\ store.ino = path
           /\ call.rec \in Records
           /\ RecordBytes(call.rec) \in Nat
           /\ disk[store.ino].tail = 0
           /\ ValidBytes(disk[store.ino]) = store.bytes_used
           /\ Len(disk[store.ino].recs) = store.record_count
           /\ store.bytes_used \in Nat /\ store.record_count \in Nat /\ store.quota \in Nat
           /\ store.bytes_used + RecordBytes(call.rec) <= store.quota
           /\ \E cfg \in Configs : cfg.quota = store.quota
           /\ ~store.failed
<1>1. /\ store.ino # 0 /\ ~store.failed /\ call.rec \in Records
      /\ store.bytes_used + RecordBytes(call.rec) <= store.quota
  BY DEF Inv, AppendInv
<1>2. store.ino \in 1..MaxInodes /\ store.ino <= inodes
  BY <1>1, Inodes
<1>3. /\ store.ino = path
      /\ disk[store.ino].tail = 0
      /\ ValidBytes(disk[store.ino]) = store.bytes_used
      /\ Len(disk[store.ino].recs) = store.record_count
      /\ \E cfg \in Configs : cfg.quota = store.quota
  BY <1>1 DEF Inv, StoreInv
<1>4. store.bytes_used \in Nat /\ store.record_count \in Nat /\ store.quota \in Nat
  BY DEF Inv, TypeOK, Stores
<1> QED
  BY <1>1, <1>2, <1>3, <1>4, FrameSize

LEMMA AppendFlushInv == ASSUME Inv, AppendFlush PROVE Inv'
<1> DEFINE c == disk[store.ino]
           d == WriteFrame(c, call.rec)
<1>1. /\ call.pc = "write"
      /\ disk' = [disk EXCEPT ![store.ino] = d]
      /\ call' = [call EXCEPT !.pc = "count"]
      /\ UNCHANGED <<path, inodes, store, reader, acked, crashes>>
  BY DEF AppendFlush
<1>2. call' \in Calls /\ call'.pc = "count" /\ call'.rec = call.rec
  BY <1>1 DEF Inv, TypeOK, Calls
<1>3. c \in Contents /\ Laid(c) /\ c.tail = 0 /\ Len(c.recs) \in Nat /\ call.rec \in Records
  BY <1>1, AppendFile, FileOK
<1>4. /\ d \in Contents /\ Laid(d) /\ d.tail = 0
      /\ Len(d.recs) = Len(c.recs) + 1
      /\ \A k \in 1..Len(c.recs) : d.recs[k] = c.recs[k]
      /\ d.recs[Len(c.recs) + 1].val = call.rec
      /\ ValidBytes(d) = ValidBytes(c) + RecordBytes(call.rec)
  BY <1>3, WriteFrameFile
<1> HIDE DEF d
<1>5. FileBytes(d) = store.bytes_used + RecordBytes(call.rec)
  BY <1>1, <1>4, AppendFile DEF FileBytes
<1>6. \E cfg \in Configs : FileBytes(d) <= cfg.quota
  BY <1>1, <1>5, AppendFile
<1>7. /\ disk' \in [1..MaxInodes -> Contents]
      /\ \A j \in 1..MaxInodes : Laid(disk[j])'
      /\ \A j \in 1..MaxInodes : j > inodes => disk'[j] = Empty
      /\ ReaderInv' /\ AckedStays' /\ EndMeansAll' /\ DiskBounded'
  <2>1. Len(c.recs) <= Len(d.recs)
    BY <1>3, <1>4
  <2>2. store.ino \in 1..MaxInodes /\ store.ino <= inodes
    BY <1>1, AppendFile
  <2> QED
    BY <1>1, <1>4, <1>6, <2>1, <2>2, GrowStep
<1>8. TypeOK' /\ InodesInv'
  BY <1>1, <1>2, <1>7 DEF Inv, TypeOK, InodesInv
<1>9. disk'[store.ino] = d
  BY <1>1, AppendFile DEF Inv, TypeOK
<1>10. StoreInv'
  <2>1. /\ ValidBytes(disk'[store.ino]) = store.bytes_used + RecordBytes(call.rec)
        /\ Len(disk'[store.ino].recs) = store.record_count + 1
        /\ disk'[store.ino].recs[store.record_count + 1].val = call.rec
        /\ disk'[store.ino].tail = 0
    BY <1>1, <1>4, <1>9, AppendFile
  <2>2. /\ store' = store /\ path' = path /\ store.ino = path /\ ~store.failed
        /\ \E cfg \in Configs : cfg.quota = store.quota
    BY <1>1, AppendFile
  <2> QED
    BY <1>2, <2>1, <2>2 DEF StoreInv, ValidBytes, EndOf, RecordBytes
<1>11. AppendInv' /\ RecoverInv'
  BY <1>1, <1>2 DEF Inv, AppendInv, RecoverInv, RecordBytes
<1> QED
  BY <1>7, <1>8, <1>10, <1>11 DEF Inv

LEMMA AppendReturnInv == ASSUME Inv, AppendReturn PROVE Inv'
<1> DEFINE c == disk[store.ino]
           n == RecordBytes(call.rec)
<1>1. /\ call.pc = "count"
      /\ store' = [store EXCEPT !.bytes_used = @ + n, !.record_count = @ + 1]
      /\ acked' = acked \cup {<<store.record_count + 1, call.rec>>}
      /\ call' = Idle
      /\ UNCHANGED <<disk, path, inodes, reader, crashes>>
  BY DEF AppendReturn, Return
<1>2. /\ store.ino # 0 /\ ~store.failed /\ call.rec \in Records
      /\ store.bytes_used + n <= store.quota
  BY <1>1 DEF Inv, AppendInv
<1>3. /\ store.ino = path
      /\ c.tail = 0
      /\ ValidBytes(c) = store.bytes_used + n
      /\ Len(c.recs) = store.record_count + 1
      /\ c.recs[store.record_count + 1].val = call.rec
      /\ \E cfg \in Configs : cfg.quota = store.quota
  BY <1>1, <1>2 DEF Inv, StoreInv
<1>4. n \in Nat /\ store.bytes_used \in Nat /\ store.record_count \in Nat
  BY <1>2, FrameSize DEF Inv, TypeOK, Stores
<1> HIDE DEF n
<1>5. /\ store' \in Stores
      /\ store'.ino = store.ino /\ store'.quota = store.quota /\ store'.failed = store.failed
      /\ store'.bytes_used = store.bytes_used + n
      /\ store'.record_count = store.record_count + 1
  <2>1. store \in Stores
    BY DEF Inv, TypeOK
  <2>2. store' = [store EXCEPT !.bytes_used = @ + n, !.record_count = @ + 1]
    BY <1>1
  <2> QED
    BY ONLY <1>4, <2>1, <2>2, StoreCounted
<1>6. TypeOK'
  <2>1. acked' \in SUBSET (Nat \X Records)
    BY <1>1, <1>2, <1>4 DEF Inv, TypeOK
  <2> QED
    BY <1>1, <1>2, <1>5, <2>1, IdleCall DEF Inv, TypeOK
<1>7. InodesInv'
  BY <1>1, <1>5 DEF Inv, InodesInv
<1>8. StoreInv'
  BY <1>1, <1>2, <1>3, <1>5, IdleCall DEF StoreInv
<1>9. AppendInv' /\ RecoverInv'
  BY <1>1, IdleCall DEF AppendInv, RecoverInv
<1>10. ReaderInv' /\ EndMeansAll' /\ DiskBounded'
  BY <1>1 DEF Inv, ReaderInv, EndMeansAll, DiskBounded
<1>11. AckedStays'
  BY <1>1, <1>2, <1>3, <1>4 DEF Inv, AckedStays
<1> QED
  BY <1>6, <1>7, <1>8, <1>9, <1>10, <1>11 DEF Inv

\* What an interrupted append leaves of its file.
LEMMA InterruptedStep ==
    ASSUME Inv, call.pc = "write", NEW n \in Cuts(call.rec),
           disk' = [disk EXCEPT ![store.ino] = Interrupted(@, call.rec, n)],
           UNCHANGED <<path, inodes, acked>>,
           reader' = reader \/ reader' = ClosedReader
    PROVE  /\ disk' \in [1..MaxInodes -> Contents]
           /\ \A j \in 1..MaxInodes : Laid(disk[j])'
           /\ \A j \in 1..MaxInodes : j > inodes => disk'[j] = Empty
           /\ ReaderInv' /\ AckedStays' /\ EndMeansAll' /\ DiskBounded'
           /\ ValidBytes(disk'[store.ino]) = store.bytes_used
<1> DEFINE c == disk[store.ino]
           d == Interrupted(c, call.rec, n)
<1>1. c \in Contents /\ Laid(c) /\ c.tail = 0 /\ Len(c.recs) \in Nat /\ call.rec \in Records
  BY AppendFile, FileOK
<1>2. /\ d \in Contents /\ Laid(d) /\ d.recs = c.recs
      /\ ValidBytes(d) = ValidBytes(c)
      /\ d.tail \in Nat /\ d.tail < RecordBytes(call.rec)
  BY <1>1, InterruptedFile
<1>3. disk' = [disk EXCEPT ![store.ino] = d]
  OBVIOUS
<1> HIDE DEF d
<1>4. FileBytes(d) = store.bytes_used + d.tail
  BY <1>2, AppendFile DEF FileBytes
<1>5. \E cfg \in Configs : FileBytes(d) <= cfg.quota
  BY <1>2, <1>4, AppendFile
<1>6. store.ino \in 1..MaxInodes /\ store.ino <= inodes
  BY AppendFile
<1>7. disk'[store.ino] = d
  BY <1>3, <1>6 DEF Inv, TypeOK
<1>8. ValidBytes(disk'[store.ino]) = store.bytes_used
  BY <1>2, <1>7, AppendFile
<1>9. Len(c.recs) <= Len(d.recs) /\ \A k \in 1..Len(c.recs) : d.recs[k] = c.recs[k]
  BY <1>1, <1>2
<1> QED
  BY <1>2, <1>3, <1>5, <1>6, <1>8, <1>9, GrowStep

LEMMA AppendFaultInv == ASSUME Inv, NEW n, AppendFault(n) PROVE Inv'
<1>1. /\ call.pc = "write" /\ n \in Cuts(call.rec)
      /\ disk' = [disk EXCEPT ![store.ino] = Interrupted(@, call.rec, n)]
      /\ store' = [store EXCEPT !.failed = TRUE, !.pending = call.rec]
      /\ call' = Idle
      /\ UNCHANGED <<path, inodes, reader, acked, crashes>>
  BY DEF AppendFault, Return
<1>2. /\ disk' \in [1..MaxInodes -> Contents]
      /\ \A j \in 1..MaxInodes : Laid(disk[j])'
      /\ \A j \in 1..MaxInodes : j > inodes => disk'[j] = Empty
      /\ ReaderInv' /\ AckedStays' /\ EndMeansAll' /\ DiskBounded'
      /\ ValidBytes(disk'[store.ino]) = store.bytes_used
  BY <1>1, InterruptedStep
<1>3. /\ store' \in Stores /\ store'.ino = store.ino /\ store'.quota = store.quota
      /\ store'.bytes_used = store.bytes_used
      /\ store'.failed /\ store'.pending = call.rec
  BY <1>1, AppendFile DEF Inv, TypeOK, Stores
<1>4. TypeOK'
  BY <1>1, <1>2, <1>3, IdleCall DEF Inv, TypeOK
<1>5. InodesInv'
  BY <1>1, <1>2, <1>3 DEF Inv, InodesInv
<1>6. StoreInv'
  <2>1. /\ ValidBytes(disk'[store'.ino]) + RecordBytes(store'.pending) <= store'.quota
        /\ store'.pending \in Records
        /\ \E cfg \in Configs : cfg.quota = store'.quota
    BY <1>1, <1>2, <1>3, AppendFile
  <2> QED
    BY <1>3, <2>1 DEF StoreInv, ValidBytes, EndOf, RecordBytes
<1>7. AppendInv' /\ RecoverInv'
  BY <1>1, IdleCall DEF AppendInv, RecoverInv
<1> QED
  BY <1>2, <1>4, <1>5, <1>6, <1>7 DEF Inv

LEMMA ClosedHandles ==
    /\ ClosedStore \in Stores /\ ClosedStore.ino = 0
    /\ ClosedStore.bytes_used <= ClosedStore.quota
    /\ ClosedReader \in Readers /\ ClosedReader.ino = 0 /\ ClosedReader.status = "closed"
<1>1. << >> \in Seq(Records)
  BY EmptySeq
<1> QED
  BY <1>1, BoundsAssumption DEF ClosedStore, ClosedReader, Stores, Readers

LEMMA CloseStoreInv == ASSUME Inv, CloseStore PROVE Inv'
<1>1. /\ call.pc = "idle" /\ store.ino # 0 /\ store' = ClosedStore
      /\ UNCHANGED <<path, inodes, reader, call, acked, crashes>>
  BY DEF CloseStore
<1>2. StoreInv' /\ AppendInv' /\ RecoverInv'
  BY <1>1, ClosedHandles DEF StoreInv, AppendInv, RecoverInv
<1>3. CASE UNCHANGED disk
  <2>1. TypeOK'
    BY <1>1, <1>3, ClosedHandles DEF Inv, TypeOK
  <2>2. InodesInv'
    BY <1>1, <1>3, ClosedHandles, Inodes DEF Inv, InodesInv
  <2>3. ReaderInv' /\ AckedStays' /\ EndMeansAll' /\ DiskBounded'
    BY <1>1, <1>3 DEF Inv, ReaderInv, AckedStays, EndMeansAll, DiskBounded
  <2> QED
    BY <1>2, <2>1, <2>2, <2>3 DEF Inv
<1>4. CASE /\ store.failed
           /\ disk' = [disk EXCEPT ![store.ino] = Complete(@, store.pending)]
  <2> DEFINE c == disk[store.ino]
             d == Complete(c, store.pending)
  <2>1. /\ store.pending \in Records
        /\ ValidBytes(c) + RecordBytes(store.pending) <= store.quota
        /\ \E cfg \in Configs : cfg.quota = store.quota
    BY <1>1, <1>4 DEF Inv, StoreInv
  <2>2. store.ino \in 1..MaxInodes /\ store.ino <= inodes
    BY <1>1, Inodes
  <2>3. /\ c \in Contents /\ Laid(c) /\ Len(c.recs) \in Nat
        /\ ValidBytes(c) \in Nat /\ RecordBytes(store.pending) \in Nat
    BY <2>1, <2>2, FileOK, FrameSize
  <2>4. /\ d \in Contents /\ Laid(d) /\ d.tail = 0
        /\ Len(d.recs) = Len(c.recs) + 1
        /\ \A k \in 1..Len(c.recs) : d.recs[k] = c.recs[k]
        /\ ValidBytes(d) = ValidBytes(c) + RecordBytes(store.pending)
    BY <2>1, <2>3, CompleteFile
  <2>5. disk' = [disk EXCEPT ![store.ino] = d]
    BY <1>4
  <2> HIDE DEF d
  <2>6. FileBytes(d) = ValidBytes(c) + RecordBytes(store.pending)
    BY <2>3, <2>4 DEF FileBytes
  <2>7. \E cfg \in Configs : FileBytes(d) <= cfg.quota
    BY <2>1, <2>6
  <2>8. Len(c.recs) <= Len(d.recs)
    BY <2>3, <2>4
  <2>9. /\ disk' \in [1..MaxInodes -> Contents]
        /\ \A j \in 1..MaxInodes : Laid(disk[j])'
        /\ \A j \in 1..MaxInodes : j > inodes => disk'[j] = Empty
        /\ ReaderInv' /\ AckedStays' /\ EndMeansAll' /\ DiskBounded'
    BY <1>1, <2>2, <2>4, <2>5, <2>7, <2>8, GrowStep
  <2>10. TypeOK'
    BY <1>1, <2>9, ClosedHandles DEF Inv, TypeOK
  <2>11. InodesInv'
    BY <1>1, <2>9, ClosedHandles, Inodes DEF Inv, InodesInv
  <2> QED
    BY <1>2, <2>9, <2>10, <2>11 DEF Inv
<1> QED
  BY <1>3, <1>4 DEF CloseStore

LEMMA WriteInvariant == ASSUME Inv, Write PROVE Inv'
  BY FinishOpenInv, CreateExclusiveInv, AppendStartInv, AppendFlushInv, AppendReturnInv,
     AppendFaultInv, CloseStoreInv DEF Write

-----------------------------------------------------------------------------
(* The reader *)

\* A reader opened by a call is owed what has been acknowledged, and the file
\* recovery left under the path holds it.
LEMMA FinishReaderOpenInv == ASSUME Inv, FinishReaderOpen PROVE Inv'
<1>1. /\ path # 0 /\ call' = Idle
      /\ call.quota \in Nat /\ call.max \in Nat
      /\ UNCHANGED <<disk, path, inodes, store, acked, crashes>>
      /\ call.pc = "recovered"
  BY DEF FinishReaderOpen, Return, Inv, TypeOK, Calls
<1>2. reader' = [ino |-> path, quota |-> call.quota, max |-> call.max, bytes_read |-> 0,
                 got |-> << >>, status |-> "open", owed |-> acked]
  BY DEF FinishReaderOpen, ClosedReader
<1>3. << >> \in Seq(Records) /\ Len(<< >>) = 0
  BY EmptySeq
<1>4. acked \in SUBSET (Nat \X Records) /\ path \in 0..MaxInodes
  BY DEF Inv, TypeOK
<1>5. reader' \in Readers
  BY <1>1, <1>2, <1>3, <1>4 DEF Readers
<1>6. /\ reader'.ino = path /\ Len(reader'.got) = 0
      /\ reader'.owed = acked /\ reader'.status = "open"
  BY <1>2, <1>3
<1>7. TypeOK'
  BY <1>1, <1>5, IdleCall DEF Inv, TypeOK
<1>8. InodesInv'
  BY <1>1, <1>6, Inodes DEF Inv, InodesInv
<1>9. StoreInv' /\ AppendInv' /\ RecoverInv'
  BY <1>1, IdleCall DEF Inv, StoreInv, AppendInv, RecoverInv
<1>10. ReaderInv'
  <2>1. Len(disk[path].recs) \in Nat
    BY <1>1, OpenedFile
  <2>2. \A q \in acked : q[1] \in 1..Len(disk[path].recs) /\ disk[path].recs[q[1]].val = q[2]
    BY DEF Inv, AckedStays
  <2> QED
    BY <1>1, <1>6, <2>1, <2>2 DEF ReaderInv
<1>11. AckedStays' /\ EndMeansAll' /\ DiskBounded'
  BY <1>1, <1>6 DEF Inv, AckedStays, EndMeansAll, DiskBounded
<1> QED
  BY <1>7, <1>8, <1>9, <1>10, <1>11 DEF Inv

\* The reader moves on over one record of its file.
LEMMA ReadRecordInv == ASSUME Inv, ReadRecord PROVE Inv'
<1> DEFINE c == disk[reader.ino]
           r == c.recs[Len(reader.got) + 1].val
           k == Len(reader.got) + 1
<1>1. /\ reader.status = "open"
      /\ k <= Len(c.recs)
      /\ UNCHANGED <<disk, path, inodes, store, call, acked, crashes>>
  BY DEF ReadRecord, ReadFile
<1>2. reader' = [reader EXCEPT !.got = Append(@, r), !.bytes_read = @ + RecordBytes(r)]
  BY DEF ReadRecord, ReadFile
<1>3. /\ reader.ino # 0
      /\ Len(reader.got) <= Len(c.recs)
      /\ \A j \in 1..Len(reader.got) : reader.got[j] = c.recs[j].val
      /\ \A p \in reader.owed : p[1] \in 1..Len(c.recs) /\ c.recs[p[1]].val = p[2]
  BY <1>1 DEF Inv, ReaderInv
<1>4. /\ reader \in Readers
      /\ reader.ino \in 1..MaxInodes /\ reader.ino <= inodes
  BY <1>3, Inodes DEF Inv, TypeOK
<1>5. /\ reader.got \in Seq(Records) /\ Len(reader.got) \in Nat
      /\ reader.bytes_read \in Nat
  BY <1>4, LenProperties DEF Readers
<1>6. c \in Contents /\ Len(c.recs) \in Nat
  BY <1>4, FileOK
<1>7. r \in Records /\ RecordBytes(r) \in Nat
  <2>1. k \in 1..Len(c.recs)
    BY <1>1, <1>5, <1>6
  <2> QED
    BY <1>6, <2>1, PrefixSizes, FrameSize
<1> DEFINE g == Append(reader.got, r)
<1>8. /\ g \in Seq(Records) /\ Len(g) = k
      /\ \A j \in 1..Len(reader.got) : g[j] = reader.got[j]
      /\ g[k] = r
  BY <1>5, <1>7, AppendProperties
<1> DEFINE b == reader.bytes_read + RecordBytes(r)
<1>9. reader' = [reader EXCEPT !.got = g, !.bytes_read = b]
  BY <1>2
<1>10. b \in Nat
  BY <1>5, <1>7
<1> HIDE DEF g, b
<1>11. /\ reader' \in Readers
       /\ reader'.ino = reader.ino /\ reader'.status = "open"
       /\ reader'.owed = reader.owed /\ reader'.got = g
  <2>1. reader \in Readers /\ g \in Seq(Records) /\ b \in Nat /\ reader.status = "open"
    BY <1>1, <1>4, <1>8, <1>10
  <2>2. /\ [reader EXCEPT !.got = g, !.bytes_read = b] \in Readers
        /\ [reader EXCEPT !.got = g, !.bytes_read = b].ino = reader.ino
        /\ [reader EXCEPT !.got = g, !.bytes_read = b].status = reader.status
        /\ [reader EXCEPT !.got = g, !.bytes_read = b].owed = reader.owed
        /\ [reader EXCEPT !.got = g, !.bytes_read = b].got = g
    BY ONLY <2>1 DEF Readers
  <2> QED
    BY ONLY <1>9, <2>1, <2>2
<1>12. ReaderInv'
  <2>1. \A j \in 1..Len(g) : g[j] = c.recs[j].val
    <3> SUFFICES ASSUME NEW j \in 1..k PROVE g[j] = c.recs[j].val
      BY <1>8
    <3>1. CASE j \in 1..Len(reader.got)
      BY <1>3, <1>8, <3>1
    <3>2. CASE j = k
      BY <1>8, <3>2
    <3> QED
      BY <1>5, <3>1, <3>2
  <2> QED
    BY <1>1, <1>3, <1>8, <1>11, <2>1 DEF ReaderInv
<1>13. EndMeansAll'
  BY <1>11 DEF EndMeansAll
<1> QED
  BY <1>1, <1>4, <1>11, <1>12, <1>13, ReaderStep

LEMMA ReaderStatus ==
    ASSUME NEW s \in Readers, NEW v \in {"end", "error"}
    PROVE  LET t == [s EXCEPT !.status = v] IN
           /\ t \in Readers /\ t.ino = s.ino /\ t.got = s.got /\ t.owed = s.owed
           /\ t.status = v
  BY DEF Readers

LEMMA ReadErrorInv == ASSUME Inv, ReadError PROVE Inv'
<1>1. /\ reader.status = "open"
      /\ reader' = [reader EXCEPT !.status = "error"]
      /\ UNCHANGED <<disk, path, inodes, store, call, acked, crashes>>
  BY DEF ReadError
<1>2. /\ reader' \in Readers /\ reader'.ino = reader.ino /\ reader'.got = reader.got
      /\ reader'.owed = reader.owed /\ reader'.status = "error"
  BY <1>1, ReaderStatus DEF Inv, TypeOK
<1>3. ReaderInv' /\ EndMeansAll'
  BY <1>1, <1>2 DEF Inv, ReaderInv, EndMeansAll
<1> QED
  BY <1>1, <1>2, <1>3, Inodes, ReaderStep

\* At the end of the file the reader has every record of it.
LEMMA ReadEndInv == ASSUME Inv, ReadEnd PROVE Inv'
<1>1. /\ reader.status = "open"
      /\ Len(reader.got) = Len(disk[reader.ino].recs)
      /\ reader' = [reader EXCEPT !.status = "end"]
      /\ UNCHANGED <<disk, path, inodes, store, call, acked, crashes>>
  BY DEF ReadEnd, ReadFile
<1>2. /\ reader' \in Readers /\ reader'.ino = reader.ino /\ reader'.got = reader.got
      /\ reader'.owed = reader.owed /\ reader'.status = "end"
  BY <1>1, ReaderStatus DEF Inv, TypeOK
<1>3. ReaderInv'
  BY <1>1, <1>2 DEF Inv, ReaderInv
<1>4. EndMeansAll'
  BY <1>1, <1>2 DEF Inv, ReaderInv, EndMeansAll
<1> QED
  BY <1>1, <1>2, <1>3, <1>4, Inodes, ReaderStep

LEMMA CloseReaderInv == ASSUME Inv, CloseReader PROVE Inv'
<1>1. /\ reader' = ClosedReader
      /\ UNCHANGED <<disk, path, inodes, store, call, acked, crashes>>
  BY DEF CloseReader
<1>2. ReaderInv' /\ EndMeansAll'
  BY <1>1, ClosedHandles DEF ReaderInv, EndMeansAll
<1> QED
  BY <1>1, <1>2, ClosedHandles, Inodes, ReaderStep

LEMMA ReadInvariant == ASSUME Inv, Read PROVE Inv'
  BY FinishReaderOpenInv, ReadRecordInv, ReadErrorInv, ReadEndInv, CloseReaderInv DEF Read

-----------------------------------------------------------------------------
(* Crashes, and every step *)

LEMMA CrashInv == ASSUME Inv, NEW n, Crash(n) PROVE Inv'
<1>1. /\ crashes < MaxCrashes /\ crashes' = crashes + 1
      /\ store' = ClosedStore /\ reader' = ClosedReader /\ call' = Idle
      /\ UNCHANGED <<path, inodes, acked>>
  BY DEF Crash, Return
<1>2. crashes' \in 0..MaxCrashes
  BY <1>1, BoundsAssumption DEF Inv, TypeOK
<1>3. /\ disk' \in [1..MaxInodes -> Contents]
      /\ \A j \in 1..MaxInodes : Laid(disk[j])'
      /\ \A j \in 1..MaxInodes : j > inodes => disk'[j] = Empty
      /\ ReaderInv' /\ AckedStays' /\ EndMeansAll' /\ DiskBounded'
  <2>1. CASE call.pc = "write"
    <3>1. n \in Cuts(call.rec)
          /\ disk' = [disk EXCEPT ![store.ino] = Interrupted(@, call.rec, n)]
      BY <2>1 DEF Crash
    <3> QED
      BY <1>1, <2>1, <3>1, InterruptedStep
  <2>2. CASE call.pc # "write"
    <3>1. disk' = disk
      BY <2>2 DEF Crash
    <3>2. ReaderInv' /\ EndMeansAll'
      BY <1>1, ClosedHandles DEF ReaderInv, EndMeansAll
    <3>3. AckedStays' /\ DiskBounded'
      BY <1>1, <3>1 DEF Inv, AckedStays, DiskBounded
    <3>4. /\ disk' \in [1..MaxInodes -> Contents]
          /\ \A j \in 1..MaxInodes : Laid(disk[j])'
          /\ \A j \in 1..MaxInodes : j > inodes => disk'[j] = Empty
      BY <1>1, <3>1 DEF Inv, TypeOK, InodesInv
    <3> QED
      BY <3>2, <3>3, <3>4
  <2> QED
    BY <2>1, <2>2
<1>4. TypeOK'
  BY <1>1, <1>2, <1>3, ClosedHandles, IdleCall DEF Inv, TypeOK
<1>5. InodesInv'
  BY <1>1, <1>3, ClosedHandles, Inodes DEF Inv, InodesInv
<1>6. StoreInv' /\ AppendInv' /\ RecoverInv'
  BY <1>1, ClosedHandles, IdleCall DEF StoreInv, AppendInv, RecoverInv
<1> QED
  BY <1>3, <1>4, <1>5, <1>6 DEF Inv

LEMMA NextInv == ASSUME Inv, [Next]_vars PROVE Inv'
<1>1. CASE UNCHANGED vars
  BY <1>1, StutterInv
<1>2. CASE Next
  BY <1>2, RecoverInvariant, WriteInvariant, ReadInvariant, CrashInv DEF Next
<1> QED
  BY <1>1, <1>2

-----------------------------------------------------------------------------
(* The refinement of SpillLog *)

\* The log the file behind the path stands for.
FileLog == IF path = 0 THEN << >> ELSE Values(disk[path])

\* The payloads of a file, as a sequence.
LEMMA ValuesSeq ==
    ASSUME NEW c \in Contents
    PROVE  /\ Values(c) \in Seq(Records)
           /\ Len(Values(c)) = Len(c.recs)
           /\ \A k \in 1..Len(c.recs) : Values(c)[k] = c.recs[k].val
<1>1. Len(c.recs) \in Nat /\ \A k \in 1..Len(c.recs) : c.recs[k].val \in Records
  BY PrefixSizes
<1>2. Values(c) \in [1..Len(c.recs) -> Records]
  BY <1>1 DEF Values
<1> QED
  BY <1>1, <1>2 DEF Values

LEMMA EmptyValues == Values(Empty) = << >>
<1>1. Empty \in Contents /\ Len(Empty.recs) = 0
  BY EmptySeq DEF Empty, Contents
<1>2. Values(Empty) \in Seq(Records) /\ Len(Values(Empty)) = 0
  BY <1>1, ValuesSeq
<1> QED
  BY <1>2, EmptySeq

\* One record more in a file is one record more in its log.
LEMMA ValuesAppend ==
    ASSUME NEW c \in Contents, NEW d \in Contents, NEW r \in Records,
           Len(d.recs) = Len(c.recs) + 1,
           \A k \in 1..Len(c.recs) : d.recs[k] = c.recs[k],
           d.recs[Len(c.recs) + 1].val = r
    PROVE  Values(d) = Append(Values(c), r)
<1> DEFINE v == Values(c)
           w == Values(d)
           a == Append(v, r)
<1>1. /\ v \in Seq(Records) /\ Len(v) = Len(c.recs) /\ Len(v) \in Nat
      /\ \A k \in 1..Len(v) : v[k] = c.recs[k].val
  BY ValuesSeq, LenProperties
<1>2. /\ w \in Seq(Records) /\ Len(w) = Len(v) + 1
      /\ \A k \in 1..Len(v) + 1 : w[k] = d.recs[k].val
  BY <1>1, ValuesSeq
<1>3. /\ a \in Seq(Records) /\ Len(a) = Len(v) + 1
      /\ \A k \in 1..Len(v) : a[k] = v[k]
      /\ a[Len(v) + 1] = r
  BY <1>1, AppendProperties
<1>4. ASSUME NEW k \in 1..Len(v) + 1 PROVE w[k] = a[k]
  <2>1. CASE k \in 1..Len(v)
    BY <2>1, <1>1, <1>2, <1>3
  <2>2. CASE k = Len(v) + 1
    BY <2>2, <1>1, <1>2, <1>3
  <2> QED
    BY <2>1, <2>2, <1>1
<1> HIDE DEF v, w, a
<1>5. w = a
  BY <1>2, <1>3, <1>4, SeqEqual
<1> QED
  BY <1>5 DEF v, w, a

\* The log is the same when the file behind the path has the same records.
LEMMA SameLog ==
    ASSUME path' = path,
           path # 0 => disk'[path].recs = disk[path].recs
    PROVE  FileLog' = FileLog
  BY DEF FileLog, Values

\* A new file is an empty log.
LEMMA CreatedLog ==
    ASSUME Inv, path = 0, inodes < MaxInodes, path' = inodes + 1, disk' = disk
    PROVE  FileLog' = FileLog
<1>1. inodes \in Nat /\ inodes + 1 \in 1..MaxInodes /\ disk[inodes + 1] = Empty
  BY Inodes, BoundsAssumption DEF Inv, InodesInv
<1>2. Values(disk'[path']) = << >>
  BY <1>1, EmptyValues
<1> QED
  BY <1>1, <1>2 DEF FileLog

LogNext == Log!Next \/ UNCHANGED <<FileLog, acked>>

LEMMA RecoverLog == ASSUME Inv, Recover PROVE LogNext
<1>1. CASE UNCHANGED <<disk, path, acked>>
  BY <1>1, SameLog DEF LogNext
<1>2. CASE RecoverCopy
  <2>1. /\ path # 0 /\ acked' = acked /\ path' = path
        /\ disk' = [disk EXCEPT ![inodes + 1] = Prefix(disk[path], Len(disk[path].recs))]
    BY <1>2 DEF RecoverCopy, CopyPrefix
  <2>2. path # inodes + 1 /\ path \in 1..MaxInodes
    BY <2>1, Inodes
  <2>3. disk'[path] = disk[path]
    BY <2>1, <2>2 DEF Inv, TypeOK
  <2> QED
    BY <2>1, <2>3, SameLog DEF LogNext
<1>3. CASE RecoverRename
  <2>1. path' = inodes /\ disk' = disk /\ acked' = acked /\ call.pc = "rename"
    BY <1>3 DEF RecoverRename
  <2>2. path # 0 /\ inodes # 0 /\ disk[inodes].recs = disk[path].recs
    BY <2>1, Inodes DEF Inv, RecoverInv
  <2>3. Values(disk'[path']) = Values(disk[path])
    BY <2>1, <2>2 DEF Values
  <2> QED
    BY <2>1, <2>2, <2>3 DEF FileLog, LogNext
<1> QED
  BY <1>1, <1>2, <1>3 DEF Recover, StartRecover, RecoverMissing, RecoverReject, RecoverClean,
     RecoverFault, RecoverReturn

\* The frame that is written whole is stored.
LEMMA AppendFlushLog == ASSUME Inv, AppendFlush PROVE LogNext
<1> DEFINE c == disk[path]
           d == WriteFrame(c, call.rec)
<1>1. /\ call.pc = "write" /\ path' = path /\ acked' = acked
      /\ disk' = [disk EXCEPT ![store.ino] = WriteFrame(@, call.rec)]
  BY DEF AppendFlush
<1>2. store.ino = path /\ path \in 1..MaxInodes /\ call.rec \in Records /\ c.tail = 0
  BY <1>1, AppendFile
<1>3. c \in Contents /\ Laid(c)
  BY <1>2, FileOK
<1>4. /\ d \in Contents
      /\ Len(d.recs) = Len(c.recs) + 1
      /\ \A k \in 1..Len(c.recs) : d.recs[k] = c.recs[k]
      /\ d.recs[Len(c.recs) + 1].val = call.rec
  BY <1>2, <1>3, WriteFrameFile
<1>5. disk'[path] = d
  BY <1>1, <1>2 DEF Inv, TypeOK
<1> HIDE DEF d
<1>6. Values(d) = Append(Values(c), call.rec)
  BY <1>2, <1>3, <1>4, ValuesAppend
<1>7. FileLog' = Append(FileLog, call.rec)
  BY <1>1, <1>2, <1>5, <1>6 DEF FileLog
<1>8. Log!Store(call.rec)
  BY <1>1, <1>7 DEF Log!Store, FileLog
<1> QED
  BY <1>2, <1>8 DEF LogNext, Log!Next

\* A late flush stores the record of the failed append, if its file is still
\* the one behind the path.
LEMMA CloseStoreLog == ASSUME Inv, CloseStore PROVE LogNext
<1> DEFINE c == disk[store.ino]
           d == Complete(c, store.pending)
<1>1. path' = path /\ acked' = acked /\ store.ino # 0
  BY DEF CloseStore
<1>2. CASE UNCHANGED disk
  BY <1>1, <1>2, SameLog DEF LogNext
<1>3. CASE store.failed /\ disk' = [disk EXCEPT ![store.ino] = d]
  <2>1. store.pending \in Records /\ store.ino \in 1..MaxInodes
    BY <1>1, <1>3, Inodes DEF Inv, StoreInv
  <2>2. c \in Contents /\ Laid(c)
    BY <2>1, FileOK
  <2>3. /\ d \in Contents
        /\ Len(d.recs) = Len(c.recs) + 1
        /\ \A k \in 1..Len(c.recs) : d.recs[k] = c.recs[k]
        /\ d.recs[Len(c.recs) + 1].val = store.pending
    BY <2>1, <2>2, CompleteFile
  <2>4. /\ disk'[store.ino] = d
        /\ \A j \in 1..MaxInodes : j # store.ino => disk'[j] = disk[j]
    BY <1>3, <2>1 DEF Inv, TypeOK
  <2> HIDE DEF d
  <2>5. CASE store.ino = path
    <3>1. Values(d) = Append(Values(c), store.pending)
      BY <2>1, <2>2, <2>3, ValuesAppend
    <3>2. FileLog' = Append(FileLog, store.pending)
      BY <1>1, <2>4, <2>5, <3>1 DEF FileLog
    <3>3. Log!Store(store.pending)
      BY <1>1, <3>2 DEF Log!Store, FileLog
    <3> QED
      BY <2>1, <3>3 DEF LogNext, Log!Next
  <2>6. CASE store.ino # path
    <3>1. path # 0 => disk'[path] = disk[path]
      BY <2>4, <2>6, Inodes
    <3> QED
      BY <1>1, <3>1, SameLog DEF LogNext
  <2> QED
    BY <2>5, <2>6
<1> QED
  BY <1>2, <1>3 DEF CloseStore

\* The record append returns OK for is the newest of the log.
LEMMA AppendReturnLog == ASSUME Inv, AppendReturn PROVE LogNext
<1> DEFINE c == disk[path]
<1>1. /\ call.pc = "count" /\ path' = path /\ disk' = disk
      /\ acked' = acked \cup {<<store.record_count + 1, call.rec>>}
  BY DEF AppendReturn
<1>2. /\ store.ino = path /\ path # 0
      /\ Len(c.recs) = store.record_count + 1
      /\ c.recs[store.record_count + 1].val = call.rec
  BY <1>1 DEF Inv, AppendInv, StoreInv
<1>3. path \in 1..MaxInodes /\ store.record_count \in Nat
  BY <1>2, Inodes DEF Inv, TypeOK, Stores
<1>4. FileLog = Values(c) /\ FileLog' = FileLog
  BY <1>1, <1>2, SameLog DEF FileLog
<1>5. /\ FileLog \in Seq(Records)
      /\ Len(FileLog) = store.record_count + 1
      /\ FileLog[store.record_count + 1] = call.rec
  <2>1. c \in Contents /\ store.record_count + 1 \in 1..Len(c.recs)
    BY <1>2, <1>3, FileOK
  <2>2. /\ Values(c) \in Seq(Records)
        /\ Len(Values(c)) = Len(c.recs)
        /\ \A k \in 1..Len(c.recs) : Values(c)[k] = c.recs[k].val
    BY <2>1, ValuesSeq
  <2> QED
    BY <1>2, <1>4, <2>1, <2>2
<1>6. FileLog # << >>
  BY <1>3, <1>5, EmptySeq
<1>7. Log!Acknowledge
  BY <1>1, <1>4, <1>5, <1>6 DEF Log!Acknowledge, FileLog
<1> QED
  BY <1>7 DEF LogNext, Log!Next

\* An interrupted append leaves no record.
LEMMA InterruptedLog ==
    ASSUME Inv, call.pc = "write", NEW n \in Cuts(call.rec),
           disk' = [disk EXCEPT ![store.ino] = Interrupted(@, call.rec, n)],
           path' = path, acked' = acked
    PROVE  LogNext
<1>1. /\ path \in 1..MaxInodes /\ store.ino = path /\ call.rec \in Records
      /\ disk[path].tail = 0
  BY AppendFile
<1>2. disk[path] \in Contents /\ Laid(disk[path])
  BY <1>1, FileOK
<1>3. Interrupted(disk[path], call.rec, n).recs = disk[path].recs
  BY <1>1, <1>2, InterruptedFile
<1>4. disk'[path] = Interrupted(disk[path], call.rec, n)
  BY <1>1 DEF Inv, TypeOK
<1> QED
  BY <1>3, <1>4, SameLog DEF LogNext

LEMMA WriteLog == ASSUME Inv, Write PROVE LogNext
<1>1. CASE UNCHANGED <<disk, path, acked>>
  BY <1>1, SameLog DEF LogNext
<1>2. CASE FinishOpen \/ \E cfg \in Configs : CreateExclusive(cfg)
  <2>1. disk' = disk /\ acked' = acked
    BY <1>2 DEF FinishOpen, CreateExclusive
  <2>2. path' = path \/ (path = 0 /\ inodes < MaxInodes /\ path' = inodes + 1)
    BY <1>2 DEF FinishOpen, CreateExclusive
  <2> QED
    BY <2>1, <2>2, SameLog, CreatedLog DEF LogNext
<1>3. ASSUME NEW n, AppendFault(n) PROVE LogNext
  BY <1>3, InterruptedLog DEF AppendFault
<1> QED
  BY <1>1, <1>2, <1>3, AppendFlushLog, AppendReturnLog, CloseStoreLog DEF Write, AppendStart

LEMMA CrashLog == ASSUME Inv, NEW n, Crash(n) PROVE LogNext
<1>1. path' = path /\ acked' = acked
  BY DEF Crash
<1>2. CASE call.pc = "write"
  BY <1>1, <1>2, InterruptedLog DEF Crash
<1>3. CASE call.pc # "write"
  BY <1>1, <1>3, SameLog DEF Crash, LogNext
<1> QED
  BY <1>2, <1>3

LEMMA StepLog == ASSUME Inv, [Next]_vars PROVE LogNext
<1>1. CASE UNCHANGED vars \/ Read
  <2>1. UNCHANGED <<disk, path, acked>>
    BY <1>1 DEF vars, Read, FinishReaderOpen, ReadRecord, ReadError, ReadEnd, CloseReader
  <2> QED
    BY <2>1, SameLog DEF LogNext
<1> QED
  BY <1>1, RecoverLog, WriteLog, CrashLog DEF Next

-----------------------------------------------------------------------------
(* The theorems *)

\* The inductive invariant holds: what the properties below rest on.
THEOREM Invariant == Spec => []Inv
<1>1. Init => Inv
  BY InitInv
<1>2. Inv /\ [Next]_vars => Inv'
  BY NextInv
<1> QED
  BY <1>1, <1>2, PTL DEF Spec

\* Every value keeps its type, and a handle never counts more bytes than its
\* quota, so that append's subtraction quota_bytes - bytes_used does not wrap.
THEOREM TypesHold == Spec => []TypeOK
  BY Invariant, PTL DEF Inv

\* bytes_used and record_count of a usable handle describe the file the path
\* names, whatever recoveries, crashes and other handles did before.
THEOREM CountersMatchFile == Spec => []HandleMatchesFile
<1>1. ASSUME Inv PROVE HandleMatchesFile
  <2> SUFFICES ASSUME store.ino # 0, ~store.failed, call.pc \notin {"write", "count"}
               PROVE  /\ store.ino = path
                      /\ disk[path].tail = 0
                      /\ store.bytes_used = FileBytes(disk[path])
                      /\ store.record_count = Len(disk[path].recs)
    BY DEF HandleMatchesFile
  <2>1. /\ store.ino = path /\ disk[path].tail = 0
        /\ store.bytes_used = ValidBytes(disk[path])
        /\ store.record_count = Len(disk[path].recs)
    BY <1>1 DEF Inv, StoreInv
  <2>2. path \in 1..MaxInodes
    BY <1>1, <2>1, Inodes
  <2>3. FileBytes(disk[path]) = ValidBytes(disk[path])
    BY <1>1, <2>1, <2>2, FileOK
  <2> QED
    BY <2>1, <2>3
<1> QED
  BY <1>1, Invariant, PTL

\* A record whose append returned OK is never lost, moved or changed by a later
\* failed write, crash, recovery or reopening.
THEOREM AcknowledgedRecordsStay == Spec => []AckedStays
  BY Invariant, PTL DEF Inv

\* reader_next reports the end only after every record that was acknowledged
\* when the reader was opened.
THEOREM ReadersSeeAll == Spec => []EndMeansAll
  BY Invariant, PTL DEF Inv

\* No failing append, late flush or recovery makes a file outgrow the quotas.
THEOREM FilesWithinQuota == Spec => []DiskBounded
  BY Invariant, PTL DEF Inv

\* The spill file implements the append-only log: every step of a handle, a
\* recovery or a crash stores one record, acknowledges the newest, or leaves the
\* log alone.
THEOREM RefinesLog == Spec => ImplementsLog
<1>1. Init => Log!Init
  BY DEF Init, Log!Init
<1>2. Inv /\ [Next]_vars => [Log!Next]_<<FileLog, acked>>
  BY StepLog DEF LogNext
<1> QED
  BY <1>1, <1>2, Invariant, PTL DEF Spec, ImplementsLog, Log!Spec, FileLog

=============================================================================
