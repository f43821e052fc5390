------------------------------- MODULE DataSession -------------------------------
(***************************************************************************)
(* A program that works with tables, data sets and arrays: every public    *)
(* operation is one call, whose result replaces what its destination held. *)
(* Beside it, data programs are bound to tables and run, and data plans    *)
(* are run on the files.                                                   *)
(*                                                                         *)
(* A session is where a program starts, and its menu the calls it may make *)
(* then: so many of them, in any order, the same one again or not.         *)
(***************************************************************************)
EXTENDS DataReport, DataProgram, ArrayNumbers

CONSTANT Sessions

\* What the calls on arrays are given: descriptors there are, shapes and strides
\* of one length, slices, a buffer with a deleter, and as many values as the
\* shape has elements.
ArrayCallOps ==
  {"from_values", "zeros", "from_buffer", "write", "release", "share", "swap_arrays", "retain",
   "reshape_view", "slice", "slice_within", "transpose", "broadcast", "reshape_copy", "boolean_mask",
   "nonzero", "where", "cast", "binary", "greater_f64", "is_nan", "is_finite", "sum", "product",
   "statistic", "percentile", "argmin", "argmax"}

IsBound(bound) == bound = <<>> \/ (Len(bound) = 1 /\ bound \in Seq(Int))

ArrayCallMakesSense(o, theHeap) ==
  /\ o.out \in DOMAIN theHeap.arrays
  /\ o.op \notin {"from_values", "zeros", "from_buffer", "write", "release", "retain", "swap_arrays", "where"} =>
       o.source \in DOMAIN theHeap.arrays
  /\ o.op \in {"swap_arrays", "boolean_mask", "binary"} => o.other \in DOMAIN theHeap.arrays
  /\ o.op = "where" => {o.condition, o.source, o.other} \subseteq DOMAIN theHeap.arrays
  /\ o.op \in {"from_values", "zeros", "reshape_view", "broadcast", "reshape_copy"} => o.shape \in Seq(Nat)
  /\ o.op \in {"slice", "slice_within"} =>
       o.slice.step \in Int /\ IsBound(o.slice.start) /\ IsBound(o.slice.stop)
  /\ o.op = "slice_within" => o.slice.start # <<>> /\ o.slice.stop # <<>>
  /\ o.op = "transpose" => o.axes \in Seq(Int)
  /\ o.op \in {"from_values", "from_buffer"} => AreCells(o.cells)
  /\ o.op = "from_values" => Len(o.cells) = Product(o.shape)
  /\ o.op = "from_buffer" =>
       /\ o.buffer \in DOMAIN theHeap.deleted \ {Internal}
       /\ o.view.shape \in Seq(Nat) /\ o.view.strides \in Seq(Int) /\ o.view.offset \in Nat
       /\ (o.view.strides # <<>> => Len(o.view.strides) = Len(o.view.shape))
  /\ o.op = "write" => o.index \in Nat

\* The columns a program declares have names.
CompileMakesSense(program) ==
  \A n \in DOMAIN program.declared :
    LET name == program.declared[n].name IN name \in Seq(ToSet(name))

\* A program starts with arrays that are what the library makes them.
ASSUME SessionsMakeSense ==
  \A n \in DOMAIN Sessions :
    /\ HeapSound(Sessions[n].heap, Sessions[n].adopted, <<>>)
    /\ \A k \in DOMAIN Sessions[n].menu :
         Sessions[n].menu[k].op \in ArrayCallOps =>
           ArrayCallMakesSense(Sessions[n].menu[k], Sessions[n].heap)
    /\ \A k \in DOMAIN Sessions[n].menu :
         Sessions[n].menu[k].op = "compile" => CompileMakesSense(Sessions[n].menu[k].program)

VARIABLES
  tables,         \* names -> tables
  datasets,       \* names -> data sets
  heap,           \* the arrays
  canonical,      \* names -> data programs and the tables they borrow
  menu,           \* the calls of this session
  answer          \* the last call, what it said, how many are left, the buffers
                  \* that were given to arrays, the storages that were retained
                  \* and the blocks that were compiled

state == <<tables, datasets, heap, canonical>>
vars == <<state, menu, answer, reportVars>>

NoCall == [op |-> "none"]

\* A program that was not parsed, or was released.
NoProgram == [parsed |-> FALSE, hir |-> {}, bound |-> FALSE, table |-> <<>>, right |-> <<>>]

Init ==
  \E n \in DOMAIN Sessions :
    /\ tables = Sessions[n].tables
    /\ datasets = Sessions[n].datasets
    /\ heap = Sessions[n].heap
    /\ canonical = [name \in Sessions[n].programs |-> NoProgram]
    /\ menu = Sessions[n].menu
    /\ files = Sessions[n].files
    /\ contents = Sessions[n].contents
    /\ job = Idle
    /\ answer = [call |-> NoCall, status |-> "ok", left |-> Sessions[n].calls,
                  adopted |-> Sessions[n].adopted, retained |-> <<>>, compiled |-> {}]

Asked(op) ==
  {menu[n] : n \in {k \in DOMAIN menu : answer.left > 0 /\ menu[k].op = op}}

Replied(o, status) ==
  /\ answer' = [answer EXCEPT !.call = o, !.status = status, !.left = @ - 1]
  /\ UNCHANGED <<menu, reportVars>>

-----------------------------------------------------------------------------
(* How a result lands.  A table that could not be made leaves what was there. *)

\* Mutant: the table is put in place before the outcome is known.
LandedAnyway(t, built) == built.table

Landed(t, built) == IF built.status = "ok" THEN built.table ELSE t

LandTable(o, built) ==
  /\ tables' = [tables EXCEPT ![o.out] = Landed(@, built)]
  /\ Replied(o, built.status)
  /\ UNCHANGED <<datasets, heap, canonical>>

\* A result made aside replaces only a table that is valid, or that nobody
\* initialised.
Committed(t, built) ==
  IF built.status = "ok" /\ t.ready /\ TableStatus(t) # "ok" THEN Failed(TableStatus(t)) ELSE built

\* The output is none of the inputs, which is the first thing that is looked at.
LandApart(o, sources, built) ==
  LandTable(o, IF o.out \in sources THEN Failed("argument") ELSE Committed(tables[o.out], built))

\* The rows to keep are found first; filtering by them then refuses the source
\* as its own output.
LandKept(o, built) ==
  LandTable(o, IF built.status = "ok" /\ o.out = o.source THEN Failed("argument")
               ELSE Committed(tables[o.out], built))

\* A table nobody initialised becomes an empty one when a column or a remark is
\* added, even when that then cannot be.
LandColumn(o, built) ==
  /\ tables' = [tables EXCEPT ![o.out] = Landed([@ EXCEPT !.ready = TRUE], built)]
  /\ Replied(o, built.status)
  /\ UNCHANGED <<datasets, heap, canonical>>

LandDataset(o, made) ==
  /\ datasets' = [datasets EXCEPT ![o.out] = IF made.status = "ok" THEN made.dataset ELSE @]
  /\ Replied(o, made.status)
  /\ UNCHANGED <<tables, heap, canonical>>

LandArray(o, result) ==
  /\ heap' = result.heap
  /\ Replied(o, result.status)
  /\ UNCHANGED <<tables, datasets, canonical>>

-----------------------------------------------------------------------------
(* Tables made from tables.                                                 *)

TableClone == \E o \in Asked("clone") : LandApart(o, {o.source}, Clone(tables[o.source]))

\* A mask is a valid boolean array of one axis.
MaskFits(name) ==
  LET d == heap.arrays[name] IN
  ValidateArray(heap.storages, d) = "ok" /\ d.dtype = "bool" /\ Len(d.shape) = 1

TableFilter ==
  \E o \in Asked("filter") :
    LandApart(o, {o.source},
      IF MaskFits(o.array) THEN Filter(tables[o.source], Elements(heap.storages, heap.arrays[o.array]))
      ELSE Guarded(tables[o.source], LAMBDA s : Failed("argument")))

TableSelect ==
  \E o \in Asked("select") : LandApart(o, {o.source}, SelectColumns(tables[o.source], o.names))

TableDropNulls ==
  \E o \in Asked("drop_nulls") : LandApart(o, {o.source}, DropNullColumns(tables[o.source], o.names))

TableSort == \E o \in Asked("sort") : LandApart(o, {o.source}, SortKeys(tables[o.source], o.order))

TableGroupBy ==
  \E o \in Asked("group_by") :
    LandApart(o, {o.source}, GroupBy(tables[o.source], o.names, o.aggregates))

TableJoin ==
  \E o \in Asked("join") :
    LandApart(o, {o.source, o.other},
      Join(tables[o.source], tables[o.other], o.names, o.otherNames, o.kind, o.limits))

TableUnpivot ==
  \E o \in Asked("unpivot") :
    LandApart(o, {o.source},
      Unpivot(tables[o.source], o.names, o.values, <<"variable">>, <<"value">>))

TableDropDuplicates ==
  \E o \in Asked("drop_duplicates") : LandKept(o, DropDuplicates(tables[o.source]))

TableFilterNumeric ==
  \E o \in Asked("filter_numeric") :
    LandKept(o, FilterNumeric(tables[o.source], o.name, o.operator, o.threshold))

TableFromDataset ==
  \E o \in Asked("from_dataset") : LandTable(o, FromDataset(datasets[o.source], o.schema))

-----------------------------------------------------------------------------
(* Tables changed.                                                           *)

TableSwap ==
  \E o \in Asked("swap_tables") :
    /\ tables' = [tables EXCEPT ![o.out] = tables[o.other], ![o.other] = tables[o.out]]
    /\ Replied(o, "ok")
    /\ UNCHANGED <<datasets, heap, canonical>>

TableDestroy ==
  \E o \in Asked("destroy") : LandTable(o, Built(NoTable))

TableFillNull ==
  \E o \in Asked("fill_null") : LandTable(o, FillNull(tables[o.out], o.name, o.value))

TableAddProduct ==
  \E o \in Asked("add_product") : LandTable(o, AddProduct(tables[o.out], o.name, o.other, o.output))

TableAddMonth ==
  \E o \in Asked("add_month") : LandTable(o, AddMonth(tables[o.out], o.name, o.output))

TableAddStatistic ==
  \E o \in Asked("add_statistic") :
    LandTable(o, IF o.out = o.source THEN Failed("argument")
                 ELSE AddStatistic(tables[o.out], tables[o.source], o.name, o.output, o.statistic))

\* The elements of an array of one axis are copied.
TableAddArray ==
  \E o \in Asked("add_array") :
    LET d == heap.arrays[o.array] IN
    IF ValidateArray(heap.storages, d) # "ok" \/ Len(d.shape) # 1 THEN LandTable(o, Failed("argument"))
    ELSE LandColumn(o, AddArrayColumn(tables[o.out], o.name, d.dtype,
                         Elements(heap.storages, d), [k \in 1..Size(d) |-> TRUE]))

TableAddString ==
  \E o \in Asked("add_string") :
    LandColumn(o, AddStringColumn(tables[o.out], o.name, o.cells, o.valid))

\* Codes that are not unsigned are refused before the table is looked at.
TableAddCategorical ==
  \E o \in Asked("add_categorical") :
    IF o.dtype \notin UnsignedTypes THEN LandTable(o, Failed("argument"))
    ELSE LandColumn(o, AddCategoricalColumn(tables[o.out], o.name, o.dtype, o.cells, o.valid, o.dictionary))

MetadataValid(key, text) == key # "" /\ BrokenByte \notin ToSet(text)

TableSetMetadata ==
  \E o \in Asked("set_metadata") :
    LandTable(o,
      IF ~HasColumn(tables[o.out], o.name) THEN Failed("data")
      ELSE IF ~MetadataValid(o.key, o.text) THEN Failed("argument")
      ELSE Built([tables[o.out] EXCEPT !.columns[ColumnIndex(tables[o.out], o.name)].metadata =
                    SetMetadata(@, o.key, o.text)]))

TableOwnMetadata ==
  \E o \in Asked("own_metadata") :
    LandColumn(o,
      IF ~MetadataValid(o.key, o.text) THEN Failed("argument")
      ELSE Built([tables[o.out] EXCEPT !.ready = TRUE, !.metadata = SetMetadata(@, o.key, o.text)]))

-----------------------------------------------------------------------------
(* Data sets.                                                                *)

DatasetLoad ==
  \E o \in Asked("load") :
    LandDataset(o, IF Exists(o.path) THEN LoadCsv(contents[files[Place(o.path)]].chars, o.limits)
                   ELSE NotLoaded("io"))

DatasetAddProduct ==
  \E o \in Asked("dataset_product") :
    LandDataset(o, DatasetProduct(datasets[o.out], o.name, o.other, o.output))

DatasetAddMonth ==
  \E o \in Asked("dataset_month") : LandDataset(o, DatasetMonth(datasets[o.out], o.name, o.output))

DatasetRemoveNulls == \E o \in Asked("remove_nulls") : LandDataset(o, RemoveNullRows(datasets[o.out]))

DatasetRemoveDuplicates ==
  \E o \in Asked("remove_duplicates") : LandDataset(o, RemoveDuplicateRows(datasets[o.out]))

DatasetOfTable == \E o \in Asked("to_dataset") : LandDataset(o, DatasetFromTable(tables[o.source]))

-----------------------------------------------------------------------------
(* Arrays.                                                                   *)

ArrayFromValues ==
  \E o \in Asked("from_values") : LandArray(o, FromValues(heap, o.out, o.dtype, o.shape, o.cells))

ArrayZeros == \E o \in Asked("zeros") : LandArray(o, Zeros(heap, o.out, o.dtype, o.shape))

\* A buffer is given once.
ArrayFromBuffer ==
  \E o \in Asked("from_buffer") :
    LET result == FromBuffer(heap, o.out, o.buffer, o.dtype, o.cells, o.view) IN
    /\ o.buffer \notin answer.adopted
    /\ heap' = result.heap
    /\ answer' = [answer EXCEPT !.call = o, !.status = result.status, !.left = @ - 1,
                    !.adopted = @ \cup (IF result.status = "ok" THEN {o.buffer} ELSE {})]
    /\ UNCHANGED <<tables, datasets, canonical, menu, reportVars>>

ArrayWrite == \E o \in Asked("write") : LandArray(o, Write(heap, o.out, o.index, o.cell))

ArrayRelease == \E o \in Asked("release") : LandArray(o, Done(Release(heap, o.out)))

ArraySwap ==
  \E o \in Asked("swap_arrays") :
    LandArray(o, Done([heap EXCEPT !.arrays[o.out] = heap.arrays[o.other],
                                   !.arrays[o.other] = heap.arrays[o.out]]))

\* The deprecated way to hold a storage: it is counted once more, unless the
\* counter is at its limit, and no array of its own will give that back.
ArrayRetain ==
  \E o \in Asked("retain") :
    LET storage == heap.arrays[o.out].storage
        counted == storage # NoStorage /\ heap.storages[storage].references < MaxSize
    IN
    /\ heap' = IF counted THEN StorageRetain(heap, storage) ELSE heap
    /\ answer' = [answer EXCEPT !.call = o, !.status = "ok", !.left = @ - 1,
                    !.retained = IF counted THEN Append(@, storage) ELSE @]
    /\ UNCHANGED <<tables, datasets, canonical, menu, reportVars>>

ArrayShare == \E o \in Asked("share") : LandArray(o, Share(heap, o.out, o.source))

ArrayReshapeView ==
  \E o \in Asked("reshape_view") : LandArray(o, ReshapeView(heap, o.out, o.source, o.shape))

ArraySlice ==
  \E o \in Asked("slice") : LandArray(o, SliceView(heap, o.out, o.source, o.axis, o.slice))

ArraySliceWithin ==
  \E o \in Asked("slice_within") :
    LandArray(o, SliceWithin(heap, o.out, o.source, o.axis, o.slice.start[1], o.slice.stop[1], o.slice.step))

ArrayTranspose ==
  \E o \in Asked("transpose") : LandArray(o, TransposeView(heap, o.out, o.source, o.axes))

ArrayBroadcast ==
  \E o \in Asked("broadcast") : LandArray(o, BroadcastView(heap, o.out, o.source, o.shape))

ArrayReshapeCopy ==
  \E o \in Asked("reshape_copy") : LandArray(o, ReshapeCopy(heap, o.out, o.source, o.shape))

ArrayBooleanMask ==
  \E o \in Asked("boolean_mask") : LandArray(o, BooleanMask(heap, o.out, o.source, o.other))

ArrayNonZero == \E o \in Asked("nonzero") : LandArray(o, NonZero(heap, o.out, o.source))

ArrayWhere ==
  \E o \in Asked("where") : LandArray(o, Where(heap, o.out, o.condition, o.source, o.other))

ArrayConvert == \E o \in Asked("cast") : LandArray(o, ArrayCast(heap, o.out, o.source, o.dtype))

ArrayBinary ==
  \E o \in Asked("binary") : LandArray(o, BinaryOperation(heap, o.out, o.source, o.other, o.operator))

ArrayGreater ==
  \E o \in Asked("greater_f64") : LandArray(o, GreaterF64(heap, o.out, o.source, o.threshold))

ArrayIsNaN == \E o \in Asked("is_nan") : LandArray(o, UnaryPredicate(heap, o.out, o.source, IsNaN))

ArrayIsFinite == \E o \in Asked("is_finite") : LandArray(o, UnaryPredicate(heap, o.out, o.source, Finite))

ArrayTotal ==
  \E o \in Asked("sum") : LandArray(o, ArraySum(heap, o.out, o.source, o.along, o.keepdims))

ArrayMultiplied ==
  \E o \in Asked("product") : LandArray(o, ArrayProduct(heap, o.out, o.source, o.along, o.keepdims))

ArrayReduced ==
  \E o \in Asked("statistic") :
    LandArray(o, ArrayStatistic(heap, o.out, o.source, o.along, o.keepdims, o.kind))

ArrayRanked ==
  \E o \in Asked("percentile") :
    LandArray(o, ArrayPercentile(heap, o.out, o.source, o.along, o.keepdims, o.percent))

ArrayArgMin == \E o \in Asked("argmin") : LandArray(o, ArgExtreme(heap, o.out, o.source, <))

ArrayArgMax == \E o \in Asked("argmax") : LandArray(o, ArgExtreme(heap, o.out, o.source, >))

-----------------------------------------------------------------------------
(* Data programs.  The tables stay the caller's: the program has their names. *)

TablesNamed(names) == [n \in DOMAIN names |-> tables[names[n]]]

LandProgram(o, program, status) ==
  /\ canonical' = [canonical EXCEPT ![o.program] = program]
  /\ Replied(o, status)
  /\ UNCHANGED <<tables, datasets, heap>>

\* What was there is released before the source is read.
ProgramParse ==
  \E o \in Asked("parse") :
    LandProgram(o,
      IF o.accepted THEN [NoProgram EXCEPT !.parsed = TRUE, !.hir = DataHirBuild(o.tree)] ELSE NoProgram,
      Must(o.accepted, "parse"))

ProgramRelease == \E o \in Asked("release_program") : LandProgram(o, NoProgram, "ok")

TablesStatus(o) ==
  FirstStatus([n \in 1..(1 + Len(o.right)) |-> TableStatus(tables[(<<o.table>> \o o.right)[n]])])

HirBound(bound) == [status |-> bound.status, hirs |-> {bound.hir}]

BindOutcome(p, o) ==
  IF TablesStatus(o) # "ok" THEN [status |-> TablesStatus(o), hirs |-> p.hir]
  ELSE IF p.hir = {} THEN [status |-> Must(o.right = <<>>, "argument"), hirs |-> {}]
  ELSE HirBound(BindHir(CHOOSE hir \in p.hir : TRUE, tables[o.table], TablesNamed(o.right)))

\* What was bound is let go first; references that were found stay found.
AfterBinding(p, o, outcome) ==
  IF outcome.status # "ok" THEN [p EXCEPT !.hir = outcome.hirs, !.bound = FALSE, !.table = <<>>, !.right = <<>>]
  ELSE [p EXCEPT !.hir = outcome.hirs, !.bound = outcome.hirs # {}, !.table = <<o.table>>, !.right = o.right]

LandBinding(o, outcome) == LandProgram(o, AfterBinding(canonical[o.program], o, outcome), outcome.status)

ProgramBind ==
  \E o \in Asked("bind") :
    IF canonical[o.program].parsed THEN LandBinding(o, BindOutcome(canonical[o.program], o))
    ELSE LandProgram(o, canonical[o.program], "argument")

\* The policy is the caller's, or the program's own.
ExecuteOutcome(p, o) ==
  IF ~p.bound \/ o.out \in ToSet(p.table \o p.right) THEN Failed("argument")
  ELSE LET hir == CHOOSE h \in p.hir : TRUE IN
       ExecuteHir(hir, tables[p.table[1]], TablesNamed(p.right),
                  CHOOSE policy \in (IF o.policy = {} THEN hir.policy ELSE o.policy) : TRUE)

ProgramExecute ==
  \E o \in Asked("execute") : LandTable(o, ExecuteOutcome(canonical[o.program], o))

\* A compiler is given a program only with its columns bound.
InputStatus(p) ==
  FirstStatus(<<Must(p.parsed, "argument"), Must(p.hir # {} => p.bound, "data"), Must(p.hir # {}, "unsupported")>>)

ProgramInput ==
  \E o \in Asked("compiler_input") : LandProgram(o, canonical[o.program], InputStatus(canonical[o.program]))

-----------------------------------------------------------------------------
(* The reports: of a plan that is given, or of one that was compiled, from    *)
(* a program that is given or from a source.                                 *)

Compiled(o, made) ==
  /\ answer' = [answer EXCEPT !.call = o, !.status = made.status, !.left = @ - 1,
                              !.compiled = @ \cup made.blocks]
  /\ UNCHANGED <<state, menu, reportVars>>

CompileData == \E o \in Asked("compile") : Compiled(o, CompileDataHIR(o.program))

\* A source is parsed, compiled without tables, and let go.
CompiledSource(o) ==
  IF ~o.accepted THEN [status |-> "parse", blocks |-> {}]
  ELSE IF DataHirBuild(o.tree) = {} THEN [status |-> "unsupported", blocks |-> {}]
  ELSE CompileDataHIR(CHOOSE hir \in DataHirBuild(o.tree) : TRUE)

CompileProgram == \E o \in Asked("compile_program") : Compiled(o, CompiledSource(o))

Begun(o, block) ==
  /\ Begin([block |-> block, script |-> o.script, limits |-> o.limits])
  /\ answer' = [answer EXCEPT !.call = o, !.left = @ - 1]
  /\ UNCHANGED <<state, menu>>

RunData == \E o \in Asked("run_data") : Begun(o, o.block)

RunCompiled == \E o \in Asked("run_compiled"), block \in answer.compiled : Begun(o, block)

RunStep == ReportStep /\ UNCHANGED <<state, menu, answer>>

TableStep ==
  \/ TableClone \/ TableFilter \/ TableSelect \/ TableDropNulls \/ TableSort \/ TableGroupBy
  \/ TableJoin \/ TableUnpivot \/ TableDropDuplicates \/ TableFilterNumeric \/ TableFromDataset
  \/ TableDestroy \/ TableFillNull \/ TableAddProduct \/ TableAddMonth \/ TableAddStatistic
  \/ TableAddArray \/ TableAddString \/ TableAddCategorical \/ TableSetMetadata
  \/ TableOwnMetadata \/ TableSwap

DatasetStep ==
  \/ DatasetLoad \/ DatasetAddProduct \/ DatasetAddMonth \/ DatasetRemoveNulls
  \/ DatasetRemoveDuplicates \/ DatasetOfTable

ViewStep ==
  \/ ArrayFromValues \/ ArrayZeros \/ ArrayFromBuffer \/ ArrayWrite \/ ArrayRelease \/ ArrayShare
  \/ ArraySwap \/ ArrayRetain
  \/ ArrayReshapeView \/ ArraySlice \/ ArraySliceWithin \/ ArrayTranspose \/ ArrayBroadcast
  \/ ArrayReshapeCopy \/ ArrayBooleanMask \/ ArrayNonZero \/ ArrayWhere

NumberStep ==
  \/ ArrayConvert \/ ArrayBinary \/ ArrayGreater \/ ArrayIsNaN \/ ArrayIsFinite \/ ArrayTotal
  \/ ArrayMultiplied \/ ArrayReduced \/ ArrayRanked \/ ArrayArgMin \/ ArrayArgMax

ProgramStep == ProgramParse \/ ProgramRelease \/ ProgramBind \/ ProgramExecute \/ ProgramInput

PlanStep == CompileData \/ CompileProgram \/ RunData \/ RunCompiled

Next == TableStep \/ DatasetStep \/ ViewStep \/ NumberStep \/ ProgramStep \/ PlanStep \/ RunStep

Spec == Init /\ [][Next]_vars
=================================================================================
