----------------------------- MODULE SessionPromises -----------------------------
(***************************************************************************)
(* What tables, arrays and reports promise, said without the way the       *)
(* program computes it: rows as sets, elements by their coordinates, and a *)
(* report by the whole file it is of.                                      *)
(***************************************************************************)
EXTENDS DataSession

Called == answer'.left # answer.left
Succeeded == Called /\ answer'.status = "ok"

-----------------------------------------------------------------------------
(* Cells by what they mean: equal meanings are one key, and meanings are    *)
(* ordered by their class and then by their number.                         *)

ValueClass == 0
NaNClass == 1
NullClass == 2

Meaning(c, row) ==
  IF IsNull(c, row) THEN <<NullClass, 0>>
  ELSE IF c.type = "categorical" THEN <<ValueClass, Label(c, row)>>
  ELSE IF c.type = "string" \/ c.dtype \notin FloatTypes THEN <<ValueClass, c.cells[row]>>
  ELSE IF IsNaN(c.cells[row]) THEN <<NaNClass, 0>>
  ELSE <<ValueClass, Plain(c.cells[row])>>

KeyOf(t, names, row) == [i \in DOMAIN names |-> Meaning(Column(t, names[i]), row)]

ComesFirst(a, b, ascending) ==
  \/ a[1] < b[1]
  \/ a[1] = ValueClass /\ b[1] = ValueClass /\ (IF ascending THEN a[2] < b[2] ELSE a[2] > b[2])

SortsBefore(a, b, order) ==
  \E i \in DOMAIN order : /\ ComesFirst(a[i], b[i], order[i].ascending)
                          /\ \A k \in 1..(i - 1) : a[k] = b[k]

\* The rows of a sorted table, equals as they were.
OrderedRows(t, order) ==
  LET Key(row) == KeyOf(t, [i \in DOMAIN order |-> order[i].column], row) IN
  SetToSortSeq(Rows(t), LAMBDA l, r :
    SortsBefore(Key(l), Key(r), order) \/ (Key(l) = Key(r) /\ l < r))

HasRows(out, columns, rows) ==
  /\ out.rows = Len(rows)
  /\ \A i \in DOMAIN columns : \A k \in DOMAIN rows :
       /\ out.columns[i].valid[k] = (rows[k] # NoRow /\ columns[i].valid[rows[k]])
       /\ out.columns[i].valid[k] => out.columns[i].cells[k] = columns[i].cells[rows[k]]

Ascending(rows) == SetToSortSeq(rows, <)

\* Rows that are byte for byte the same, but for what a null holds.
Same(t, l, r) ==
  \A c \in ToSet(t.columns) : c.valid[l] = c.valid[r] /\ (c.valid[l] => c.cells[l] = c.cells[r])

FirstOfTheirKind(t) == {row \in Rows(t) : \A r \in 1..(row - 1) : ~Same(t, r, row)}

-----------------------------------------------------------------------------
(* Groups are the classes of equal keys, told by their first rows.           *)

Classes(t, names) ==
  {{r \in Rows(t) : KeyOf(t, names, r) = KeyOf(t, names, row)} : row \in Rows(t)}

SumOver(c, rows) == FoldSet(LAMBDA row, sum : sum + Plain(c.cells[row]), 0, rows)

MostExtreme(c, operation, rows) ==
  LET numbers == {Plain(c.cells[row]) : row \in rows} IN
  IF operation = "min" THEN Min(numbers) ELSE Max(numbers)

IsAggregateOf(cell, c, operation, rows) ==
  CASE operation = "count" -> cell = Cardinality(rows)
    [] operation \in {"min", "max"} ->
         IF c.dtype \in FloatTypes /\ \E row \in rows : IsNaN(c.cells[row]) THEN IsNaN(cell)
         ELSE Plain(cell) = MostExtreme(c, operation, rows)
    [] c.dtype \in FloatTypes /\ \E row \in rows : ~Finite(c.cells[row]) -> ~Finite(cell)
    [] operation = "sum"  -> cell = SumOver(c, rows)
    [] operation = "mean" -> cell = SumOver(c, rows) \div Cardinality(rows)

AggregateHolds(out, k, c, aggregate, group) ==
  LET rows == {row \in group : c.valid[row]}
      made == Column(out, aggregate.name)
  IN IF aggregate.operation # "count" /\ rows = {} THEN ~made.valid[k]
     ELSE made.valid[k] /\ IsAggregateOf(made.cells[k], c, aggregate.operation, rows)

GroupsHold(out, t, o) ==
  LET groups == SetToSortSeq(Classes(t, o.names), LAMBDA a, b : Min(a) < Min(b)) IN
  /\ HasRows(out, [i \in DOMAIN o.names |-> Column(t, o.names[i])],
             [k \in DOMAIN groups |-> Min(groups[k])])
  /\ \A k \in DOMAIN groups : \A a \in ToSet(o.aggregates) :
       AggregateHolds(out, k, Column(t, a.column), a, groups[k])

-----------------------------------------------------------------------------
(* Joins are sets of pairs: of equal keys without a null, and of rows that   *)
(* met nobody, those of the right last.                                      *)

Meets(left, l, right, r, o) ==
  LET key == KeyOf(left, o.names, l) IN
  /\ key = KeyOf(right, o.otherNames, r)
  /\ \A i \in DOMAIN key : key[i][1] # NullClass

MatchedPairs(left, right, o) ==
  {p \in Rows(left) \X Rows(right) : Meets(left, p[1], right, p[2], o)}

JoinPairs(left, right, o) ==
  LET matched == MatchedPairs(left, right, o)
      lonelyLeft == {l \in Rows(left) : \A p \in matched : p[1] # l}
      lonelyRight == {r \in Rows(right) : \A p \in matched : p[2] # r}
  IN matched \cup (IF o.kind \in {"left", "full"} THEN lonelyLeft \X {NoRow} ELSE {})
             \cup (IF o.kind \in {"right", "full"} THEN {NoRow} \X lonelyRight ELSE {})

PairBefore(a, b) ==
  IF NoRow \in {a[1], b[1]} /\ a[1] # b[1] THEN b[1] = NoRow
  ELSE a[1] < b[1] \/ (a[1] = b[1] /\ a[2] < b[2])

JoinHolds(out, left, right, o) ==
  LET pairs == SetToSortSeq(JoinPairs(left, right, o), PairBefore) IN
  /\ HasRows(out, left.columns, [k \in DOMAIN pairs |-> pairs[k][1]])
  /\ HasRows([out EXCEPT !.columns = SubSeq(@, Len(left.columns) + 1, Len(@))], right.columns,
             [k \in DOMAIN pairs |-> pairs[k][2]])
-----------------------------------------------------------------------------
(* What a call that succeeded made of the tables it was given.              *)

IsWhatWasAsked(o, t, out) ==
  CASE o.op = "sort"    -> HasRows(out, t.columns, OrderedRows(t, o.order))
    [] o.op = "group_by" -> GroupsHold(out, t, o)
    [] o.op = "join"    -> JoinHolds(out, t, tables[o.other], o)
    [] o.op = "drop_duplicates" -> HasRows(out, t.columns, Ascending(FirstOfTheirKind(t)))
    [] o.op = "drop_nulls" ->
         HasRows(out, t.columns, Ascending({row \in Rows(t) :
           \A c \in ToSet(t.columns) : (o.names = <<>> \/ c.name \in ToSet(o.names)) => c.valid[row]}))
    [] o.op = "filter"  ->
         HasRows(out, t.columns, Ascending({row \in Rows(t) :
           Elements(heap.storages, heap.arrays[o.array])[row] = 1}))
    [] o.op = "clone"   -> HasRows(out, t.columns, AllRows(t))
    [] OTHER -> TRUE

TableCalls == {"sort", "group_by", "join", "drop_duplicates", "drop_nulls", "filter", "clone"}

\* A sort is the stable order of the meanings of its keys, nulls last and NaNs
\* before them; groups are the classes of equal keys in the order of their
\* first rows, with their aggregates; a join is the pairs of equal keys in
\* order, with who met nobody when it is asked for: table.c finds all three
\* through comparisons and hashes that must agree on nulls, NaNs, the two
\* zeros and the dictionaries of two tables.
RelationalResults ==
  [][(Succeeded /\ answer'.call.op \in TableCalls) =>
       IsWhatWasAsked(answer'.call, tables[answer'.call.source], tables'[answer'.call.out])]_vars

-----------------------------------------------------------------------------
(* What is held.                                                             *)

Live == LiveIn(heap)

TablesSound == \A name \in DOMAIN tables : tables[name] = NoTable \/ TableStatus(tables[name]) = "ok"

\* Whatever was called, every live descriptor can be read through, every storage
\* counts those that look at it and the times it was retained, and a buffer's
\* deleter runs once, when nothing holds it any more: no view reads freed memory
\* or past its storage, and no memory is freed twice or never (array.c:165,
\* array.c:255, array.c:436).
ArraysSound ==
  /\ Readable(heap)
  /\ Counted(heap, answer.retained)
  /\ DeletedOnce(heap, answer.adopted)

\* What the lowerer of plans lets through, the encoder encodes and the verifier
\* accepts: there is no program it gives up on as its own mistake, and what is
\* compiled is what can be run (bytecode_compiler.c:1001, bytecode_data.c:357).
CompilerSound ==
  /\ \A block \in answer.compiled : VerifyData(block) = "ok"
  /\ answer.call.op = "compile" => answer.status # "internal"

\* The columns an operation is bound to are where it will look for them: each
\* reference, when its turn comes, has its name at its index with its type, and
\* every working table has as many columns as were counted.
Unlimited == [input |-> MaxFinite, output |-> MaxFinite, columns |-> MaxFinite]

RefHolds(ref, t) ==
  /\ ref.index = ColumnIndex(t, ref.name)
  /\ BoundType(Column(t, ref.name)) = [type |-> ref.type, dtype |-> ref.dtype]

ReferencesHold(hir, t, rights) ==
  LET counts == ColumnCounts(hir, t, IF rights = <<>> THEN NoTable ELSE rights[1]) IN
  \A i \in DOMAIN hir.operations :
    LET op == hir.operations[i]
        reached == Executed(SubSeq(hir.operations, 1, i - 1), t, rights, Unlimited)
    IN reached.status = "ok" =>
         /\ Len(reached.table.columns) = counts[i]
         /\ \A n \in DOMAIN op.refs :
              RefHolds(op.refs[n], IF op.kind = "join" /\ n = 2 THEN rights[1] ELSE reached.table)

\* As long as its tables are those it was bound to (binding again changes
\* nothing), a program finds its columns, and the limits it set itself refuse
\* nothing that no limit would let through.
BindingsHold ==
  \A name \in DOMAIN canonical :
    canonical[name].bound =>
      LET hir == CHOOSE h \in canonical[name].hir : TRUE
          t == tables[canonical[name].table[1]]
          rights == TablesNamed(canonical[name].right)
      IN (TableStatus(t) = "ok" /\ BindHir(hir, t, rights) = [status |-> "ok", hir |-> hir]) =>
           /\ ReferencesHold(hir, t, rights)
           /\ \A policy \in hir.policy :
                ExecuteHir(hir, t, rights, policy) = ExecuteHir(hir, t, rights, Unlimited)

\* Whatever was called, tables can be validated (columns of one length, nulls
\* only where they are allowed, codes within dictionaries), and bound programs
\* find the columns they were bound to (table.c:178, canonical_compiler.c:1397).
StateSound == TablesSound /\ BindingsHold

-----------------------------------------------------------------------------
(* What a call leaves alone.                                                 *)

TableCallsOn == TableCalls \cup
  {"select", "unpivot", "filter_numeric", "from_dataset", "destroy", "fill_null", "add_product",
   "add_month", "add_statistic", "add_array", "add_string", "add_categorical", "set_metadata",
   "own_metadata", "execute", "swap_tables"}
ProgramCalls ==
  {"parse", "release_program", "bind", "compiler_input", "compile", "compile_program", "run_data", "run_compiled"}
DatasetCalls == {"load", "dataset_product", "dataset_month", "remove_nulls", "remove_duplicates", "to_dataset"}

Destinations(o) == IF o.op \in {"swap_tables", "swap_arrays"} THEN {o.out, o.other} ELSE {o.out}

AsReady(t) == [t EXCEPT !.ready = TRUE]

OtherTablesStay(o) ==
  \A name \in DOMAIN tables :
    (answer'.status = "ok" /\ o.op \in TableCallsOn /\ name \in Destinations(o))
      \/ AsReady(tables'[name]) = AsReady(tables[name])

OtherDatasetsStay(o) ==
  \A name \in DOMAIN datasets :
    (answer'.status = "ok" /\ o.op \in DatasetCalls /\ name = o.out) \/ datasets'[name] = datasets[name]

\* An element of another array changes only when it is the one written.
Written(o, name, k) ==
  /\ o.op = "write" /\ o.index < Size(heap.arrays[o.out])
  /\ heap.arrays[name].storage = heap.arrays[o.out].storage
  /\ LinearOffset(heap.arrays[name], k - 1) = LinearOffset(heap.arrays[o.out], o.index)

ArrayStays(o, name) ==
  /\ heap'.arrays[name] = heap.arrays[name]
  /\ \A k \in DOMAIN Elements(heap.storages, heap.arrays[name]) :
       Elements(heap'.storages, heap'.arrays[name])[k] =
         IF answer'.status = "ok" /\ Written(o, name, k) THEN o.cell
         ELSE Elements(heap.storages, heap.arrays[name])[k]

OtherArraysStay(o) ==
  \A name \in Live :
    (answer'.status = "ok" /\ o.op \notin TableCallsOn \cup DatasetCalls \cup ProgramCalls \cup {"write"}
       /\ name \in Destinations(o))
      \/ ArrayStays(o, name)

\* A call that fails changes nothing but that a table may be there now, empty;
\* one that succeeds changes its destination and, when it writes an element,
\* that element in every array that looks at it and no other.
OnlyTheDestinationChanges ==
  [][Called => /\ OtherTablesStay(answer'.call)
               /\ OtherDatasetsStay(answer'.call)
               /\ OtherArraysStay(answer'.call)]_vars
-----------------------------------------------------------------------------
(* Arrays as functions of coordinates, which are numbered from 0.            *)

CoordinatesOf(shape) ==
  {c \in [DOMAIN shape -> 0..Max({0} \cup ToSet(shape))] : \A axis \in DOMAIN shape : c[axis] < shape[axis]}

At(storages, d, c) == storages[d.storage].cells[OffsetAt(d, c) + 1]

\* Every element of a result is what a function says of its coordinate.
IsThe(d, Value(_)) == \A c \in CoordinatesOf(d.shape) : At(heap'.storages, d, c) = Value(c)

FromEnd(bound, default, length) ==
  IF bound = <<>> THEN default ELSE IF bound[1] < 0 THEN bound[1] + length ELSE bound[1]

\* The places of an axis a slice names: from the first, by steps, up to the
\* stop, like the slices of Python.
Ahead(length, slice) ==
  LET first == Max({0, FromEnd(slice.start, 0, length)})
      stop == FromEnd(slice.stop, length, length)
  IN Ascending({k \in 0..(length - 1) : k >= first /\ k < stop /\ (k - first) % slice.step = 0})

Backwards(length, slice) ==
  LET first == Min({length - 1, FromEnd(slice.start, length - 1, length)})
      stop == FromEnd(slice.stop, -1, length)
  IN Reverse(Ascending({k \in 0..(length - 1) :
       k =< first /\ k > stop /\ (first - k) % (-slice.step) = 0}))

Places(length, slice) == IF slice.step > 0 THEN Ahead(length, slice) ELSE Backwards(length, slice)

SliceHolds(d, s, o) ==
  LET places == Places(s.shape[o.axis], o.slice) IN
  /\ d.shape = [s.shape EXCEPT ![o.axis] = Len(places)]
  /\ IsThe(d, LAMBDA c : At(heap.storages, s, [c EXCEPT ![o.axis] = places[@ + 1]]))

TransposeHolds(d, s, o) ==
  \A c \in CoordinatesOf(s.shape) :
    At(heap'.storages, d, [axis \in DOMAIN c |->
         IF o.axes = <<>> THEN c[Len(c) + 1 - axis] ELSE c[o.axes[axis]]]) = At(heap.storages, s, c)

\* The coordinate of an operand that is repeated along the axes it has not,
\* and along those where it has one element.
Repeated(s, c) ==
  [axis \in DOMAIN s.shape |->
     IF s.shape[axis] = 1 THEN 0 ELSE c[axis + Len(c) - Len(s.shape)]]

BroadcastHolds(d, s) == d.readonly /\ IsThe(d, LAMBDA c : At(heap.storages, s, Repeated(s, c)))

Operand(s, c) == At(heap.storages, s, Repeated(s, c))

\* Of small finite numbers only; a boolean is 0 or 1.
Computed(operator, x, y) ==
  CASE operator = "add"      -> x + y
    [] operator = "subtract" -> x - y
    [] operator = "multiply" -> x * y
    [] operator = "equal"    -> IF x = y THEN 1 ELSE 0
    [] operator = "less"     -> IF x < y THEN 1 ELSE 0
    [] operator = "greater"  -> IF x > y THEN 1 ELSE 0

BinaryHolds(d, s, r, o) ==
  \A c \in CoordinatesOf(d.shape) :
    LET x == Operand(s, c)
        y == Operand(r, c)
    IN (Finite(x) /\ Finite(y) /\ o.operator # "divide") =>
         Plain(At(heap'.storages, d, c)) = Computed(o.operator, Plain(x), Plain(y))

\* The elements that are reduced into the one at a coordinate.
Reduced(s, o, c) ==
  LET axis == IF o.along < Everything THEN Len(s.shape) + o.along + 1 ELSE o.along + 1 IN
  IF o.along = Everything THEN CoordinatesOf(s.shape)
  ELSE {k \in CoordinatesOf(s.shape) : \A n \in DOMAIN k \ {axis} :
          k[n] = c[IF o.keepdims \/ n < axis THEN n ELSE n - 1]}

SumHolds(d, s, o) ==
  IsThe(d, LAMBDA c : FoldSet(LAMBDA k, sum : sum + Plain(At(heap.storages, s, k)), 0, Reduced(s, o, c)))

\* Only reductions of finite elements are told here.
AllFinite(s) == \A c \in CoordinatesOf(s.shape) : Finite(At(heap.storages, s, c))

ExtremeHolds(d, s, o) ==
  IsThe(d, LAMBDA c :
    LET cells == {At(heap.storages, s, k) : k \in Reduced(s, o, c)} IN
    IF o.kind = "min" THEN Min(cells) ELSE Max(cells))

MaskHolds(d, s, m) ==
  LET chosen == {k \in 1..Size(s) : Elements(heap.storages, m)[k] = 1} IN
  Elements(heap'.storages, d) = [k \in 1..Cardinality(chosen) |->
                                   Elements(heap.storages, s)[Ascending(chosen)[k]]]

WhereHolds(d, s, r, condition) ==
  IsThe(d, LAMBDA c : At(heap.storages, IF At(heap.storages, condition, c) = 1 THEN s ELSE r, c))

Denotes(o, d, s) ==
  CASE o.op = "slice" \/ o.op = "slice_within" -> SliceHolds(d, s, o)
    [] o.op = "transpose"    -> TransposeHolds(d, s, o)
    [] o.op = "broadcast"    -> BroadcastHolds(d, s)
    [] o.op \in {"share", "reshape_view", "reshape_copy"} ->
         Elements(heap'.storages, d) = Elements(heap.storages, s)
    [] o.op = "binary"       -> BinaryHolds(d, s, heap.arrays[o.other], o)
    [] o.op = "sum"          -> AllFinite(s) => SumHolds(d, s, o)
    [] o.op = "statistic" /\ o.kind \in {"min", "max"} -> AllFinite(s) => ExtremeHolds(d, s, o)
    [] o.op = "boolean_mask" -> MaskHolds(d, s, heap.arrays[o.other])
    [] o.op = "where"        -> WhereHolds(d, s, heap.arrays[o.other], heap.arrays[o.condition])
    [] OTHER -> TRUE

ArrayCalls ==
  {"slice", "slice_within", "transpose", "broadcast", "share", "reshape_view", "reshape_copy",
   "binary", "sum", "statistic", "boolean_mask", "where"}

\* A slice, a transpose, a broadcast, a reshape and what is computed from arrays
\* have at every coordinate what mathematics says, however strided, reversed or
\* repeated the arrays are that they are made from (array.c:548, array.c:756,
\* array.c:912, array.c:1583, array.c:2087).
ViewsDenoteTheirElements ==
  [][(Succeeded /\ answer'.call.op \in ArrayCalls) =>
       Denotes(answer'.call, heap'.arrays[answer'.call.out], heap.arrays[answer'.call.source])]_vars
-----------------------------------------------------------------------------
(* Loads with a budget.                                                      *)

\* A file as the reader without a budget loads it.
NoBudget(chars) ==
  [bounded |-> FALSE, bytes |-> 0, rows |-> Len(chars) + 1, columns |-> Len(chars) + 1,
   field |-> Len(chars) + 1]
WholeLoad(chars) == LoadCsv(chars, NoBudget(chars))

\* The records of a file, to its end or where one has no end.
Records(chars) ==
  LET Read(r) == ReadRecord(chars, NoBudget(chars), Len(chars), From(r.at))
      Next1(all, turn) == LET r == Read(all) IN
                          IF r.status = "ok" THEN [at |-> r.at, records |-> Append(all.records, r.record)]
                          ELSE all
  IN FoldLeft(Next1, [at |-> 1, records |-> <<>>], Turns(chars)).records

FieldsWithin(limits, record) ==
  LET parsed == ParseRecord(record) IN
  parsed.status = "ok" =>
    /\ Len(parsed.fields) =< limits.columns
    /\ \A i \in DOMAIN parsed.fields : Len(parsed.fields[i]) =< limits.field

\* The file loads without a budget, and nothing in it is a reason to meet a limit:
\* not its length, its rows, the fields the parser finds in its records, nor the
\* quotes around them, which count in the length of a record.
WithinBudget(chars, limits) ==
  LET records == Records(chars)
      width == Len(ParseRecord(records[1]).fields)
  IN /\ WholeLoad(chars).status = "ok"
     /\ Len(chars) =< limits.bytes
     /\ Len(records) =< limits.rows + 1
     /\ \A n \in DOMAIN records :
          /\ ParseRecord(records[n]).status = "ok" /\ FieldsWithin(limits, records[n])
          /\ n > 1 => Len(records[n]) =< (limits.field + 1) * width

\* The reader with a budget follows quotes and fields on its own to stop a record
\* early, beside the parser that comes after it (dataset.c:256).  It refuses no file
\* in which the parser finds nothing past a limit, lets no field past one, and
\* otherwise loads what the reader without a budget loads, or says the same.
BudgetFollowsFields ==
  [][(/\ Called /\ answer'.call.op = "load" /\ answer'.call.limits.bounded
      /\ Exists(answer'.call.path)
      /\ LET limits == answer'.call.limits IN 0 \notin {limits.rows, limits.columns, limits.field})
     => LET o == answer'.call
            chars == contents[files[Place(o.path)]].chars
            records == Records(chars)
            whole == WholeLoad(chars)
        IN Nul \notin ToSet(chars) =>
             /\ answer'.status = "limit" => ~WithinBudget(chars, o.limits)
             /\ answer'.status # "limit" => answer'.status = whole.status
             /\ answer'.status = "ok" => /\ datasets'[o.out] = whole.dataset
                                        /\ \A n \in DOMAIN records : FieldsWithin(o.limits, records[n])]_vars
-----------------------------------------------------------------------------
(* Reports.                                                                  *)

Requests ==
  LET asked(op) == {menu[n] : n \in {k \in DOMAIN menu : menu[k].op = op}} IN
  asked("run_data")
    \cup {[block |-> block, script |-> o.script] : o \in asked("run_compiled"), block \in answer.compiled}
InputOf(o) == Place(Resolved(o.block.strings[1], o.script, FALSE))
OutputOf(o) == Place(Resolved(o.block.strings[2], o.script, TRUE))

WholeFile(input) == WholeLoad(contents[files[input]].chars)

Numbers(dataset, name) ==
  LET cells == DatasetColumn(dataset, HeaderIndex(dataset, name)) IN
  {row \in DOMAIN cells : cells[row] # EmptyText}

\* The input is there, and every row has a number or nothing in its column.
Summable(o) ==
  /\ InputOf(o) \in DOMAIN files
  /\ LET dataset == WholeFile(InputOf(o)).dataset
         name == o.block.strings[3]
     IN /\ HasHeader(dataset, name)
        /\ \A cell \in ToSet(DatasetColumn(dataset, HeaderIndex(dataset, name))) :
             cell \in {EmptyText} \cup DOMAIN NumberOf

WholeReport(o) ==
  LET dataset == WholeFile(InputOf(o)).dataset
      name == o.block.strings[3]
      cells == DatasetColumn(dataset, HeaderIndex(dataset, name))
      rows == Numbers(dataset, name)
  IN IF o.block.operation = "count" THEN Report(o.block.strings[4], Cardinality(rows), TRUE)
     ELSE Report(o.block.strings[4], FoldSet(LAMBDA row, sum : sum + NumberOf[cells[row]], 0, rows), rows # {})

\* A file a plan names is a source as it was, or the whole report of a plan for
\* it: a load that meets a limit, a write that fails and a process that dies
\* leave no report of a part of the file, sources are never written however
\* they are named, and no temporary file stays behind a run that ended, but for
\* one that failed and whose temporary the system would not remove
\* (bytecode_data_runtime.c:236, bytecode_data_runtime.c:429, dataset.c:316).
ReportsWhole ==
  /\ \A o \in Requests :
       /\ InputOf(o) \in DOMAIN files => contents[files[InputOf(o)]].kind = "csv"
       /\ (OutputOf(o) \in DOMAIN files /\ contents[files[OutputOf(o)]].kind # "csv") =>
            \E r \in Requests :
              OutputOf(r) = OutputOf(o) /\ Summable(r) /\ contents[files[OutputOf(o)]] = WholeReport(r)
  /\ (job.stage = "ended" /\ job.temporary \in DOMAIN files) => (job.status # "ok" /\ job.refused)
=================================================================================
