------------------------------- MODULE DataProgram -------------------------------
(***************************************************************************)
(* A data program from its tree to its result: the tree becomes operations *)
(* on named columns, binding finds every column in the tables the caller   *)
(* lends or among those derived before, and execution runs the operations  *)
(* by name on a copy.                                                      *)
(*                                                                         *)
(* A tree is one the semantic checks accept: the nodes of one analysis.    *)
(* The lexer, the parser and those checks, and the nodes of Arrow streams  *)
(* and of SST, are not told here.                                          *)
(***************************************************************************)
EXTENDS DataPlan

\* Names the language gives, kept whole.
DateColumn == <<"fecha">>
PeriodColumn == <<"periodo">>
TotalColumn == <<"total">>

MaxMetrics == 16
MaxSelected == 32

-----------------------------------------------------------------------------
(* What a tree must be to become a data program.  Others stay trees.        *)

Metrics == {"sum", "mean", "min", "max", "count"}
MetricsSupported(metrics) ==
  Len(metrics) \in 1..MaxMetrics /\ \A n \in DOMAIN metrics : metrics[n].operation \in Metrics

DeclaredType(type) ==
  CASE type = "numeric" -> "numeric"
    [] type \in {"binary", "categorical"} -> "categorical"
    [] type \in {"text", "date"} -> "text"
    [] OTHER -> "unknown"

CommandSupported(command) ==
  \/ command.kind = "period"
  \/ command.kind = "product" /\ <<>> \notin {command.left, command.right}

NodeSupported(node) ==
  CASE node.kind = "load"      -> ~node.flow /\ node.path # <<>>
    [] node.kind = "declare"   -> DeclaredType(node.type) # "unknown"
    [] node.kind = "transform" -> \A n \in DOMAIN node.commands : CommandSupported(node.commands[n])
    [] node.kind = "filter"    -> Len(node.conditions) = 1 /\ node.conditions[1].numeric
    [] node.kind = "group"     -> ~node.flow /\ Len(node.keys) = 1 /\ MetricsSupported(node.metrics)
    [] node.kind = "summarize" -> MetricsSupported(node.metrics)
    [] node.kind = "clean"     ->
         /\ node.commands # <<>>
         /\ \A n \in DOMAIN node.commands : /\ node.commands[n].kind \in {"nulls", "duplicates"}
                                            /\ node.commands[n].action = "remove"
    [] node.kind = "join"      ->
         Len(node.rights) = 1 /\ Len(node.keys) = 1 /\ node.memory # 0 /\ node.rows # 0
    [] node.kind = "select"    -> Len(node.names) \in 1..MaxSelected
    [] OTHER                   -> node.kind = "export"

Terminal == {"group", "summarize", "join", "select"}

\* After an export nothing follows, and after a terminal node only an export.
InOrder(tree) ==
  \A i, j \in DOMAIN tree : i < j =>
    /\ tree[i].kind # "export"
    /\ tree[i].kind \in Terminal => tree[j].kind = "export"

Nodes(tree, kind) == SelectSeq(tree, LAMBDA node : node.kind = kind)

TreeSupported(tree) ==
  /\ \A n \in DOMAIN tree : NodeSupported(tree[n])
  /\ InOrder(tree)
  /\ Len(Nodes(tree, "load")) = 1
  /\ LET declared == Nodes(tree, "declare") IN
     \A i, j \in DOMAIN declared : declared[i].name = declared[j].name => i = j

-----------------------------------------------------------------------------
(* The operations.  The columns one reads are its refs, in the order they   *)
(* are bound; all are of data set 1 but the right key of a join.            *)

Somewhere == <<1, 1>>

Ref(name) ==
  [name |-> name, type |-> "unknown", declaredType |-> "unknown", span |-> Somewhere,
   index |-> 0, dtype |-> "bool"]

Refs(names) == [n \in DOMAIN names |-> Ref(names[n])]

Operation(kind, names) == [kind |-> kind, dataset |-> 1, refs |-> Refs(names)]

MetricSuffix(operation) ==
  CASE operation = "mean" -> <<"_", "m", "e", "d", "i", "a">>
    [] operation = "min"  -> <<"_", "m", "i", "n", "i", "m", "o">>
    [] operation = "max"  -> <<"_", "m", "a", "x", "i", "m", "o">>
    [] OTHER              -> Suffix(operation)

ParsedAggregates(metrics) ==
  [n \in DOMAIN metrics |->
     [operation |-> metrics[n].operation, output |-> metrics[n].column \o MetricSuffix(metrics[n].operation),
      percentile |-> 0, span |-> Somewhere]]

MetricColumns(metrics) == [n \in DOMAIN metrics |-> metrics[n].column]

DerivedBy(command) ==
  IF command.kind = "period" THEN Operation("period", <<DateColumn>>) @@ [output |-> PeriodColumn]
  ELSE Operation("product", <<command.left, command.right>>) @@ [output |-> TotalColumn]

CleanedBy(command) == Operation(IF command.kind = "nulls" THEN "drop_nulls" ELSE "drop_duplicates", <<>>)

OperationsOf(node) ==
  CASE node.kind = "transform" -> [n \in DOMAIN node.commands |-> DerivedBy(node.commands[n])]
    [] node.kind = "clean"     -> [n \in DOMAIN node.commands |-> CleanedBy(node.commands[n])]
    [] node.kind = "filter"    ->
         <<Operation("filter", <<node.conditions[1].column>>)
             @@ [operator |-> node.conditions[1].operator, threshold |-> node.conditions[1].threshold]>>
    [] node.kind = "group"     ->
         <<Operation("group", node.keys \o MetricColumns(node.metrics))
             @@ [aggregates |-> ParsedAggregates(node.metrics)]>>
    [] node.kind = "summarize" ->
         <<Operation("summarize", MetricColumns(node.metrics))
             @@ [aggregates |-> ParsedAggregates(node.metrics)]>>
    [] node.kind = "join"      ->
         <<Operation("join", node.keys \o node.keys)
             @@ [right |-> node.rights[1], rows |-> node.rows, memory |-> node.memory]>>
    [] node.kind = "select"    -> <<Operation("select", node.names)>>
    [] OTHER                   -> <<>>

\* Without a policy there is no limit.
DataHirOf(tree) ==
  LET exports == Nodes(tree, "export")
      declared == Nodes(tree, "declare")
  IN [source |-> [path |-> Nodes(tree, "load")[1].path, dataset |-> 1, options |-> {}],
      export |-> IF exports = <<>> THEN <<>> ELSE exports[1].path, policy |-> {},
      declared |-> [n \in DOMAIN declared |->
                      [Ref(declared[n].name) EXCEPT !.declaredType = DeclaredType(declared[n].type)]],
      operations |-> FlattenSeq([n \in DOMAIN tree |-> OperationsOf(tree[n])])]

\* The data program of a tree, or none.
DataHirBuild(tree) == IF TreeSupported(tree) THEN {DataHirOf(tree)} ELSE {}

-----------------------------------------------------------------------------
(* Binding one column.                                                      *)

BoundType(c) ==
  CASE c.type = "string"      -> [type |-> "text", dtype |-> "uint8"]
    [] c.type = "categorical" -> [type |-> "categorical", dtype |-> "uint32"]
    [] c.dtype = "bool"       -> [type |-> "boolean", dtype |-> c.dtype]
    [] c.dtype \in RealTypes  -> [type |-> "numeric", dtype |-> c.dtype]
    [] OTHER                  -> [type |-> "unknown", dtype |-> c.dtype]

\* Derived columns come after those of the table, in the order of their operations.
DerivedBefore(operations, i) ==
  SelectSeq(SubSeq(operations, 1, i - 1), LAMBDA op : op.kind \in {"product", "period"})

DerivedType(op) ==
  IF op.kind = "period" THEN [type |-> "text", dtype |-> "uint8"]
  ELSE [type |-> "numeric", dtype |-> "float64"]

FoundAt(t, derived, name) ==
  LET at == SelectInSeq(derived, LAMBDA op : op.output = name) IN
  IF HasColumn(t, name) THEN [index |-> ColumnIndex(t, name)] @@ BoundType(Column(t, name))
  ELSE [index |-> Len(t.columns) + at] @@ DerivedType(derived[at])

Known(t, derived, name) == HasColumn(t, name) \/ \E n \in DOMAIN derived : derived[n].output = name

\* A reference of the wrong type is bound before it is refused.
BoundAs(bound, numeric) == [status |-> Must(numeric => bound.type = "numeric", "type"), ref |-> bound]

BindColumn(t, derived, ref, numeric) ==
  IF Known(t, derived, ref.name) THEN BoundAs(FoundAt(t, derived, ref.name) @@ ref, numeric)
  ELSE [status |-> "type", ref |-> ref]

-----------------------------------------------------------------------------
(* Binding in order, up to the first that cannot be: what was bound before   *)
(* stays bound.                                                              *)

NeedsNumber(op, n) ==
  CASE op.kind \in {"product", "filter"} -> TRUE
    [] op.kind = "group"     -> n > 1 /\ op.aggregates[n - 1].operation # "count"
    [] op.kind = "summarize" -> op.aggregates[n].operation # "count"
    [] OTHER                 -> FALSE

\* The right key of a join is looked for in the right table alone.
BindRef(op, n, t, right, derived) ==
  IF op.kind = "join" /\ n = 2 THEN BindColumn(right, <<>>, op.refs[n], FALSE)
  ELSE BindColumn(t, derived, op.refs[n], NeedsNumber(op, n))

WithRef(op, n, bound) == [status |-> bound.status, op |-> [op EXCEPT !.refs[n] = bound.ref]]

BindRefs(op, t, right, derived) ==
  FoldLeft(LAMBDA b, n : IF b.status = "ok" THEN WithRef(b.op, n, BindRef(b.op, n, t, right, derived)) ELSE b,
           [status |-> "ok", op |-> op], [n \in DOMAIN op.refs |-> n])

KeysFit(left, right) == left.type # "unknown" /\ left.type = right.type /\ left.dtype = right.dtype

BoundStatus(op) ==
  CASE op.kind = "period" -> Must(op.refs[1].type = "text", "type")
    [] op.kind = "join"   -> Must(KeysFit(op.refs[1], op.refs[2]), "type")
    [] OTHER              -> "ok"

RefsBound(b) == IF b.status = "ok" THEN [b EXCEPT !.status = BoundStatus(b.op)] ELSE b

BindOperation(op, t, right, derived) ==
  IF op.kind \in {"product", "period"} /\ Known(t, derived, op.output) THEN [status |-> "type", op |-> op]
  ELSE RefsBound(BindRefs(op, t, right, derived))

WithOperation(hir, i, bound) == [status |-> bound.status, hir |-> [hir EXCEPT !.operations[i] = bound.op]]

BindOperations(declared, t, right) ==
  FoldLeft(LAMBDA b, i :
             IF b.status # "ok" THEN b
             ELSE WithOperation(b.hir, i,
                    BindOperation(b.hir.operations[i], t, right, DerivedBefore(b.hir.operations, i))),
           declared, [i \in DOMAIN declared.hir.operations |-> i])

WithDeclared(hir, n, bound) ==
  [status |-> FirstStatus(<<bound.status, Must(bound.ref.type = bound.ref.declaredType, "type")>>),
   hir |-> [hir EXCEPT !.declared[n] = bound.ref]]

BindDeclared(hir, t) ==
  FoldLeft(LAMBDA b, n :
             IF b.status # "ok" THEN b
             ELSE WithDeclared(b.hir, n, BindColumn(t, <<>>, b.hir.declared[n], FALSE)),
           [status |-> "ok", hir |-> hir], [n \in DOMAIN hir.declared |-> n])

-----------------------------------------------------------------------------
(* The limits a program sets itself: the most columns and rows it can have   *)
(* on its way.                                                               *)

\* Mutant: a column that is computed is not counted.
ColumnsAfterInPlace(op, columns, right) ==
  CASE op.kind = "select" -> Len(op.refs)
    [] op.kind = "group" -> Len(op.aggregates) + 1
    [] op.kind = "summarize" -> Len(op.aggregates)
    [] op.kind = "join" -> columns + Len(right.columns)
    [] OTHER -> columns

ColumnsAfter(op, columns, right) ==
  CASE op.kind \in {"product", "period"} -> columns + 1
    [] op.kind = "select"    -> Len(op.refs)
    [] op.kind = "group"     -> Len(op.aggregates) + 1
    [] op.kind = "summarize" -> Len(op.aggregates)
    [] op.kind = "join"      -> columns + Len(right.columns)
    [] OTHER                 -> columns

\* How many columns there are at the start and after each operation.
ColumnCounts(hir, t, right) ==
  FoldLeft(LAMBDA counts, op : Append(counts, ColumnsAfter(op, Last(counts), right)),
           <<Len(t.columns)>>, hir.operations)

Joins(hir) == SelectSeq(hir.operations, LAMBDA op : op.kind = "join")

OwnPolicy(hir, t, right) ==
  [input |-> Max({t.rows, right.rows}),
   output |-> Max({t.rows} \cup {op.rows : op \in ToSet(Joins(hir))}),
   columns |-> Max({Len(right.columns)} \cup ToSet(ColumnCounts(hir, t, right)))]

-----------------------------------------------------------------------------
(* Binding a program: a table carries the path it was loaded from.           *)

PathKey == "path"
LoadedFrom(t, path) == \E m \in ToSet(t.metadata) : m.key = PathKey /\ m.value = path

\* rights holds the right table, or nothing.
SourcesStatus(hir, t, rights) ==
  LET joins == Joins(hir) IN
  FirstStatus(<<
    Must(LoadedFrom(t, hir.source.path), "data"),
    Must(Len(joins) =< 1, "unsupported"),
    Must(Len(joins) = Len(rights), "data"),
    Must(\A n \in DOMAIN joins \cap DOMAIN rights : LoadedFrom(rights[n], joins[n].right), "data")>>)

WithPolicy(bound, t, right) ==
  IF bound.status = "ok" THEN [bound EXCEPT !.hir.policy = {OwnPolicy(bound.hir, t, right)}] ELSE bound

BindHir(hir, t, rights) ==
  LET right == IF rights = <<>> THEN NoTable ELSE rights[1] IN
  IF SourcesStatus(hir, t, rights) # "ok" THEN [status |-> SourcesStatus(hir, t, rights), hir |-> hir]
  ELSE WithPolicy(BindOperations(BindDeclared(hir, t), t, right), t, right)

-----------------------------------------------------------------------------
(* Execution: every operation works on a copy, which becomes the result.     *)

WithinPolicy(policy, built) ==
  Then(built, LAMBDA made :
    IF made.rows > policy.output \/ Len(made.columns) > policy.columns THEN Failed("overflow") ELSE built)

Specifications(op, first) ==
  [n \in DOMAIN op.aggregates |->
     [column |-> op.refs[first + n].name, operation |-> op.aggregates[n].operation,
      name |-> op.aggregates[n].output]]

ExecuteJoin(op, t, rights, policy) ==
  IF rights = <<>> THEN Failed("data")
  ELSE LET rows == Least(op.rows, policy.output) IN
       IF rows = 0 THEN Failed("overflow")
       ELSE Join(t, rights[1], <<op.refs[1].name>>, <<op.refs[2].name>>, "inner", [rows |-> rows, memory |-> op.memory])

Operate(op, t, rights, policy) ==
  CASE op.kind \in {"product", "period"} ->
         IF Len(t.columns) >= policy.columns THEN Failed("overflow")
         ELSE IF op.kind = "product" THEN AddProduct(t, op.refs[1].name, op.refs[2].name, op.output)
         ELSE AddMonth(t, op.refs[1].name, op.output)
    [] op.kind = "filter"     -> FilterNumeric(t, op.refs[1].name, op.operator, op.threshold)
    [] op.kind = "select"     -> SelectColumns(t, [n \in DOMAIN op.refs |-> op.refs[n].name])
    [] op.kind = "group"      -> GroupBy(t, <<op.refs[1].name>>, Specifications(op, 1))
    [] op.kind = "summarize"  -> GroupBy(t, <<>>, Specifications(op, 0))
    [] op.kind = "drop_nulls" -> DropNullColumns(t, <<>>)
    [] op.kind = "drop_duplicates" -> DropDuplicates(t)
    [] op.kind = "join"       -> ExecuteJoin(op, t, rights, policy)

Executed(operations, t, rights, policy) ==
  FoldLeft(LAMBDA b, op : WithinPolicy(policy, Then(b, LAMBDA made : Operate(op, made, rights, policy))),
           Clone(t), operations)

InputsFit(t, rights, policy) ==
  \A s \in {t} \cup ToSet(rights) : s.rows =< policy.input /\ Len(s.columns) =< policy.columns

ExecuteHir(hir, t, rights, policy) ==
  IF ~InputsFit(t, rights, policy) THEN Failed("overflow")
  ELSE WithinPolicy(policy, Executed(hir.operations, t, rights, policy))
=================================================================================
