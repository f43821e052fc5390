------------------------------ MODULE TableReshape ------------------------------
(***************************************************************************)
(* Operations that make columns: unpivot, products, months, statistics,    *)
(* and the two ways between a table and the untyped data set of texts.     *)
(***************************************************************************)
EXTENDS TableGroups

CONSTANTS
  NameText,       \* the text a column's name is
  MonthOf,        \* texts that are ISO dates, and the text of their month
  NumberOf,       \* texts that parse as finite numbers, and the number
  NumeralOf       \* cells as numbers, and how they are written

-----------------------------------------------------------------------------
SameStorage(a, b) ==
  /\ a.type = b.type
  /\ a.type # "string" => a.dtype = b.dtype
  /\ a.type = "categorical" => a.dictionary = b.dictionary

\* Output row k is value column ValueAt(k) of source row SourceAt(k).
UnpivotRows(s, ids, values, variableName, valueName) ==
  LET count == Len(values)
      output == 1..(s.rows * count)
      SourceAt(k) == ((k - 1) \div count) + 1
      ValueAt(k) == values[((k - 1) % count) + 1]
      first == Column(s, values[1])
      withIds == AddColumnsRows(Empty(s.rows * count, <<>>),
                   [i \in DOMAIN ids |-> Column(s, ids[i])], [k \in output |-> SourceAt(k)])
      withNames == Then(withIds, LAMBDA t :
                     AddStringColumn(t, variableName, [k \in output |-> NameText[ValueAt(k)]],
                                     [k \in output |-> TRUE]))
  IN Then(withNames, LAMBDA t :
       AddCopy(t, first, valueName, [k \in output |-> Column(s, ValueAt(k)).cells[SourceAt(k)]],
                                    [k \in output |-> Column(s, ValueAt(k)).valid[SourceAt(k)]]))

Unpivot(t, ids, values, variableName, valueName) ==
  IF values = <<>> THEN Failed("argument")
  ELSE Guarded(t, LAMBDA s :
         IF ~AllColumns(s, ids) \/ ~AllColumns(s, values) THEN Failed("data")
         ELSE IF \E i \in DOMAIN values : ~SameStorage(Column(s, values[1]), Column(s, values[i]))
           THEN Failed("type")
         ELSE UnpivotRows(s, ids, values, variableName, valueName))

-----------------------------------------------------------------------------
(* Columns added to the table itself, once every row is computed.  The first *)
(* row that cannot be decides the status.                                    *)

Times(x, y) == Plain(x) * Plain(y)

ProductStatus(a, b, row) ==
  FirstStatus(<<NumericStatus(a, row), NumericStatus(b, row),
                IF Times(a.cells[row], b.cells[row]) \in -MaxFinite..MaxFinite THEN "ok"
                ELSE "overflow">>)

BothValid(a, b) == [row \in DOMAIN a.valid |-> a.valid[row] /\ b.valid[row]]

ProductColumn(t, a, b, output) ==
  LET valid == BothValid(a, b)
      status == FirstStatus([row \in DOMAIN valid |->
                  IF valid[row] THEN ProductStatus(a, b, row) ELSE "ok"])
  IN IF status # "ok" THEN Failed(status)
     ELSE AddArrayColumn(t, output, "float64",
            [row \in DOMAIN valid |-> IF valid[row] THEN Times(a.cells[row], b.cells[row]) ELSE 0],
            valid)

AddProduct(t, left, right, output) ==
  Guarded(t, LAMBDA s :
    IF ~HasColumn(s, left) \/ ~HasColumn(s, right) \/ HasColumn(s, output) THEN Failed("data")
    ELSE ProductColumn(s, Column(s, left), Column(s, right), output))

MonthColumn(t, c, output) ==
  IF \E row \in DOMAIN c.valid : c.valid[row] /\ c.cells[row] \notin DOMAIN MonthOf THEN Failed("type")
  ELSE AddStringColumn(t, output,
         [row \in DOMAIN c.cells |-> IF c.valid[row] THEN MonthOf[c.cells[row]] ELSE NoText], c.valid)

AddMonth(t, date, output) ==
  Guarded(t, LAMBDA s :
    IF ~HasColumn(s, date) THEN Failed("data")
    ELSE IF Column(s, date).type # "string" THEN Failed("type")
    ELSE IF HasColumn(s, output) THEN Failed("data")
    ELSE MonthColumn(s, Column(s, date), output))

-----------------------------------------------------------------------------
(* Statistics of a column of one table, added to another of a single row.   *)

\* The neighbours are far apart: their difference is an infinity.
Percentile(sorted, percent) ==
  LET position == Position(sorted, percent)
      a == sorted[position.lower]
      b == sorted[position.upper]
  IN IF b - a =< MaxFinite THEN Between(a, b, position.hundredths)
     ELSE IF position.hundredths = 0 THEN NaN ELSE Infinity

Median(sorted) ==
  LET middle == Len(sorted) \div 2
      sum == Saturated(sorted[middle] + sorted[middle + 1])
  IN IF Len(sorted) % 2 = 1 THEN sorted[middle + 1] ELSE IF Finite(sum) THEN sum \div 2 ELSE sum

Statistic(cells, statistic) ==
  CASE statistic.name = "variance"  -> Variance(cells)
    [] statistic.name = "deviation" -> Deviation(cells)
    [] statistic.name = "median"    -> Median(SortSeq(cells, <))
    [] OTHER                        -> Percentile(SortSeq(cells, <), statistic.percent)

StatisticColumn(out, c, rows, output, statistic) ==
  LET status == FirstStatus([k \in DOMAIN rows |-> NumericStatus(c, rows[k])])
      cells == [k \in DOMAIN rows |-> Plain(c.cells[rows[k]])]
  IN IF status # "ok" THEN Failed(status)
     ELSE AddArrayColumn(out, output, "float64",
            <<IF cells = <<>> THEN 0 ELSE Statistic(cells, statistic)>>, <<cells # <<>>>>)

AddStatistic(out, t, name, output, statistic) ==
  IF statistic.percent \notin 0..100 THEN Failed("argument")
  ELSE Guarded(t, LAMBDA s :
    IF TableStatus(out) # "ok" THEN Failed(TableStatus(out))
    ELSE IF out.rows # 1 THEN Failed("argument")
    ELSE IF ~HasColumn(s, name) THEN Failed("type")
    ELSE IF Column(s, name).type # "array" THEN Failed("type")
    ELSE StatisticColumn(out, Column(s, name),
           RowsWhere(s, LAMBDA row : Column(s, name).valid[row]), output, statistic))

-----------------------------------------------------------------------------
(* Data sets: headers and rows of texts.  An empty text is a null, and a     *)
(* text that is no number is a null in a numeric column.                     *)

DatasetColumn(dataset, i) == [row \in DOMAIN dataset.rows |-> dataset.rows[row][i]]

FirstSeen(texts) ==
  FoldLeft(LAMBDA seen, text : IF text \in ToSet(seen) THEN seen ELSE Append(seen, text), <<>>, texts)

AddDatasetColumn(t, name, texts, kind) ==
  LET valid == [row \in DOMAIN texts |-> texts[row] # EmptyText]
      dictionary == FirstSeen(SelectSeq(texts, LAMBDA text : text # EmptyText))
  IN CASE kind = "numeric" ->
            LET parsed == [row \in DOMAIN texts |-> valid[row] /\ texts[row] \in DOMAIN NumberOf] IN
            AddArrayColumn(t, name, "float64",
              [row \in DOMAIN texts |-> IF parsed[row] THEN NumberOf[texts[row]] ELSE 0], parsed)
       [] kind = "categorical" ->
            AddCategoricalColumn(t, name, "uint32",
              [row \in DOMAIN texts |->
                 IF valid[row] THEN SelectInSeq(dictionary, LAMBDA text : text = texts[row]) - 1 ELSE 0],
              valid, dictionary)
       [] OTHER -> AddStringColumn(t, name, texts, valid)

\* The schema says of some columns what they hold and for what; others are text.
AddScheduled(t, dataset, schema, i) ==
  LET name == dataset.headers[i]
      known == name \in DOMAIN schema
  IN Then(AddDatasetColumn(t, name, DatasetColumn(dataset, i), IF known THEN schema[name].kind ELSE "text"),
          LAMBDA added :
            Built(IF known
                    THEN [added EXCEPT !.columns[Len(added.columns)].metadata =
                            SetMetadata(@, "rol", schema[name].role)]
                    ELSE added))

FromDataset(dataset, schema) ==
  FoldLeft(LAMBDA b, i : Then(b, LAMBDA t : AddScheduled(t, dataset, schema, i)),
           Built(NoColumns), [i \in DOMAIN dataset.headers |-> i])

CellText(c, row) ==
  CASE IsNull(c, row)          -> EmptyText
    [] c.type = "string"       -> c.cells[row]
    [] c.type = "categorical"  -> Label(c, row)
    [] OTHER                   -> NumeralOf[c.cells[row]]

NoDataset == [headers |-> <<>>, rows |-> <<>>]

\* A complex cell that is not null has no text.
DatasetFromTable(t) ==
  IF TableStatus(t) # "ok" THEN [status |-> TableStatus(t), dataset |-> NoDataset]
  ELSE IF \E c \in ToSet(t.columns) : c.dtype \notin RealTypes /\ TRUE \in ToSet(c.valid)
    THEN [status |-> "unsupported", dataset |-> NoDataset]
  ELSE [status |-> "ok",
        dataset |-> [headers |-> [i \in DOMAIN t.columns |-> t.columns[i].name],
                     rows |-> [row \in Rows(t) |->
                                 [i \in DOMAIN t.columns |-> CellText(t.columns[i], row)]]]]
=============================================================================
