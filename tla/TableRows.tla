------------------------------- MODULE TableRows -------------------------------
(***************************************************************************)
(* Operations that choose, order or complete the rows of one table.        *)
(***************************************************************************)
EXTENDS TableColumns

\* Every name must be a column's, in the order they are given.
AllColumns(t, names) == \A i \in DOMAIN names : HasColumn(t, names[i])

Guarded(t, Operate(_)) == IF TableStatus(t) = "ok" THEN Operate(t) ELSE Failed(TableStatus(t))

Clone(t) == Guarded(t, LAMBDA s : TakeRows(s, AllRows(s)))

\* The mask is a boolean array of as many elements as there are rows.
FilterRows(s, mask) ==
  IF Len(mask) # s.rows THEN Failed("argument")
  ELSE TakeRows(s, RowsWhere(s, LAMBDA row : mask[row] = 1))

Filter(t, mask) == Guarded(t, LAMBDA s : FilterRows(s, mask))

SelectColumns(t, names) ==
  Guarded(t, LAMBDA s :
    FoldLeft(LAMBDA b, name :
               Then(b, LAMBDA made :
                 IF HasColumn(s, name) THEN AddColumnRows(made, Column(s, name), name, AllRows(s))
                 ELSE Failed("data")),
             Empty(s.rows, s.metadata), names))

\* No names means every column.
DropNullColumns(t, names) ==
  Guarded(t, LAMBDA s :
    IF ~AllColumns(s, names) THEN Failed("data")
    ELSE TakeRows(s, RowsWhere(s, LAMBDA row :
           \A i \in DOMAIN s.columns :
             (names = <<>> \/ s.columns[i].name \in ToSet(names)) => s.columns[i].valid[row])))

-----------------------------------------------------------------------------
(* Filling nulls changes the table itself: what could fail is looked at      *)
(* before the first cell is written, but for the type of a complex cell.     *)

FillStatus(c, value) ==
  IF value.type # c.type \/ (c.type = "array" /\ value.dtype # c.dtype) THEN "type"
  ELSE IF c.type = "string" /\ value.cell < EmptyText THEN "data"
  ELSE IF c.type = "categorical" /\ ~CodeValid(c, value.cell) THEN "data"
  ELSE IF value.dtype \in IntegerTypes /\ ~InRange(value.dtype, value.cell) THEN "overflow"
  ELSE IF c.type = "array" /\ c.dtype \notin RealTypes /\ FALSE \in ToSet(c.valid) THEN "unsupported"
  ELSE "ok"

Filled(c, value) ==
  [c EXCEPT !.cells = [row \in DOMAIN @ |-> IF IsNull(c, row) THEN value.cell ELSE @[row]],
            !.valid = [row \in DOMAIN @ |-> TRUE]]

FillNull(t, name, value) ==
  IF TableStatus(t) # "ok" THEN Failed("argument")
  ELSE IF ~HasColumn(t, name) THEN Failed("data")
  ELSE IF FillStatus(Column(t, name), value) # "ok" THEN Failed(FillStatus(Column(t, name), value))
  ELSE Built([t EXCEPT !.columns[ColumnIndex(t, name)] = Filled(@, value)])

-----------------------------------------------------------------------------
(* Order: a stable bottom-up merge sort.  Nulls come last and NaNs last but *)
(* for them, in both directions.                                            *)

Sign(a, b) == IF a < b THEN -1 ELSE IF a > b THEN 1 ELSE 0
Directed(ascending, comparison) == IF ascending THEN comparison ELSE -comparison

CompareValues(c, l, r, ascending) ==
  CASE c.type = "categorical" -> Directed(ascending, Sign(Label(c, l), Label(c, r)))
    [] c.type = "array" /\ c.dtype \in FloatTypes ->
         IF IsNaN(c.cells[l]) # IsNaN(c.cells[r]) THEN (IF IsNaN(c.cells[l]) THEN 1 ELSE -1)
         ELSE IF IsNaN(c.cells[l]) THEN 0
         ELSE Directed(ascending, Sign(Plain(c.cells[l]), Plain(c.cells[r])))
    [] OTHER -> Directed(ascending, Sign(c.cells[l], c.cells[r]))

CompareColumnRows(c, l, r, ascending) ==
  IF c.valid[l] # c.valid[r] THEN (IF c.valid[l] THEN -1 ELSE 1)
  ELSE IF IsNull(c, l) THEN 0
  ELSE CompareValues(c, l, r, ascending)

\* The first key that tells the rows apart decides.
CompareKeyRows(t, keys, l, r) ==
  FoldLeft(LAMBDA found, key :
             IF found # 0 THEN found
             ELSE CompareColumnRows(Column(t, key.column), l, r, key.ascending),
           0, keys)

\* Two runs become one; of equal rows those of the left run come first.
Merged(t, keys, left, right) ==
  LET Rest[l \in 1..(Len(left) + 1), r \in 1..(Len(right) + 1)] ==
        IF l > Len(left) THEN SubSeq(right, r, Len(right))
        ELSE IF r > Len(right) THEN SubSeq(left, l, Len(left))
        ELSE IF CompareKeyRows(t, keys, left[l], right[r]) =< 0 THEN <<left[l]>> \o Rest[l + 1, r]
        ELSE <<right[r]>> \o Rest[l, r + 1]
  IN Rest[1, 1]

Least(a, b) == IF a < b THEN a ELSE b

\* The runs of one width, merged two by two.
MergedRuns(t, keys, order, width) ==
  LET Run(from) == SubSeq(order, from, Least(from + width - 1, Len(order)))
      start == [n \in 1..((Len(order) + 2 * width - 1) \div (2 * width)) |-> 2 * width * (n - 1) + 1]
  IN FlattenSeq([n \in DOMAIN start |-> Merged(t, keys, Run(start[n]), Run(start[n] + width))])

\* One pass after the other, the runs twice as wide, until one run is all.
SortedRows(t, keys, order) ==
  FoldLeft(LAMBDA rows, pass :
             IF 2^(pass - 1) >= Len(rows) THEN rows ELSE MergedRuns(t, keys, rows, 2^(pass - 1)),
           order, [pass \in DOMAIN order |-> pass])

\* The first bad key decides the status.
SortKeyStatus(t, key) ==
  IF ~HasColumn(t, key.column) THEN "data"
  ELSE IF Column(t, key.column).type = "array" /\ Column(t, key.column).dtype \notin RealTypes
    THEN "unsupported"
  ELSE "ok"

KeysStatus(t, keys) == FirstStatus([i \in DOMAIN keys |-> SortKeyStatus(t, keys[i])])

SortKeys(t, keys) ==
  IF keys = <<>> THEN Failed("argument")
  ELSE Guarded(t, LAMBDA s :
         IF KeysStatus(s, keys) # "ok" THEN Failed(KeysStatus(s, keys))
         ELSE TakeRows(s, SortedRows(s, keys, AllRows(s))))

-----------------------------------------------------------------------------
(* Duplicates are told by the bytes of a cell, or by its code: both zeros    *)
(* and two NaNs of different payload are kept, unlike in groups and joins.   *)

RowsEqual(t, l, r) ==
  \A i \in DOMAIN t.columns :
    LET c == t.columns[i] IN
    /\ c.valid[l] = c.valid[r]
    /\ c.valid[l] => c.cells[l] = c.cells[r]

\* A row is kept when it is none of the rows kept before it.
KeptRows(t) ==
  FoldLeft(LAMBDA kept, row :
             IF \E k \in ToSet(kept) : RowsEqual(t, row, k) THEN kept ELSE Append(kept, row),
           <<>>, AllRows(t))

DropDuplicates(t) == Guarded(t, LAMBDA s : TakeRows(s, KeptRows(s)))

-----------------------------------------------------------------------------
(* Numbers of a column, for the operations that compute.                     *)

NumericStatus(c, row) ==
  IF c.type # "array" \/ c.dtype \notin RealTypes THEN "type"
  ELSE IF c.dtype \in FloatTypes /\ ~Finite(c.cells[row]) THEN "data"
  ELSE "ok"

Operators == {">", ">=", "<", "<=", "==", "!="}

Compares(operator, x, threshold) ==
  CASE operator = ">"  -> x > threshold
    [] operator = ">=" -> x >= threshold
    [] operator = "<"  -> x < threshold
    [] operator = "<=" -> x =< threshold
    [] operator = "==" -> x = threshold
    [] operator = "!=" -> x # threshold

\* A null is never kept, and a row that is no number ends the operation.
FilterNumericRows(s, c, operator, threshold) ==
  LET values == RowsWhere(s, LAMBDA row : c.valid[row])
      status == FirstStatus([k \in DOMAIN values |-> NumericStatus(c, values[k])])
  IN IF status # "ok" THEN Failed(status)
     ELSE TakeRows(s, SelectSeq(values, LAMBDA row : Compares(operator, Plain(c.cells[row]), threshold)))

FilterNumeric(t, name, operator, threshold) ==
  Guarded(t, LAMBDA s :
    IF ~HasColumn(s, name) THEN Failed("data")
    ELSE IF operator \notin Operators THEN Failed("unsupported")
    ELSE FilterNumericRows(s, Column(s, name), operator, threshold))
=============================================================================
