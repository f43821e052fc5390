------------------------------ MODULE TableGroups ------------------------------
(***************************************************************************)
(* Groups and joins: rows found by the hash of their keys in a table with  *)
(* open addressing.  A hash is a number below HashValues, so that keys     *)
(* which differ do collide.                                                *)
(***************************************************************************)
EXTENDS TableRows, TLC

CONSTANT HashValues

ASSUME SomeHash == HashValues \in Nat \ {0}

-----------------------------------------------------------------------------
(* Keys: nulls, NaNs and the two zeros are made one before they are hashed, *)
(* and a category is its label.                                             *)

\* Mutant: numbers are hashed by their bits, which differ for equal numbers.
CellHashOfBits(c, row) ==
  IF IsNull(c, row) THEN HashValues - 1
  ELSE IF c.type = "categorical" THEN Label(c, row) % HashValues
  ELSE c.cells[row] % HashValues

CellHash(c, row) ==
  IF IsNull(c, row) THEN HashValues - 1
  ELSE CASE c.type = "categorical" -> Label(c, row) % HashValues
         [] c.type = "array" /\ c.dtype \in FloatTypes ->
              IF IsNaN(c.cells[row]) THEN 0 ELSE Plain(c.cells[row]) % HashValues
         [] OTHER -> c.cells[row] % HashValues

KeyHash(t, keys, row) ==
  FoldLeft(LAMBDA hash, i : (3 * hash + CellHash(t.columns[i], row)) % HashValues, 0, keys)

ValuesEqual(a, l, b, r) ==
  CASE a.type = "categorical" -> Label(a, l) = Label(b, r)
    [] a.type = "array" /\ a.dtype \in FloatTypes ->
         \/ IsNaN(a.cells[l]) /\ IsNaN(b.cells[r])
         \/ Plain(a.cells[l]) = Plain(b.cells[r]) /\ ~IsNaN(a.cells[l])
    [] OTHER -> a.cells[l] = b.cells[r]

\* Nulls are equal in a group and to nothing in a join.
CellsEqual(a, l, b, r, nullEqual) ==
  IF IsNull(a, l) \/ IsNull(b, r) THEN nullEqual /\ IsNull(a, l) /\ IsNull(b, r)
  ELSE /\ a.type = b.type
       /\ a.type = "array" => a.dtype = b.dtype
       /\ ValuesEqual(a, l, b, r)

KeysEqual(a, aKeys, l, b, bKeys, r, nullEqual) ==
  \A i \in DOMAIN aKeys : CellsEqual(a.columns[aKeys[i]], l, b.columns[bKeys[i]], r, nullEqual)

-----------------------------------------------------------------------------
(* The index: slots from 0, each free or with the hash and the rows of one  *)
(* key in the order they came.  Probing goes to the next slot and around.   *)

\* A power of two, so that at most half of the slots are taken.
Capacity(rows) == Min({slots \in {8 * 2^k : k \in 0..rows} : slots >= 2 * rows})

FreeSlots(rows) == [slot \in 0..(Capacity(rows) - 1) |-> [hash |-> 0, rows |-> <<>>]]

FindSlot(slots, hash, Same(_)) ==
  LET At(distance) == (hash + distance) % Cardinality(DOMAIN slots)
      Stops(slot) == \/ slots[slot].rows = <<>>
                     \/ slots[slot].hash = hash /\ Same(Head(slots[slot].rows))
  IN At(Min({distance \in DOMAIN slots : Stops(At(distance))}))

Entered(slots, slot, hash, row) ==
  [slots EXCEPT ![slot] = [hash |-> hash, rows |-> Append(@.rows, row)]]

-----------------------------------------------------------------------------
(* Aggregates of the rows of one group, in the order of the rows.           *)

AggregateSupported(c, operation) ==
  operation = "count" \/ (c.type = "array" /\ c.dtype \in RealTypes)

AggregateType(c, operation) ==
  CASE operation = "count" -> "int64"
    [] operation = "mean"  -> "float64"
    [] operation = "sum" /\ c.dtype = "bool" -> "uint64"
    [] OTHER -> c.dtype

\* Integers are added in 64 bits and must fit the column's type at the end.
AccumulatorType(c) == IF c.dtype \in SignedTypes THEN "int64" ELSE "uint64"

\* Compensated: what follows an infinity is corrected by what is no number.
FloatSum(cells) ==
  FoldLeft(LAMBDA sum, x : IF ~Finite(sum) \/ IsNaN(x) THEN NaN
                           ELSE IF Finite(x) THEN Saturated(sum + Plain(x)) ELSE x,
           0, cells)

\* One addition past the range fails the sum, whatever would follow.
IntegerSum(c, cells) ==
  FoldLeft(LAMBDA r, x :
             IF r.status # "ok" \/ ~InRange(AccumulatorType(c), r.cell + x)
               THEN [status |-> "overflow", cell |-> 0]
               ELSE [r EXCEPT !.cell = @ + x],
           [status |-> "ok", cell |-> 0], cells)

Fitting(dtype, r) ==
  IF r.status = "ok" /\ ~InRange(dtype, r.cell) THEN [status |-> "overflow", cell |-> 0] ELSE r

\* A float that is too large for its column is an infinity there.
Narrowed(dtype, x) == IF InRange(dtype, x) THEN x ELSE IF x > 0 THEN Infinity ELSE -Infinity

Total(c, cells) ==
  IF c.dtype \in FloatTypes THEN [status |-> "ok", cell |-> Narrowed(c.dtype, FloatSum(cells))]
  ELSE Fitting(AggregateType(c, "sum"), IntegerSum(c, cells))

\* A NaN that is seen stays.
Extreme(c, operation, cells) ==
  FoldLeft(LAMBDA best, x :
             IF c.dtype \in FloatTypes /\ IsNaN(x) THEN x
             ELSE IF c.dtype \in FloatTypes /\ IsNaN(best) THEN best
             ELSE IF \/ operation = "min" /\ Plain(x) < Plain(best)
                     \/ operation = "max" /\ Plain(x) > Plain(best) THEN x ELSE best,
           Head(cells), Tail(cells))

\* Division of floats is of the small integers that stand for them.
Quotient(sum, count) == IF Finite(sum) THEN sum \div count ELSE sum

Aggregate(c, operation, cells) ==
  CASE operation = "count" -> [status |-> "ok", cell |-> Len(cells)]
    [] cells = <<>>        -> [status |-> "ok", cell |-> 0]
    [] operation = "sum"   -> Total(c, cells)
    [] operation = "mean"  -> [status |-> "ok", cell |-> Quotient(FloatSum(cells), Len(cells))]
    [] OTHER               -> [status |-> "ok", cell |-> Extreme(c, operation, cells)]

ValidCells(c, rows) ==
  LET valid == SelectSeq(rows, LAMBDA row : c.valid[row]) IN [k \in DOMAIN valid |-> c.cells[valid[k]]]

AggregateColumn(t, c, groups, aggregate) ==
  LET cells == [g \in DOMAIN groups |-> ValidCells(c, groups[g])]
      results == [g \in DOMAIN groups |-> Aggregate(c, aggregate.operation, cells[g])]
      status == FirstStatus([g \in DOMAIN results |-> results[g].status])
  IN IF HasColumn(t, aggregate.name) THEN Failed("argument")
     ELSE IF status # "ok" THEN Failed(status)
     ELSE AddArrayColumn(t, aggregate.name, AggregateType(c, aggregate.operation),
            [g \in DOMAIN results |-> results[g].cell],
            [g \in DOMAIN results |-> aggregate.operation = "count" \/ cells[g] # <<>>])

-----------------------------------------------------------------------------
(* Groups in the order of their first rows.                                 *)

Indices(t, names) == [i \in DOMAIN names |-> ColumnIndex(t, names[i])]

GroupRow(found, t, keys, row) ==
  LET hash == KeyHash(t, keys, row)
      slot == FindSlot(found.slots, hash, LAMBDA first : KeysEqual(t, keys, first, t, keys, row, TRUE))
  IN [slots |-> Entered(found.slots, slot, hash, row),
      order |-> IF found.slots[slot].rows = <<>> THEN Append(found.order, slot) ELSE found.order]

\* The rows of every group.
Groups(t, keys) ==
  LET found == FoldLeft(LAMBDA f, row : GroupRow(f, t, keys, row),
                        [slots |-> FreeSlots(t.rows), order |-> <<>>], AllRows(t))
  IN [g \in DOMAIN found.order |-> found.slots[found.order[g]].rows]

AggregateStatus(t, aggregate) ==
  IF ~HasColumn(t, aggregate.column) THEN "data"
  ELSE IF ~AggregateSupported(Column(t, aggregate.column), aggregate.operation) THEN "unsupported"
  ELSE "ok"

KeyedGroups(t, keys, groups) ==
  AddColumnsRows(Empty(Len(groups), <<>>), [i \in DOMAIN keys |-> t.columns[keys[i]]],
                 [g \in DOMAIN groups |-> Head(groups[g])])

Grouped(t, keys, groups, aggregates) ==
  FoldLeft(LAMBDA b, a :
             Then(b, LAMBDA made : AggregateColumn(made, Column(t, a.column), groups, a)),
           KeyedGroups(t, keys, groups), aggregates)

\* No key makes one group of all rows, and none of no rows.
GroupBy(t, keys, aggregates) ==
  Guarded(t, LAMBDA s :
    IF ~AllColumns(s, keys) THEN Failed("data")
    ELSE LET status == FirstStatus([i \in DOMAIN aggregates |-> AggregateStatus(s, aggregates[i])]) IN
         IF status # "ok" THEN Failed(status)
         ELSE Grouped(s, Indices(s, keys), Groups(s, Indices(s, keys)), aggregates))

-----------------------------------------------------------------------------
(* Joins: the right rows are indexed, the pairs are counted against the     *)
(* limits and only then made.                                               *)

HasNullKey(t, keys, row) == \E i \in DOMAIN keys : IsNull(t.columns[keys[i]], row)

SlotOf(slots, probe, probeKeys, row, right, rightKeys) ==
  FindSlot(slots, KeyHash(probe, probeKeys, row),
           LAMBDA r : KeysEqual(probe, probeKeys, row, right, rightKeys, r, FALSE))

RightIndex(right, keys) ==
  FoldLeft(LAMBDA slots, row :
             IF HasNullKey(right, keys, row) THEN slots
             ELSE Entered(slots, SlotOf(slots, right, keys, row, right, keys),
                          KeyHash(right, keys, row), row),
           FreeSlots(right.rows), AllRows(right))

\* The right rows every left row meets, and the right rows nobody met.
Matches(left, leftKeys, right, rightKeys) ==
  LET slots == RightIndex(right, rightKeys) IN
  [row \in Rows(left) |->
     IF HasNullKey(left, leftKeys, row) THEN <<>>
     ELSE slots[SlotOf(slots, left, leftKeys, row, right, rightKeys)].rows]

Unmatched(right, matches) ==
  RowsWhere(right, LAMBDA r : \A row \in DOMAIN matches : r \notin ToSet(matches[row]))

KeepsLeft(kind) == kind \in {"left", "full"}
KeepsRight(kind) == kind \in {"right", "full"}

PairsOfRow(row, rights, kind) ==
  IF rights # <<>> THEN [k \in DOMAIN rights |-> <<row, rights[k]>>]
  ELSE IF KeepsLeft(kind) THEN <<<<row, NoRow>>>> ELSE <<>>

Pairs(left, right, matches, kind) ==
  LET unmatched == Unmatched(right, matches) IN
  FlattenSeq([row \in DOMAIN matches |-> PairsOfRow(row, matches[row], kind)])
    \o (IF KeepsRight(kind) THEN [k \in DOMAIN unmatched |-> <<NoRow, unmatched[k]>>] ELSE <<>>)

\* Memory is counted in cells: the index, the maps of rows and the result.
EstimatedPeak(left, right, pairs) ==
  Capacity(right.rows) + right.rows
    + Len(pairs) * (2 + Len(left.columns) + Len(right.columns))

\* A name on the right that is taken gets a suffix, and a number from 2 on.
FreeName(t, base) ==
  LET Candidate(suffix) == Append(base, IF suffix = 1 THEN "_right" ELSE "_right" \o ToString(suffix)) IN
  Candidate(Min({suffix \in 1..(Len(t.columns) + 1) : ~HasColumn(t, Candidate(suffix))}))

UniqueRightName(t, base) == IF HasColumn(t, base) THEN FreeName(t, base) ELSE base

JoinedTable(left, right, pairs) ==
  LET leftRows == [k \in DOMAIN pairs |-> pairs[k][1]]
      rightRows == [k \in DOMAIN pairs |-> pairs[k][2]]
  IN FoldLeft(LAMBDA b, c :
                Then(b, LAMBDA made : AddColumnRows(made, c, UniqueRightName(made, c.name), rightRows)),
              AddColumnsRows(Empty(Len(pairs), <<>>), left.columns, leftRows), right.columns)

LimitedJoin(left, right, pairs, limits) ==
  IF \/ Capacity(right.rows) + right.rows > limits.memory
     \/ Len(pairs) > limits.rows
     \/ EstimatedPeak(left, right, pairs) > limits.memory
    THEN Failed("overflow")
    ELSE JoinedTable(left, right, pairs)

JoinKeyStatus(left, right, l, r) ==
  IF ~HasColumn(left, l) \/ ~HasColumn(right, r) THEN "data"
  ELSE LET a == Column(left, l)
           b == Column(right, r)
       IN IF a.type # b.type \/ (a.type = "array" /\ a.dtype # b.dtype) THEN "type" ELSE "ok"

JoinStatus(left, right, leftKeys, rightKeys) ==
  IF leftKeys = <<>> THEN "argument"
  ELSE FirstStatus(<<TableStatus(left), TableStatus(right)>>
         \o [i \in DOMAIN leftKeys |-> JoinKeyStatus(left, right, leftKeys[i], rightKeys[i])])

Join(left, right, leftKeys, rightKeys, kind, limits) ==
  LET status == JoinStatus(left, right, leftKeys, rightKeys) IN
  IF status # "ok" THEN Failed(status)
  ELSE LET matches == Matches(left, Indices(left, leftKeys), right, Indices(right, rightKeys)) IN
       LimitedJoin(left, right, Pairs(left, right, matches, kind), limits)
=============================================================================
