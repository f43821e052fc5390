------------------------------ MODULE ArrayNumbers ------------------------------
(***************************************************************************)
(* Numbers in arrays: conversion, arithmetic with broadcasting, and what   *)
(* reduces an axis.  Complex numbers are stored and never computed with.   *)
(*                                                                         *)
(* An element is computed as [status, cell]; the first that cannot be      *)
(* decides, and then no output is made.                                    *)
(***************************************************************************)
EXTENDS Arrays

IsInfinite(x) == x \in {Infinity, -Infinity}
MagnitudeOf(x) == IF x < 0 THEN -x ELSE x

Cell(x) == [status |-> "ok", cell |-> x]
NoCell(status) == [status |-> status, cell |-> 0]

\* The finite numbers of a type; a float beyond them is out of its range.
Representable(dtype, x) ==
  CASE dtype = "float32" -> MagnitudeOf(x) =< MaxSingle
    [] dtype = "float64" -> MagnitudeOf(x) =< MaxFinite
    [] OTHER             -> InRange(dtype, x)

\* Storing a number in a type: a finite one must be one of the type's.
Stored(dtype, x) ==
  CASE dtype = "bool" -> Cell(IF Plain(x) = 0 THEN 0 ELSE 1)
    [] dtype \in IntegerTypes /\ ~Finite(x) -> NoCell("type")
    [] Finite(x) /\ ~Representable(dtype, Plain(x)) -> NoCell("overflow")
    [] OTHER -> Cell(IF dtype \in IntegerTypes THEN Plain(x) ELSE x)

AllReal(types) == Must(types \subseteq RealTypes, "unsupported")

\* An output whose elements are computed one after the other.
CommitComputed(heap, out, dtype, shape, results) ==
  When(heap, <<AllocateStatus(shape)>> \o [k \in DOMAIN results |-> results[k].status],
       CommitOwned(heap, out, dtype, shape, [k \in DOMAIN results |-> results[k].cell]))

ArrayCast(heap, out, source, dtype) ==
  Checked(heap, out, <<source>>, LAMBDA s :
    LET elements == Elements(heap.storages, s) IN
    When(heap, <<AllReal({s.dtype, dtype})>>,
         CommitComputed(heap, out, dtype, s.shape, [k \in DOMAIN elements |-> Stored(dtype, elements[k])])))

-----------------------------------------------------------------------------
(* The type of a result: a boolean counts as an unsigned byte.              *)

SignedOf(bits) == CASE bits = 8 -> "int8" [] bits = 16 -> "int16" [] bits = 32 -> "int32" [] OTHER -> "int64"
IsSigned(dtype) == dtype \in SignedTypes
Wider(a, b) == IF Bits(a) >= Bits(b) THEN a ELSE b
AsByte(dtype) == IF dtype = "bool" THEN "uint8" ELSE dtype

\* A signed type holds an unsigned one that is narrower; no integer type
\* holds all signed and all 64-bit unsigned numbers.
PromoteMixed(signed, unsigned) ==
  IF Bits(signed) > Bits(unsigned) THEN signed
  ELSE IF Bits(unsigned) < 64 THEN SignedOf(2 * Bits(unsigned)) ELSE "float64"

PromoteFloat(a, b) ==
  IF "float64" \in {a, b} \/ \E t \in {a, b} : t \notin FloatTypes /\ Bits(t) > 16
    THEN "float64" ELSE "float32"

Promote(left, right) ==
  LET a == AsByte(left)
      b == AsByte(right)
  IN CASE {a, b} \cap FloatTypes # {}  -> PromoteFloat(a, b)
       [] IsSigned(a) = IsSigned(b)    -> Wider(a, b)
       [] IsSigned(a)                  -> PromoteMixed(a, b)
       [] OTHER                        -> PromoteMixed(b, a)

-----------------------------------------------------------------------------
(* Arithmetic.  Floats stand for their small integers, so what is divided   *)
(* is rounded down; nothing depends on the sign of a zero that is computed.  *)

Infinite(negative) == IF negative THEN -Infinity ELSE Infinity

FloatAdd(x, y) ==
  CASE IsNaN(x) \/ IsNaN(y)                    -> NaN
    [] IsInfinite(x) /\ IsInfinite(y) /\ x # y -> NaN
    [] IsInfinite(x)                           -> x
    [] IsInfinite(y)                           -> y
    [] OTHER                                   -> Plain(x) + Plain(y)

Negated(x) == IF Finite(x) \/ IsInfinite(x) THEN -Plain(x) ELSE x

FloatTimes(x, y) ==
  CASE IsNaN(x) \/ IsNaN(y) -> NaN
    [] IsInfinite(x) \/ IsInfinite(y) ->
         IF 0 \in {Plain(x), Plain(y)} THEN NaN ELSE Infinite((Plain(x) < 0) # (Plain(y) < 0))
    [] OTHER -> Plain(x) * Plain(y)

RoundedQuotient(x, y) == IF y < 0 THEN (-x) \div (-y) ELSE x \div y

FloatDivide(x, y) ==
  CASE IsNaN(x) \/ IsNaN(y)             -> NaN
    [] IsInfinite(x) /\ IsInfinite(y)   -> NaN
    [] IsInfinite(x)                    -> Infinite((x < 0) # (Plain(y) < 0))
    [] IsInfinite(y)                    -> 0
    [] OTHER                            -> RoundedQuotient(Plain(x), Plain(y))

FloatResult(operation, x, y) ==
  CASE operation = "add"      -> FloatAdd(x, y)
    [] operation = "subtract" -> FloatAdd(x, Negated(y))
    [] operation = "multiply" -> FloatTimes(x, y)
    [] operation = "divide"   -> FloatDivide(x, y)

\* Only finite operands overflow.
CalculateFloat(dtype, operation, x, y) ==
  IF operation = "divide" /\ Plain(y) = 0 THEN NoCell("argument")
  ELSE IF /\ Finite(x) /\ Finite(y)
          /\ ~Representable(dtype, FloatResult(operation, x, y)) THEN NoCell("overflow")
  ELSE Cell(FloatResult(operation, x, y))

IntegerResult(operation, x, y) ==
  CASE operation = "add" -> x + y [] operation = "subtract" -> x - y [] OTHER -> x * y

Accumulator(dtype) ==
  CASE dtype \in FloatTypes -> "float64" [] IsSigned(dtype) -> "int64" [] OTHER -> "uint64"

\* Computed in 64 bits and then stored in the result's type.
CalculateInteger(dtype, operation, x, y) ==
  IF \A n \in {x, y, IntegerResult(operation, x, y)} : InRange(Accumulator(dtype), n)
    THEN Stored(dtype, IntegerResult(operation, x, y))
    ELSE NoCell("overflow")

Calculate(dtype, operation, x, y) ==
  IF dtype \in FloatTypes THEN CalculateFloat(dtype, operation, x, y)
  ELSE CalculateInteger(dtype, operation, x, y)

\* Nothing compares with a NaN.
Answer(operation, x, y) ==
  LET answer == /\ ~IsNaN(x) /\ ~IsNaN(y)
                /\ CASE operation = "equal" -> Plain(x) = Plain(y)
                     [] operation = "less"  -> Plain(x) < Plain(y)
                     [] OTHER               -> Plain(x) > Plain(y)
  IN Cell(IF answer THEN 1 ELSE 0)

Comparisons == {"equal", "less", "greater"}

\* Axes are matched from the last; a missing one has one element.
Dimension(shape, axis, ndim) ==
  IF axis =< ndim - Len(shape) THEN 1 ELSE shape[axis - (ndim - Len(shape))]

BroadcastShape(a, b) ==
  LET ndim == IF Len(a) > Len(b) THEN Len(a) ELSE Len(b) IN
  [axis \in 1..ndim |-> IF Dimension(a, axis, ndim) = 1 THEN Dimension(b, axis, ndim)
                        ELSE Dimension(a, axis, ndim)]

ShapesBroadcast(a, b) ==
  LET shape == BroadcastShape(a, b) IN
  \A axis \in DOMAIN shape : Dimension(b, axis, Len(shape)) \in {1, shape[axis]}

\* The element of an operand at a place of the result.
OperandAt(storages, d, shape, index) ==
  storages[d.storage].cells[1 + OffsetAt(d, [axis \in DOMAIN d.shape |->
    IF d.shape[axis] = 1 THEN 0
    ELSE Coordinate(shape, index, axis + Len(shape) - Len(d.shape))])]

BinaryCells(storages, l, r, dtype, operation, shape) ==
  [k \in 1..Product(shape) |->
     LET x == OperandAt(storages, l, shape, k - 1)
         y == OperandAt(storages, r, shape, k - 1)
     IN IF operation \in Comparisons THEN Answer(operation, x, y)
        ELSE Calculate(dtype, operation, x, y)]

ResultType(operation, left, right) ==
  IF operation = "divide" /\ Promote(left, right) \notin FloatTypes THEN "float64"
  ELSE Promote(left, right)

BinaryOperation(heap, out, left, right, operation) ==
  Checked(heap, out, <<left, right>>, LAMBDA l :
    LET r == heap.arrays[right]
        dtype == ResultType(operation, l.dtype, r.dtype)
        shape == BroadcastShape(l.shape, r.shape)
    IN When(heap, <<AllReal({l.dtype, r.dtype}), Must(ShapesBroadcast(l.shape, r.shape), "argument"),
                    AllocateStatus(shape)>>,
            CommitComputed(heap, out, IF operation \in Comparisons THEN "bool" ELSE dtype, shape,
                           BinaryCells(heap.storages, l, r, dtype, operation, shape))))

\* Every element against a number.  The source is looked at before the output.
GreaterF64(heap, out, source, threshold) ==
  LET s == heap.arrays[source]
      elements == Elements(heap.storages, s)
  IN When(heap, <<ValidateArray(heap.storages, s),
                  Must(s.dtype \notin ComplexTypes, "unsupported"), Must(s.dtype = "float64", "type"),
                  PrepareOutput(heap, out, <<source>>), AllocateStatus(s.shape)>>,
          CommitComputed(heap, out, "bool", s.shape,
            [k \in DOMAIN elements |-> Answer("greater", elements[k], threshold)]))

UnaryPredicate(heap, out, source, Holds(_)) ==
  Checked(heap, out, <<source>>, LAMBDA s :
    LET elements == Elements(heap.storages, s) IN
    When(heap, <<AllReal({s.dtype}), AllocateStatus(s.shape)>>,
         CommitOwned(heap, out, "bool", s.shape,
           [k \in DOMAIN elements |-> IF Holds(elements[k]) THEN 1 ELSE 0])))

-----------------------------------------------------------------------------
(* Reductions.  An axis is numbered from 0 as its caller does: -1 is all    *)
(* elements, and -2, -3 count from the end as if -1 were the last axis.     *)

Everything == -1

NormalAxis(ndim, axis) ==
  IF axis >= Everything THEN axis ELSE ndim + axis

AxisStatus(ndim, axis) ==
  Must(axis = Everything \/ NormalAxis(ndim, axis) \in 0..(ndim - 1), "argument")

ReductionShape(shape, axis, keepdims) ==
  IF axis = Everything THEN (IF keepdims THEN [k \in DOMAIN shape |-> 1] ELSE <<>>)
  ELSE IF keepdims THEN [shape EXCEPT ![axis + 1] = 1]
  ELSE RemoveAt(shape, axis + 1)

ReductionCount(s, axis) == IF axis = Everything THEN Size(s) ELSE s.shape[axis + 1]

\* The elements that make one element of the result.
Segment(storages, s, axis, keepdims, index) ==
  LET shape == ReductionShape(s.shape, axis, keepdims)
      \* the axis of the result that is an axis of the source
      OutputAxis(k) == IF keepdims \/ k =< axis THEN k ELSE k - 1
      At(k, n) == IF k = axis + 1 THEN n ELSE Coordinate(shape, index, OutputAxis(k))
  IN IF axis = Everything THEN Elements(storages, s)
     ELSE [n \in 1..s.shape[axis + 1] |->
             storages[s.storage].cells[1 + OffsetAt(s, [k \in DOMAIN s.shape |-> At(k, n - 1)])]]

\* A statistic has no value without elements; a sum and a product have.
Reduce(heap, out, source, axis, keepdims, dtype, statuses, ofNothing, Result(_)) ==
  LET s == heap.arrays[source]
      normal == NormalAxis(Len(s.shape), axis)
  IN When(heap, <<InputsStatus(heap, out, <<source>>), AllReal({s.dtype})>>
                  \o statuses \o <<AxisStatus(Len(s.shape), axis)>>,
          When(heap, <<Must(ofNothing \/ ReductionCount(s, normal) # 0, "argument"),
                       AllocateStatus(ReductionShape(s.shape, normal, keepdims))>>,
               CommitComputed(heap, out, dtype, ReductionShape(s.shape, normal, keepdims),
                 [k \in 1..Product(ReductionShape(s.shape, normal, keepdims)) |->
                    Result(Segment(heap.storages, s, normal, keepdims, k - 1))])))

-----------------------------------------------------------------------------
(* What a segment of elements is reduced to.                                *)

NonFinite(xs) == SelectSeq(xs, LAMBDA x : ~Finite(x))
PlainCells(xs) == [k \in DOMAIN xs |-> Plain(xs[k])]

\* Every step must fit 64 bits.
AccumulatedInteger(dtype, xs, start, Step(_, _)) ==
  FoldLeft(LAMBDA r, x : IF r.status = "ok" /\ InRange(dtype, Step(r.cell, x)) THEN Cell(Step(r.cell, x))
                         ELSE NoCell("overflow"),
           Cell(start), xs)

\* Only the end must be a double's, and only when all elements are finite.
AccumulatedFloat(exact, xs, nonfinite) ==
  IF NonFinite(xs) # <<>> THEN Cell(nonfinite)
  ELSE IF Representable("float64", exact) THEN Cell(exact) ELSE NoCell("overflow")

SumOf(dtype, xs) ==
  IF dtype = "float64"
    THEN AccumulatedFloat(Sum(PlainCells(xs)), xs, FoldLeft(FloatAdd, 0, NonFinite(xs)))
    ELSE AccumulatedInteger(dtype, xs, 0, +)

\* Beside an infinity only the signs of the others matter.
SignOf(x) == IF ~Finite(x) THEN x ELSE IF Plain(x) < 0 THEN -1 ELSE IF Plain(x) > 0 THEN 1 ELSE 0

ProductOf(dtype, xs) ==
  IF dtype = "float64"
    THEN AccumulatedFloat(Product(PlainCells(xs)), xs,
           FoldLeft(LAMBDA p, x : FloatTimes(p, SignOf(x)), 1, xs))
    ELSE AccumulatedInteger(dtype, xs, 1, *)

MeanOf(xs) ==
  Cell(IF NonFinite(xs) # <<>> THEN FoldLeft(FloatAdd, 0, NonFinite(xs))
       ELSE Sum(PlainCells(xs)) \div Len(xs))

\* The first of the least, or of the greatest; a NaN is more than all.
ExtremeOf(xs, Before(_, _)) ==
  Cell(IF \E k \in DOMAIN xs : IsNaN(xs[k]) THEN NaN
       ELSE FoldLeft(LAMBDA best, x : IF Before(Plain(x), Plain(best)) THEN x ELSE best, xs[1], xs))

VarianceOf(xs, deviation) ==
  LET variance == SquaresAbout(PlainCells(xs)) IN
  IF NonFinite(xs) # <<>> THEN Cell(NaN)
  ELSE IF deviation THEN Cell(Root(variance))
  ELSE IF variance > MaxFinite THEN NoCell("overflow") ELSE Cell(variance)

\* An infinity that is approached is reached; between two there is nothing.
Interpolated(a, b, hundredths) ==
  IF hundredths = 0 \/ a = b THEN a
  ELSE IF IsInfinite(a) /\ IsInfinite(b) THEN NaN
  ELSE IF IsInfinite(a) THEN a
  ELSE IF IsInfinite(b) THEN b
  ELSE Between(a, b, hundredths)

PercentileOf(xs, percent) ==
  LET sorted == SortSeq(PlainCells(xs), <)
      position == Position(sorted, percent)
  IN Cell(IF \E k \in DOMAIN xs : IsNaN(xs[k]) THEN NaN
          ELSE Interpolated(sorted[position.lower], sorted[position.upper], position.hundredths))

-----------------------------------------------------------------------------
Additive(heap, out, source, axis, keepdims, Result(_, _)) ==
  LET dtype == Accumulator(heap.arrays[source].dtype) IN
  Reduce(heap, out, source, axis, keepdims, dtype, <<>>, TRUE, LAMBDA xs : Result(dtype, xs))

ArraySum(heap, out, source, axis, keepdims) == Additive(heap, out, source, axis, keepdims, SumOf)
ArrayProduct(heap, out, source, axis, keepdims) == Additive(heap, out, source, axis, keepdims, ProductOf)

StatisticOf(xs, statistic) ==
  CASE statistic = "mean"     -> MeanOf(xs)
    [] statistic = "min"      -> ExtremeOf(xs, <)
    [] statistic = "max"      -> ExtremeOf(xs, >)
    [] statistic = "variance" -> VarianceOf(xs, FALSE)
    [] OTHER                  -> VarianceOf(xs, TRUE)

ArrayStatistic(heap, out, source, axis, keepdims, statistic) ==
  Reduce(heap, out, source, axis, keepdims, "float64", <<>>, FALSE,
         LAMBDA xs : StatisticOf(xs, statistic))

\* The median is the fiftieth.
ArrayPercentile(heap, out, source, axis, keepdims, percent) ==
  Reduce(heap, out, source, axis, keepdims, "float64", <<Must(percent \in 0..100, "argument")>>,
         FALSE, LAMBDA xs : PercentileOf(xs, percent))

\* The place, from 0, of the first least or greatest element.
PlaceOf(xs, Before(_, _)) ==
  FoldLeft(LAMBDA best, k : IF Before(Plain(xs[k]), Plain(xs[best])) THEN k ELSE best,
           1, [k \in DOMAIN xs |-> k]) - 1

ArgExtreme(heap, out, source, Before(_, _)) ==
  Checked(heap, out, <<source>>, LAMBDA s :
    LET elements == Elements(heap.storages, s) IN
    When(heap, <<AllReal({s.dtype}), Must(elements # <<>>, "argument"),
                 Must(\A k \in DOMAIN elements : ~IsNaN(elements[k]), "argument")>>,
         CommitOwned(heap, out, "int64", <<>>, <<PlaceOf(elements, Before)>>)))
=================================================================================
