-------------------------------- MODULE Numbers --------------------------------
(***************************************************************************)
(* Element types, their numbers, and the statistics of finite cells that   *)
(* tables and arrays both compute.  A number is an integer whatever its    *)
(* type: widths are kept as ranges, small ones here, and a float is an     *)
(* integer up to MaxFinite or one of the values named below, which are not *)
(* ordered and equal like the others.  What is divided, or a root, is      *)
(* rounded down, and the incremental variance is its exact value.          *)
(***************************************************************************)
EXTENDS Integers, SequencesExt

CONSTANTS
  Largest,        \* width in bits -> the greatest signed integer of that width
  MaxSingle,      \* the greatest finite float32
  MaxFinite       \* the greatest finite float64

ASSUME RangesAreOrdered ==
  /\ DOMAIN Largest = {8, 16, 32, 64}
  /\ 0 < Largest[8] /\ Largest[8] < Largest[16]
  /\ Largest[16] < Largest[32] /\ Largest[32] < Largest[64]
  /\ 2 * Largest[64] < MaxFinite /\ 0 < MaxSingle /\ MaxSingle < MaxFinite

SignedTypes == {"int8", "int16", "int32", "int64"}
UnsignedTypes == {"uint8", "uint16", "uint32", "uint64"}
IntegerTypes == SignedTypes \cup UnsignedTypes
FloatTypes == {"float32", "float64"}
RealTypes == {"bool"} \cup IntegerTypes \cup FloatTypes
ComplexTypes == {"complex64", "complex128"}

Bits(dtype) ==
  CASE dtype \in {"int8", "uint8", "bool"} -> 8
    [] dtype \in {"int16", "uint16"}       -> 16
    [] dtype \in {"int32", "uint32", "float32"} -> 32
    [] dtype = "complex128"                -> 128
    [] OTHER                               -> 64

-----------------------------------------------------------------------------
NaN == MaxFinite + 1
OtherNaN == MaxFinite + 2        \* another payload
Infinity == MaxFinite + 3
NegativeZero == MaxFinite + 4

IsNaN(x) == x \in {NaN, OtherNaN}
Plain(x) == IF x = NegativeZero THEN 0 ELSE x
Finite(x) == Plain(x) \in -MaxFinite..MaxFinite

InRange(dtype, x) ==
  CASE dtype = "bool"           -> x \in 0..1
    [] dtype \in SignedTypes    -> x \in (-Largest[Bits(dtype)] - 1)..Largest[Bits(dtype)]
    [] dtype \in UnsignedTypes  -> x \in 0..(2 * Largest[Bits(dtype)] + 1)
    [] dtype = "float32"        -> Finite(x) => Plain(x) \in -MaxSingle..MaxSingle
    [] OTHER                    -> TRUE

-----------------------------------------------------------------------------
\* Statuses: "ok", or the error an operation ends with.

\* The first check that fails decides.
FirstStatus(statuses) ==
  LET at == SelectInSeq(statuses, LAMBDA s : s # "ok") IN IF at = 0 THEN "ok" ELSE statuses[at]

Must(condition, status) == IF condition THEN "ok" ELSE status

\* The sums of the first terms, from a start on.
Totals(start, terms) ==
  LET T[n \in 0..Len(terms)] == IF n = 0 THEN start ELSE T[n - 1] + terms[n] IN T

TotalOf(start, terms) == Totals(start, terms)[Len(terms)]

-----------------------------------------------------------------------------
\* A double beyond the finite ones.
Saturated(x) == IF x > MaxFinite THEN Infinity ELSE IF x < -MaxFinite THEN -Infinity ELSE x

Sum(cells) == FoldLeft(+, 0, cells)

Root(n) == Max({k \in 0..n : k * k =< n})

RunningSquares(cells) ==
  LET n == Len(cells) IN
  (n * FoldLeft(LAMBDA q, x : q + x * x, 0, cells) - Sum(cells) * Sum(cells)) \div n

SquaresAbout(cells) == RunningSquares(cells) \div Len(cells)

\* The running sum of squares of a table may leave the doubles, an array's not.
Variance(cells) == IF RunningSquares(cells) > MaxFinite THEN Infinity ELSE SquaresAbout(cells)
Deviation(cells) == IF Finite(Variance(cells)) THEN Root(Variance(cells)) ELSE Variance(cells)

\* A percentile lies between two neighbours of the sorted cells, so many
\* hundredths of the way.
Position(cells, percent) ==
  LET position == percent * (Len(cells) - 1)
      lower == (position \div 100) + 1
  IN [lower |-> lower, upper |-> IF lower < Len(cells) THEN lower + 1 ELSE lower,
      hundredths |-> position % 100]

Between(a, b, hundredths) == a + ((hundredths * (b - a)) \div 100)
=================================================================================
