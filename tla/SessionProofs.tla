---------------------------- MODULE SessionProofs ----------------------------
(***************************************************************************)
(* Proofs about sessions, for every session: whatever is called in         *)
(* whatever order, the arrays stay sound, a call changes its destination   *)
(* only, and what is compiled can be run.                                  *)
(*                                                                         *)
(* They go from shapes to descriptors, from descriptors to the heap, from  *)
(* the heap to what each operation on arrays leaves, and from there to the *)
(* session.                                                                *)
(***************************************************************************)
EXTENDS SessionPromises, FiniteSetTheorems, LeastElements

-----------------------------------------------------------------------------
(* Statuses *)

\* The first of some statuses is ok when all are.
LEMMA FirstStatusOk ==
    ASSUME NEW statuses, Len(statuses) \in Nat, FirstStatus(statuses) = "ok"
    PROVE  \A i \in 1..Len(statuses) : statuses[i] = "ok"
<1> DEFINE Bad == {i \in 1..Len(statuses) : statuses[i] # "ok"}
<1>1. SUFFICES ASSUME Bad # {} PROVE FALSE
  OBVIOUS
<1>2. PICK x \in Bad : \A y \in Bad : x <= y
  <2>1. Bad \subseteq Nat
    OBVIOUS
  <2> HIDE DEF Bad
  <2> QED
    BY <1>1, <2>1, LeastElement
<1>3. Min(Bad) \in Bad
  <2> HIDE DEF Bad
  <2> QED
    BY <1>2 DEF Min
<1>4. SelectInSeq(statuses, LAMBDA s : s # "ok") = Min(Bad)
  BY <1>1 DEF SelectInSeq
<1>5. Min(Bad) # 0 /\ statuses[Min(Bad)] # "ok"
  BY <1>3
<1>6. FirstStatus(statuses) = statuses[Min(Bad)]
  <2> HIDE DEF Bad
  <2> QED
    BY <1>4, <1>5 DEF FirstStatus
<1> QED
  BY <1>5, <1>6

-----------------------------------------------------------------------------
(* Recurrences: a value that every next number changes is a function of the *)
(* numbers.  step[n] is what the n-th does to a value.                      *)

\* What holds at first and is kept by every next number holds up to the last.
LEMMA UptoTheLast ==
    ASSUME NEW N \in Nat, NEW good, 0 \in good, \A n \in 1..N : n - 1 \in good => n \in good
    PROVE  \A n \in 0..N : n \in good
<1> DEFINE Bad == {k \in 0..N : k \notin good}
<1>1. SUFFICES ASSUME Bad # {} PROVE FALSE
  OBVIOUS
<1>2. PICK k \in Bad : \A y \in Bad : k <= y
  <2>1. Bad \subseteq Nat
    OBVIOUS
  <2> HIDE DEF Bad
  <2> QED
    BY <1>1, <2>1, LeastElement
<1>3. k \in 1..N /\ k - 1 \notin Bad
  BY <1>2
<1> QED
  BY <1>3

\* A value at first, and what every number does to it.
AreSteps(N, S, base, step) == N \in Nat /\ base \in S /\ step \in [1..N -> [S -> S]]

\* A function solves them up to a number.
Solves(k, S, base, step, f) ==
  f \in [0..k -> S] /\ f[0] = base /\ \A n \in 1..k : f[n] = step[n][f[n - 1]]

\* A value for one more number.
LEMMA RecurrenceExtends ==
    ASSUME NEW N, NEW S, NEW base, NEW step, AreSteps(N, S, base, step),
           NEW k \in 1..N, NEW f, Solves(k - 1, S, base, step, f)
    PROVE  \E g : Solves(k, S, base, step, g)
<1> N \in Nat /\ base \in S /\ step \in [1..N -> [S -> S]]
  BY DEF AreSteps
<1> f \in [0..(k - 1) -> S] /\ f[0] = base /\ \A n \in 1..(k - 1) : f[n] = step[n][f[n - 1]]
  BY DEF Solves
<1> DEFINE g == [n \in 0..k |-> IF n = k THEN step[k][f[k - 1]] ELSE f[n]]
<1>1. k - 1 \in 0..(k - 1)
  OBVIOUS
<1>2. step[k] \in [S -> S]
  OBVIOUS
<1>3. f[k - 1] \in S
  BY <1>1
<1>4. step[k][f[k - 1]] \in S
  BY <1>2, <1>3
<1>5. ASSUME NEW n \in 0..k PROVE g[n] \in S
  <2>1. CASE n = k
    BY <1>4, <2>1
  <2>2. CASE n # k
    <3>1. n \in 0..(k - 1)
      BY <2>2
    <3> QED
      BY <2>2, <3>1
  <2> QED
    BY <2>1, <2>2
<1>6. g \in [0..k -> S]
  BY <1>5
<1>7. g[0] = base
  OBVIOUS
<1>8. ASSUME NEW n \in 1..k PROVE g[n] = step[n][g[n - 1]]
  <2>1. n - 1 \in 0..k /\ n - 1 # k /\ n \in 0..k
    OBVIOUS
  <2>2. g[n - 1] = f[n - 1]
    BY <2>1
  <2>3. CASE n = k
    BY <2>1, <2>2, <2>3
  <2>4. CASE n # k
    <3>1. n \in 1..(k - 1) /\ g[n] = f[n]
      BY <2>1, <2>4
    <3> QED
      BY <2>2, <3>1
  <2> QED
    BY <2>3, <2>4
<1> HIDE DEF g
<1> QED
  BY <1>6, <1>7, <1>8 DEF Solves

\* Every recurrence has a solution.
LEMMA RecurrenceExists ==
    ASSUME NEW N, NEW S, NEW base, NEW step, AreSteps(N, S, base, step)
    PROVE  \E f : Solves(N, S, base, step, f)
<1> DEFINE good == {k \in 0..N : \E f : Solves(k, S, base, step, f)}
<1>1. N \in Nat /\ base \in S
  BY DEF AreSteps
<1>2. 0 \in good
  <2> DEFINE f == [n \in {0} |-> base]
  <2>1. 0..0 = {0} /\ 1..0 = {}
    OBVIOUS
  <2>2. Solves(0, S, base, step, f)
    BY <1>1, <2>1 DEF Solves
  <2> QED
    BY <1>1, <2>2
<1>3. ASSUME NEW k \in 1..N, k - 1 \in good PROVE k \in good
  <2>1. PICK f : Solves(k - 1, S, base, step, f)
    BY <1>3
  <2>2. \E g : Solves(k, S, base, step, g)
    BY ONLY AreSteps(N, S, base, step), k \in 1..N, <2>1, RecurrenceExtends, Zenon
  <2> QED
    BY <1>1, <2>2
<1>4. \A n \in 0..N : n \in good
  <2> HIDE DEF good
  <2> QED
    BY <1>1, <1>2, <1>3, UptoTheLast
<1> QED
  BY <1>1, <1>4

-----------------------------------------------------------------------------
(* Shapes and strides *)

\* The products of the first dimensions are defined for every shape.
LEMMA ProductsDefined ==
    ASSUME NEW dims \in Seq(Int)
    PROVE  /\ Products(dims) \in [0..Len(dims) -> Int]
           /\ Products(dims)[0] = 1
           /\ \A n \in 1..Len(dims) : Products(dims)[n] = Products(dims)[n - 1] * dims[n]
<1> DEFINE N == Len(dims)
           step == [n \in 1..N |-> [x \in Int |-> x * dims[n]]]
<1>1. N \in Nat /\ \A n \in 1..N : dims[n] \in Int
  OBVIOUS
<1>2. step \in [1..N -> [Int -> Int]]
  BY <1>1
<1>3. \A n \in 1..N : \A x \in Int : step[n][x] = x * dims[n]
  OBVIOUS
<1> HIDE DEF step, N
<1>4. PICK f : f \in [0..N -> Int] /\ f[0] = 1 /\ \A n \in 1..N : f[n] = step[n][f[n - 1]]
  <2>1. AreSteps(N, Int, 1, step)
    BY <1>1, <1>2 DEF AreSteps
  <2>2. \E f : Solves(N, Int, 1, step, f)
    BY ONLY <2>1, RecurrenceExists, Zenon
  <2> QED
    BY <2>2 DEF Solves
<1>5. ASSUME NEW n \in 1..N PROVE f[n] = f[n - 1] * dims[n]
  <2>1. n - 1 \in 0..N
    BY <1>1
  <2>2. f[n - 1] \in Int
    BY <1>4, <2>1
  <2> QED
    BY <1>3, <1>4, <2>2
<1>6. \A n \in 0..N : f[n] = IF n = 0 THEN 1 ELSE f[n - 1] * dims[n]
  <2> TAKE n \in 0..N
  <2>1. n = 0 \/ n \in 1..N
    BY <1>1
  <2> QED
    BY <1>1, <1>4, <1>5, <2>1
<1> DEFINE IsIt(P) == P = [n \in 0..N |-> IF n = 0 THEN 1 ELSE P[n - 1] * dims[n]]
<1>7. IsIt(f)
  BY <1>4, <1>6
<1>8. Products(dims) = CHOOSE P : IsIt(P)
  BY DEF Products, N
<1>9. IsIt(Products(dims))
  <2> HIDE DEF IsIt
  <2> QED
    BY <1>7, <1>8
<1> DEFINE P == Products(dims)
<1>10. P[0] = 1 /\ \A n \in 1..N : P[n] = P[n - 1] * dims[n]
  <2>1. \A n \in 0..N : P[n] = IF n = 0 THEN 1 ELSE P[n - 1] * dims[n]
    <3> HIDE DEF P
    <3>1. P = [n \in 0..N |-> IF n = 0 THEN 1 ELSE P[n - 1] * dims[n]]
      BY <1>9 DEF P
    <3> QED
      BY <3>1
  <2>2. 0 \in 0..N /\ \A n \in 1..N : n \in 0..N /\ n # 0
    BY <1>1
  <2> HIDE DEF P
  <2> QED
    BY <2>1, <2>2
<1> DEFINE good == {n \in 0..N : P[n] \in Int}
<1>11. \A n \in 0..N : n \in good
  <2>1. 0 \in good
    BY <1>1, <1>10
  <2>2. ASSUME NEW n \in 1..N, n - 1 \in good PROVE n \in good
    <3> HIDE DEF P
    <3>1. P[n] = P[n - 1] * dims[n] /\ P[n - 1] \in Int /\ dims[n] \in Int
      BY <1>1, <1>10, <2>2
    <3> QED
      BY <1>1, <3>1
  <2> HIDE DEF good
  <2> QED
    BY <1>1, <2>1, <2>2, UptoTheLast
<1>12. P = [n \in 0..N |-> P[n]]
  BY <1>9
<1>13. P \in [0..N -> Int]
  <2> HIDE DEF P
  <2> QED
    BY <1>11, <1>12
<1> QED
  BY <1>10, <1>13 DEF N

\* The sums of the first terms are defined too.
LEMMA TotalsDefined ==
    ASSUME NEW start \in Int, NEW terms \in Seq(Int)
    PROVE  /\ Totals(start, terms) \in [0..Len(terms) -> Int]
           /\ Totals(start, terms)[0] = start
           /\ \A n \in 1..Len(terms) : Totals(start, terms)[n] = Totals(start, terms)[n - 1] + terms[n]
<1> DEFINE N == Len(terms)
           step == [n \in 1..N |-> [x \in Int |-> x + terms[n]]]
<1>1. N \in Nat /\ \A n \in 1..N : terms[n] \in Int
  OBVIOUS
<1>2. step \in [1..N -> [Int -> Int]]
  BY <1>1
<1>3. \A n \in 1..N : \A x \in Int : step[n][x] = x + terms[n]
  OBVIOUS
<1> HIDE DEF step, N
<1>4. PICK f : f \in [0..N -> Int] /\ f[0] = start /\ \A n \in 1..N : f[n] = step[n][f[n - 1]]
  <2>1. AreSteps(N, Int, start, step)
    BY <1>1, <1>2 DEF AreSteps
  <2>2. \E f : Solves(N, Int, start, step, f)
    BY ONLY <2>1, RecurrenceExists, Zenon
  <2> QED
    BY <2>2 DEF Solves
<1>5. ASSUME NEW n \in 1..N PROVE f[n] = f[n - 1] + terms[n]
  <2>1. n - 1 \in 0..N
    BY <1>1
  <2>2. f[n - 1] \in Int
    BY <1>4, <2>1
  <2> QED
    BY <1>3, <1>4, <2>2
<1>6. \A n \in 0..N : f[n] = IF n = 0 THEN start ELSE f[n - 1] + terms[n]
  <2> TAKE n \in 0..N
  <2>1. n = 0 \/ n \in 1..N
    BY <1>1
  <2> QED
    BY <1>1, <1>4, <1>5, <2>1
<1> DEFINE IsIt(T) == T = [n \in 0..N |-> IF n = 0 THEN start ELSE T[n - 1] + terms[n]]
<1>7. IsIt(f)
  BY <1>4, <1>6
<1>8. Totals(start, terms) = CHOOSE T : IsIt(T)
  BY DEF Totals, N
<1>9. IsIt(Totals(start, terms))
  <2> HIDE DEF IsIt
  <2> QED
    BY <1>7, <1>8
<1> DEFINE T == Totals(start, terms)
<1>10. T[0] = start /\ \A n \in 1..N : T[n] = T[n - 1] + terms[n]
  <2>1. \A n \in 0..N : T[n] = IF n = 0 THEN start ELSE T[n - 1] + terms[n]
    <3> HIDE DEF T
    <3>1. T = [n \in 0..N |-> IF n = 0 THEN start ELSE T[n - 1] + terms[n]]
      BY <1>9 DEF T
    <3> QED
      BY <3>1
  <2>2. 0 \in 0..N /\ \A n \in 1..N : n \in 0..N /\ n # 0
    BY <1>1
  <2> HIDE DEF T
  <2> QED
    BY <2>1, <2>2
<1> DEFINE good == {n \in 0..N : T[n] \in Int}
<1>11. \A n \in 0..N : n \in good
  <2>1. 0 \in good
    BY <1>1, <1>10
  <2>2. ASSUME NEW n \in 1..N, n - 1 \in good PROVE n \in good
    <3> HIDE DEF T
    <3>1. T[n] = T[n - 1] + terms[n] /\ T[n - 1] \in Int /\ terms[n] \in Int
      BY <1>1, <1>10, <2>2
    <3> QED
      BY <1>1, <3>1
  <2> HIDE DEF good
  <2> QED
    BY <1>1, <2>1, <2>2, UptoTheLast
<1>12. T = [n \in 0..N |-> T[n]]
  BY <1>9
<1>13. T \in [0..N -> Int]
  <2> HIDE DEF T
  <2> QED
    BY <1>11, <1>12
<1> QED
  BY <1>10, <1>13 DEF N

\* The last product, and that of natural dimensions.
LEMMA ProductType ==
    ASSUME NEW dims \in Seq(Nat)
    PROVE  /\ \A n \in 0..Len(dims) : Products(dims)[n] \in Nat
           /\ Product(dims) \in Nat
<1> DEFINE P == Products(dims)
           N == Len(dims)
           good == {n \in 0..N : P[n] \in Nat}
<1>1. N \in Nat /\ dims \in Seq(Int) /\ \A n \in 1..N : dims[n] \in Nat
  OBVIOUS
<1>2. P \in [0..N -> Int] /\ P[0] = 1 /\ \A n \in 1..N : P[n] = P[n - 1] * dims[n]
  BY <1>1, ProductsDefined
<1>3. Product(dims) = P[N]
  BY DEF Product
<1> HIDE DEF P, N
<1>4. 0 \in good
  BY <1>1, <1>2
<1>5. ASSUME NEW n \in 1..N, n - 1 \in good PROVE n \in good
  <2>1. P[n] = P[n - 1] * dims[n] /\ P[n - 1] \in Nat /\ dims[n] \in Nat
    BY <1>1, <1>2, <1>5
  <2>2. P[n] \in Nat
    BY <2>1
  <2> QED
    BY <1>1, <2>2
<1>6. \A n \in 0..N : n \in good
  <2> HIDE DEF good
  <2> QED
    BY <1>1, <1>4, <1>5, UptoTheLast
<1>7. N \in 0..N
  BY <1>1
<1> QED
  BY <1>3, <1>6, <1>7 DEF P, N

\* No dimension is 0 when the product is not.
LEMMA NoneIsZero ==
    ASSUME NEW dims \in Seq(Nat), Product(dims) # 0
    PROVE  \A n \in 1..Len(dims) : dims[n] >= 1
<1> DEFINE P == Products(dims)
           N == Len(dims)
<1>1. N \in Nat /\ dims \in Seq(Int) /\ \A n \in 1..N : dims[n] \in Nat
  OBVIOUS
<1>2. P \in [0..N -> Int] /\ \A n \in 1..N : P[n] = P[n - 1] * dims[n]
  BY <1>1, ProductsDefined
<1>3. P[N] # 0
  BY DEF Product
<1> HIDE DEF P, N
<1> SUFFICES ASSUME NEW m \in 1..N, dims[m] = 0 PROVE FALSE
  BY <1>1 DEF N
<1> DEFINE good == {k \in Nat : m + k =< N => P[m + k] = 0}
<1>4. 0 \in good
  <2>1. P[m] = P[m - 1] * dims[m] /\ P[m - 1] \in Int
    BY <1>1, <1>2
  <2>2. P[m] = 0
    BY <2>1
  <2> QED
    BY <1>1, <2>2
<1>5. ASSUME NEW k \in 1..(N - m), k - 1 \in good PROVE k \in good
  <2>1. m + k \in 1..N /\ (m + k) - 1 = m + (k - 1) /\ m + (k - 1) =< N
    BY <1>1
  <2>2. P[m + (k - 1)] = 0
    BY <1>5, <2>1
  <2>3. P[m + k] = P[(m + k) - 1] * dims[m + k] /\ dims[m + k] \in Int
    <3>1. \A n \in 1..N : P[n] = P[n - 1] * dims[n] /\ dims[n] \in Int
      BY <1>1, <1>2
    <3> QED
      BY ONLY <2>1, <3>1
  <2>4. P[m + k] = 0
    BY <2>1, <2>2, <2>3
  <2> QED
    BY <1>1, <2>4
<1>6. N - m \in Nat /\ m + (N - m) = N /\ N - m \in 0..(N - m)
  BY <1>1
<1>7. \A k \in 0..(N - m) : k \in good
  <2> HIDE DEF good
  <2> QED
    BY <1>4, <1>5, <1>6, UptoTheLast
<1> QED
  BY <1>1, <1>3, <1>6, <1>7

\* The dimensions a stride skips: those behind its axis, with 1 for an empty one.
LEMMA FromTheLastType ==
    ASSUME NEW shape \in Seq(Nat)
    PROVE  /\ FromTheLast(shape) \in Seq(Nat) /\ Len(FromTheLast(shape)) = Len(shape)
           /\ \A n \in 1..Len(shape) :
                /\ FromTheLast(shape)[n] >= 1
                /\ shape[Len(shape) + 1 - n] >= 1 => FromTheLast(shape)[n] = shape[Len(shape) + 1 - n]
<1> DEFINE N == Len(shape)
<1>1. N \in Nat /\ DOMAIN shape = 1..N /\ \A n \in 1..N : shape[n] \in Nat
  OBVIOUS
<1> HIDE DEF N
<1>2. FromTheLast(shape) = [n \in 1..N |-> IF shape[N + 1 - n] = 0 THEN 1 ELSE shape[N + 1 - n]]
  BY <1>1 DEF FromTheLast, N
<1>3. \A n \in 1..N : N + 1 - n \in 1..N
  BY <1>1
<1> QED
  BY <1>1, <1>2, <1>3 DEF N

\* Strides are positive, and grow by the dimension they skip.
LEMMA StepsGrow ==
    ASSUME NEW shape \in Seq(Nat)
    PROVE  /\ \A axis \in 0..Len(shape) : StepOf(shape, axis) \in Nat /\ StepOf(shape, axis) >= 1
           /\ StepOf(shape, Len(shape)) = 1
           /\ \A axis \in 1..Len(shape) :
                shape[axis] >= 1 => StepOf(shape, axis - 1) = StepOf(shape, axis) * shape[axis]
<1> DEFINE dims == FromTheLast(shape)
           N == Len(shape)
           Q == Products(dims)
<1>1. N \in Nat /\ \A n \in 1..N : shape[n] \in Nat
  OBVIOUS
<1>2. /\ dims \in Seq(Nat) /\ dims \in Seq(Int) /\ Len(dims) = N
      /\ \A n \in 1..N : dims[n] >= 1 /\ (shape[N + 1 - n] >= 1 => dims[n] = shape[N + 1 - n])
  <2>1. dims \in Seq(Nat) /\ Len(dims) = N
    BY FromTheLastType
  <2>2. dims \in Seq(Int)
    <3> HIDE DEF dims
    <3> QED
      BY <2>1
  <2> QED
    BY <2>1, <2>2, FromTheLastType
<1>3. \A n \in 1..N : dims[n] \in Nat
  <2> HIDE DEF dims
  <2> QED
    BY <1>2
<1>4. Q[0] = 1 /\ \A n \in 1..N : Q[n] = Q[n - 1] * dims[n]
  <2> HIDE DEF dims
  <2> QED
    BY <1>2, ProductsDefined
<1>5. \A axis : StepOf(shape, axis) = Q[N - axis]
  BY DEF StepOf
<1> HIDE DEF dims, N, Q
<1> DEFINE good == {n \in 0..N : Q[n] \in Nat /\ Q[n] >= 1}
<1>6. 0 \in good
  BY <1>1, <1>4
<1>7. ASSUME NEW n \in 1..N, n - 1 \in good PROVE n \in good
  <2>1. Q[n] = Q[n - 1] * dims[n] /\ Q[n - 1] \in Nat /\ Q[n - 1] >= 1 /\ dims[n] \in Nat /\ dims[n] >= 1
    BY <1>2, <1>3, <1>4, <1>7
  <2>2. Q[n] \in Nat /\ Q[n] >= 1
    BY <2>1
  <2> QED
    BY <1>1, <2>2
<1>8. \A n \in 0..N : n \in good
  <2> HIDE DEF good
  <2> QED
    BY <1>1, <1>6, <1>7, UptoTheLast
<1>9. \A axis \in 0..N : StepOf(shape, axis) \in Nat /\ StepOf(shape, axis) >= 1
  <2> TAKE axis \in 0..N
  <2>1. N - axis \in 0..N
    BY <1>1
  <2> QED
    BY <1>5, <1>8, <2>1
<1>10. StepOf(shape, N) = 1
  <2>1. N - N = 0
    BY <1>1
  <2> QED
    BY <1>4, <1>5, <2>1
<1>11. ASSUME NEW axis \in 1..N, shape[axis] >= 1
       PROVE  StepOf(shape, axis - 1) = StepOf(shape, axis) * shape[axis]
  <2>1. N - (axis - 1) \in 1..N /\ (N - (axis - 1)) - 1 = N - axis /\ N + 1 - (N - (axis - 1)) = axis
    BY <1>1
  <2>2. dims[N - (axis - 1)] = shape[axis]
    BY <1>2, <1>11, <2>1
  <2>3. Q[N - (axis - 1)] = Q[(N - (axis - 1)) - 1] * dims[N - (axis - 1)]
    BY <1>4, <2>1
  <2> QED
    BY <1>5, <2>1, <2>2, <2>3
<1> QED
  BY <1>9, <1>10, <1>11 DEF N

\* The first stride of an array of its own is the count of its elements.
LEMMA ProductIsFirstStep ==
    ASSUME NEW shape \in Seq(Nat), \A n \in 1..Len(shape) : shape[n] >= 1
    PROVE  Product(shape) = StepOf(shape, 0)
<1> DEFINE P == Products(shape)
           N == Len(shape)
           Step(n) == StepOf(shape, n)
           good == {n \in 0..N : P[n] * Step(n) = Step(0)}
<1>1. N \in Nat /\ shape \in Seq(Int) /\ \A n \in 1..N : shape[n] \in Nat /\ shape[n] >= 1
  OBVIOUS
<1>2. P[0] = 1 /\ \A n \in 1..N : P[n] = P[n - 1] * shape[n]
  BY <1>1, ProductsDefined
<1>3. \A n \in 0..N : P[n] \in Nat
  BY ProductType
<1>4. /\ \A n \in 0..N : Step(n) \in Nat
      /\ Step(N) = 1
      /\ \A n \in 1..N : Step(n - 1) = Step(n) * shape[n]
  BY <1>1, StepsGrow
<1>5. Product(shape) = P[N]
  BY DEF Product
<1> HIDE DEF P, N, Step
<1>6. 0 \in good
  <2>1. 0 \in 0..N
    BY <1>1
  <2>2. Step(0) \in Nat
    BY <1>4, <2>1
  <2>3. P[0] * Step(0) = Step(0)
    BY <1>2, <2>2
  <2> QED
    BY <2>1, <2>3
<1>7. ASSUME NEW n \in 1..N, n - 1 \in good PROVE n \in good
  <2>1. n \in 0..N /\ n - 1 \in 0..N
    BY <1>1
  <2>2. P[n] \in Nat /\ P[n - 1] \in Nat /\ Step(n) \in Nat /\ Step(n - 1) \in Nat /\ shape[n] \in Nat
    BY <1>1, <1>3, <1>4, <2>1
  <2>3. P[n] = P[n - 1] * shape[n] /\ Step(n - 1) = Step(n) * shape[n] /\ P[n - 1] * Step(n - 1) = Step(0)
    BY <1>2, <1>4, <1>7
  <2>4. ASSUME NEW p \in Int, NEW q \in Int, NEW s \in Int PROVE (p * s) * q = p * (q * s)
    OBVIOUS
  <2>5. (P[n - 1] * shape[n]) * Step(n) = P[n - 1] * (Step(n) * shape[n])
    BY <2>2, <2>4
  <2>6. P[n] * Step(n) = Step(0)
    BY <2>3, <2>5
  <2> QED
    BY <2>1, <2>6
<1>8. N \in good
  <2>1. \A n \in 0..N : n \in good
    <3> HIDE DEF good
    <3> QED
      BY <1>1, <1>6, <1>7, UptoTheLast
  <2> QED
    BY <1>1, <2>1
<1>9. N \in 0..N
  BY <1>1
<1>10. P[N] * 1 = Step(0)
  BY <1>4, <1>8
<1>11. P[N] \in Nat
  BY <1>3, <1>9
<1> QED
  BY <1>5, <1>10, <1>11 DEF Step

\* A place on an axis is no farther than its last.
LEMMA NoFarther ==
    ASSUME NEW c \in Int, NEW stride \in Int, NEW dim \in Nat, 0 =< c, c < dim
    PROVE  LET ahead == IF dim > 1 /\ 1 * stride > 0 THEN (dim - 1) * (1 * stride) ELSE 0
               back == IF dim > 1 /\ -1 * stride > 0 THEN (dim - 1) * (-1 * stride) ELSE 0
           IN /\ ahead \in Nat /\ back \in Nat /\ c * stride \in Int
              /\ -back =< c * stride /\ c * stride =< ahead
<1>1. ASSUME NEW a \in Nat, NEW b \in Nat, NEW m \in Nat, a =< b
      PROVE  a * m =< b * m /\ a * m \in Nat /\ b * m \in Nat
  <2>1. ASSUME NEW p \in Nat, NEW q \in Nat PROVE p * q \in Nat
    OBVIOUS
  <2>2. b - a \in Nat
    BY <1>1
  <2>3. (b - a) * m \in Nat /\ a * m \in Nat /\ b * m \in Nat
    BY <2>1, <2>2
  <2>4. b * m = a * m + (b - a) * m
    BY <2>2
  <2> QED
    BY <2>3, <2>4
<1>2. c \in Nat /\ dim - 1 \in Nat /\ c =< dim - 1
  OBVIOUS
<1>3. 1 * stride = stride /\ -1 * stride = -stride
  OBVIOUS
<1>4. CASE stride > 0
  <2>1. stride \in Nat
    BY <1>4
  <2>2. c * stride =< (dim - 1) * stride /\ c * stride \in Nat /\ (dim - 1) * stride \in Nat
    BY <1>1, <1>2, <2>1
  <2>3. CASE dim > 1
    BY <1>3, <1>4, <2>2, <2>3
  <2>4. CASE dim = 1
    <3>1. c = 0
      BY <2>4
    <3>2. c * stride = 0
      BY <3>1
    <3> QED
      BY <1>3, <1>4, <2>4, <3>2
  <2> QED
    BY <2>3, <2>4
<1>5. CASE stride < 0
  <2>1. -stride \in Nat
    BY <1>5
  <2>2. /\ c * (-stride) =< (dim - 1) * (-stride)
        /\ c * (-stride) \in Nat /\ (dim - 1) * (-stride) \in Nat
    BY <1>1, <1>2, <2>1
  <2>3. c * (-stride) = -(c * stride)
    OBVIOUS
  <2>4. CASE dim > 1
    BY <1>3, <1>5, <2>2, <2>3, <2>4
  <2>5. CASE dim = 1
    <3>1. c = 0
      BY <2>5
    <3>2. c * stride = 0
      BY <3>1
    <3> QED
      BY <1>3, <1>5, <2>5, <3>2
  <2> QED
    BY <2>4, <2>5
<1>6. CASE stride = 0
  BY <1>3, <1>6
<1> QED
  BY <1>4, <1>5, <1>6

\* A function on the numbers up to one is a sequence.
LEMMA IsSequence ==
    ASSUME NEW n \in Nat, NEW f, f = [i \in 1..n |-> f[i]], \A i \in 1..n : f[i] \in Int
    PROVE  f \in Seq(Int) /\ Len(f) = n
  OBVIOUS

\* And one of sizes is a shape.
LEMMA IsShape ==
    ASSUME NEW n \in Nat, NEW f, f = [i \in 1..n |-> f[i]], \A i \in 1..n : f[i] \in Nat
    PROVE  f \in Seq(Nat) /\ Len(f) = n
  OBVIOUS

\* What the strides of one sign reach is what their axes reach together.
LEMMA ReachBounds ==
    ASSUME NEW d, IsDescriptor(d), NEW c,
           \A axis \in 1..Len(d.shape) : c[axis] \in Int /\ 0 =< c[axis] /\ c[axis] < d.shape[axis]
    PROVE  /\ Reach(d, 1) \in Nat /\ Reach(d, -1) \in Nat /\ OffsetAt(d, c) \in Int
           /\ d.offset - Reach(d, -1) =< OffsetAt(d, c)
           /\ OffsetAt(d, c) =< d.offset + Reach(d, 1)
<1> DEFINE N == Len(d.shape)
           shape == d.shape
           strides == d.strides
           ahead == Extents(d, 1)
           back == Extents(d, -1)
           moves == Moves(d, c)
           A == Totals(0, ahead)
           B == Totals(0, back)
           T == Totals(d.offset, moves)
<1>1. /\ N \in Nat /\ DOMAIN shape = 1..N /\ d.offset \in Int
      /\ \A axis \in 1..N : shape[axis] \in Nat /\ strides[axis] \in Int
  BY DEF IsDescriptor
<1>2. \A axis \in 1..N : c[axis] \in Int /\ 0 =< c[axis] /\ c[axis] < shape[axis]
  OBVIOUS
<1>3. /\ ahead = [axis \in 1..N |-> IF shape[axis] > 1 /\ 1 * strides[axis] > 0
                                      THEN (shape[axis] - 1) * (1 * strides[axis]) ELSE 0]
      /\ back = [axis \in 1..N |-> IF shape[axis] > 1 /\ -1 * strides[axis] > 0
                                     THEN (shape[axis] - 1) * (-1 * strides[axis]) ELSE 0]
      /\ moves = [axis \in 1..N |-> c[axis] * strides[axis]]
  BY <1>1 DEF Extents, Moves
<1>4. Reach(d, 1) = A[Len(ahead)] /\ Reach(d, -1) = B[Len(back)] /\ OffsetAt(d, c) = T[Len(moves)]
  BY DEF Reach, OffsetAt, TotalOf
<1> HIDE DEF N, shape, strides, ahead, back, moves
<1>5. \A axis \in 1..N : /\ ahead[axis] \in Nat /\ back[axis] \in Nat /\ moves[axis] \in Int
                         /\ -back[axis] =< moves[axis] /\ moves[axis] =< ahead[axis]
  <2> TAKE axis \in 1..N
  <2>1. /\ c[axis] \in Int /\ strides[axis] \in Int /\ shape[axis] \in Nat /\ 0 =< c[axis] /\ c[axis] < shape[axis]
    BY <1>1, <1>2
  <2>2. /\ ahead[axis] = IF shape[axis] > 1 /\ 1 * strides[axis] > 0
                           THEN (shape[axis] - 1) * (1 * strides[axis]) ELSE 0
        /\ back[axis] = IF shape[axis] > 1 /\ -1 * strides[axis] > 0
                          THEN (shape[axis] - 1) * (-1 * strides[axis]) ELSE 0
        /\ moves[axis] = c[axis] * strides[axis]
    BY <1>3
  <2> QED
    BY ONLY <2>1, <2>2, NoFarther
<1>6. /\ ahead \in Seq(Int) /\ back \in Seq(Int) /\ moves \in Seq(Int)
      /\ Len(ahead) = N /\ Len(back) = N /\ Len(moves) = N
  <2>1. ahead = [axis \in 1..N |-> ahead[axis]] /\ back = [axis \in 1..N |-> back[axis]]
          /\ moves = [axis \in 1..N |-> moves[axis]]
    BY <1>3
  <2>2. \A axis \in 1..N : ahead[axis] \in Int /\ back[axis] \in Int /\ moves[axis] \in Int
    BY <1>5
  <2>3. ahead \in Seq(Int) /\ Len(ahead) = N
    BY ONLY <1>1, <2>1, <2>2, IsSequence
  <2>4. back \in Seq(Int) /\ Len(back) = N
    BY ONLY <1>1, <2>1, <2>2, IsSequence
  <2>5. moves \in Seq(Int) /\ Len(moves) = N
    BY ONLY <1>1, <2>1, <2>2, IsSequence
  <2> QED
    BY <2>3, <2>4, <2>5
<1>7. /\ A \in [0..N -> Int] /\ A[0] = 0 /\ \A n \in 1..N : A[n] = A[n - 1] + ahead[n]
      /\ B \in [0..N -> Int] /\ B[0] = 0 /\ \A n \in 1..N : B[n] = B[n - 1] + back[n]
      /\ T \in [0..N -> Int] /\ T[0] = d.offset /\ \A n \in 1..N : T[n] = T[n - 1] + moves[n]
  <2>1. 0 \in Int /\ d.offset \in Int
    BY <1>1
  <2>2. A \in [0..N -> Int] /\ A[0] = 0 /\ \A n \in 1..N : A[n] = A[n - 1] + ahead[n]
    <3>1. ahead \in Seq(Int) /\ Len(ahead) = N
      BY <1>6
    <3>2. /\ A \in [0..Len(ahead) -> Int] /\ A[0] = 0
          /\ \A n \in 1..Len(ahead) : A[n] = A[n - 1] + ahead[n]
      BY ONLY <2>1, <3>1, TotalsDefined, Zenon
    <3> QED
      BY ONLY <3>1, <3>2
  <2>3. B \in [0..N -> Int] /\ B[0] = 0 /\ \A n \in 1..N : B[n] = B[n - 1] + back[n]
    <3>1. back \in Seq(Int) /\ Len(back) = N
      BY <1>6
    <3>2. /\ B \in [0..Len(back) -> Int] /\ B[0] = 0
          /\ \A n \in 1..Len(back) : B[n] = B[n - 1] + back[n]
      BY ONLY <2>1, <3>1, TotalsDefined, Zenon
    <3> QED
      BY ONLY <3>1, <3>2
  <2>4. T \in [0..N -> Int] /\ T[0] = d.offset /\ \A n \in 1..N : T[n] = T[n - 1] + moves[n]
    <3>1. moves \in Seq(Int) /\ Len(moves) = N
      BY <1>6
    <3>2. /\ T \in [0..Len(moves) -> Int] /\ T[0] = d.offset
          /\ \A n \in 1..Len(moves) : T[n] = T[n - 1] + moves[n]
      BY ONLY <2>1, <3>1, TotalsDefined, Zenon
    <3> QED
      BY ONLY <3>1, <3>2
  <2> QED
    BY <2>2, <2>3, <2>4
<1> HIDE DEF A, B, T
<1> DEFINE good == {n \in 0..N : /\ A[n] >= 0 /\ B[n] >= 0
                                 /\ d.offset - B[n] =< T[n] /\ T[n] =< d.offset + A[n]}
<1>8. 0 \in good
  BY <1>1, <1>7
<1>9. ASSUME NEW n \in 1..N, n - 1 \in good PROVE n \in good
  <2>1. n \in 0..N /\ n - 1 \in 0..N
    BY <1>1
  <2>2. /\ A[n] = A[n - 1] + ahead[n] /\ B[n] = B[n - 1] + back[n] /\ T[n] = T[n - 1] + moves[n]
        /\ A[n - 1] \in Int /\ B[n - 1] \in Int /\ T[n - 1] \in Int
        /\ ahead[n] \in Nat /\ back[n] \in Nat /\ moves[n] \in Int
        /\ -back[n] =< moves[n] /\ moves[n] =< ahead[n]
    BY <1>5, <1>7, <2>1
  <2>3. /\ A[n - 1] >= 0 /\ B[n - 1] >= 0
        /\ d.offset - B[n - 1] =< T[n - 1] /\ T[n - 1] =< d.offset + A[n - 1]
    BY <1>9
  <2>4. A[n] >= 0 /\ B[n] >= 0 /\ d.offset - B[n] =< T[n] /\ T[n] =< d.offset + A[n]
    <3>1. ASSUME NEW a \in Int, NEW b \in Int, NEW t \in Int, NEW x \in Nat, NEW y \in Nat, NEW m \in Int,
                 NEW o \in Int, -y =< m, m =< x, a >= 0, b >= 0, o - b =< t, t =< o + a
          PROVE  a + x >= 0 /\ b + y >= 0 /\ o - (b + y) =< t + m /\ t + m =< o + (a + x)
      BY <3>1
    <3>2. d.offset \in Int
      BY <1>1
    <3> QED
      BY ONLY <2>2, <2>3, <3>1, <3>2
  <2> QED
    BY <2>1, <2>4
<1>10. \A n \in 0..N : n \in good
  <2> HIDE DEF good
  <2> QED
    BY <1>1, <1>8, <1>9, UptoTheLast
<1>11. N \in 0..N
  BY <1>1
<1>12. A[N] \in Int /\ B[N] \in Int /\ T[N] \in Int /\ N \in good
  BY <1>7, <1>10, <1>11
<1> QED
  BY <1>4, <1>6, <1>12

\* The coordinate of an element is a place on the axis.
LEMMA CoordinateWithin ==
    ASSUME NEW shape \in Seq(Nat), Product(shape) # 0, NEW index \in Nat, NEW axis \in 1..Len(shape)
    PROVE  /\ Coordinate(shape, index, axis) \in Int
           /\ 0 =< Coordinate(shape, index, axis) /\ Coordinate(shape, index, axis) < shape[axis]
<1>1. shape[axis] \in Nat /\ shape[axis] >= 1 /\ axis \in 0..Len(shape)
  BY NoneIsZero
<1>2. StepOf(shape, axis) \in Nat /\ StepOf(shape, axis) >= 1
  BY <1>1, StepsGrow
<1>3. \A i \in Nat : \A s \in Nat : s >= 1 => i \div s \in Int
  OBVIOUS
<1>4. index \div StepOf(shape, axis) \in Int
  BY <1>2, <1>3
<1>5. \A i \in Int : \A s \in Nat : s >= 1 => i % s \in Int /\ 0 =< i % s /\ i % s < s
  OBVIOUS
<1> QED
  BY <1>1, <1>4, <1>5 DEF Coordinate

\* A descriptor that is valid for a storage looks at its cells only.
LEMMA ValidIsInside ==
    ASSUME NEW storages, NEW d, IsDescriptor(d), d.storage # NoStorage, ValidateArray(storages, d) = "ok",
           NEW index \in 0..(Size(d) - 1),
           Len(storages[d.storage].cells) \in Nat
    PROVE  LinearOffset(d, index) \in 0..(Len(storages[d.storage].cells) - 1)
<1> DEFINE length == Len(storages[d.storage].cells)
           c == Coordinates(d.shape, index)
<1>1. d.shape \in Seq(Nat) /\ d.offset \in Int /\ Size(d) = Product(d.shape)
  BY DEF IsDescriptor, Size
<1>2. Size(d) \in Nat
  BY <1>1, ProductType
<1>3. index \in Nat /\ Product(d.shape) # 0
  BY <1>1, <1>2
<1>4. \A axis \in 1..Len(d.shape) : c[axis] \in Int /\ 0 =< c[axis] /\ c[axis] < d.shape[axis]
  <2> TAKE axis \in 1..Len(d.shape)
  <2>1. c[axis] = Coordinate(d.shape, index, axis)
    BY <1>1 DEF Coordinates
  <2> QED
    BY <1>1, <1>3, <2>1, CoordinateWithin
<1>5. ReachStatus(d, length) = "ok"
  <2> DEFINE statuses == <<ShapeStatus(d.shape),
                 Must(d.readonly \/ 0 \notin ToSet(d.strides), "argument"),
                 Must(d.offset =< Len(storages[d.storage].cells), "argument"),
                 IF Size(d) = 0 THEN "ok"
                 ELSE ReachStatus(d, Len(storages[d.storage].cells))>>
  <2>1. FirstStatus(statuses) = "ok"
    BY DEF ValidateArray
  <2>2. Len(statuses) = 4 /\ Len(statuses) \in Nat /\ 4 \in 1..Len(statuses) /\ statuses[4] = IF Size(d) = 0 THEN "ok" ELSE ReachStatus(d, length)
    OBVIOUS
  <2> HIDE DEF statuses
  <2>3. statuses[4] = "ok"
    BY <2>1, <2>2, FirstStatusOk
  <2> QED
    BY <1>1, <1>3, <2>2, <2>3
<1>6. Reach(d, -1) =< d.offset /\ d.offset + Reach(d, 1) < length
  <2> DEFINE statuses == <<Must(Reach(d, 1) =< MaxSize /\ Reach(d, -1) =< MaxSize, "overflow"),
            Must(Reach(d, -1) =< d.offset, "argument"),
            Must(d.offset + Reach(d, 1) =< MaxSize, "overflow"),
            Must(d.offset + Reach(d, 1) < length, "argument")>>
  <2>1. FirstStatus(statuses) = "ok"
    BY <1>5 DEF ReachStatus
  <2>2. Len(statuses) \in Nat /\ 2 \in 1..Len(statuses) /\ 4 \in 1..Len(statuses)
          /\ statuses[2] = Must(Reach(d, -1) =< d.offset, "argument")
          /\ statuses[4] = Must(d.offset + Reach(d, 1) < length, "argument")
    OBVIOUS
  <2> HIDE DEF statuses
  <2>3. statuses[2] = "ok" /\ statuses[4] = "ok"
    BY <2>1, <2>2, FirstStatusOk
  <2> QED
    BY <2>2, <2>3 DEF Must
<1>7. /\ Reach(d, 1) \in Nat /\ Reach(d, -1) \in Nat /\ OffsetAt(d, c) \in Int
      /\ d.offset - Reach(d, -1) =< OffsetAt(d, c) /\ OffsetAt(d, c) =< d.offset + Reach(d, 1)
  <2> HIDE DEF c
  <2> QED
    BY <1>4, ReachBounds
<1>8. LinearOffset(d, index) = OffsetAt(d, c)
  BY DEF LinearOffset
<1> HIDE DEF c
<1> QED
  BY <1>1, <1>6, <1>7, <1>8

\* When all statuses are ok the first is.
LEMMA AllAreOk ==
    ASSUME NEW statuses, \A i \in 1..Len(statuses) : statuses[i] = "ok"
    PROVE  FirstStatus(statuses) = "ok"
<1>1. SelectInSeq(statuses, LAMBDA s : s # "ok") = 0
  BY DEF SelectInSeq
<1> QED
  BY <1>1 DEF FirstStatus

\* The strides of an array of its own.
LEMMA ContiguousStridesType ==
    ASSUME NEW shape \in Seq(Nat)
    PROVE  /\ ContiguousStrides(shape) \in Seq(Int) /\ Len(ContiguousStrides(shape)) = Len(shape)
           /\ \A axis \in 1..Len(shape) :
                /\ ContiguousStrides(shape)[axis] = StepOf(shape, axis)
                /\ ContiguousStrides(shape)[axis] \in Nat /\ ContiguousStrides(shape)[axis] >= 1
           /\ 0 \notin ToSet(ContiguousStrides(shape))
<1> DEFINE N == Len(shape)
           strides == ContiguousStrides(shape)
<1>1. N \in Nat /\ DOMAIN shape = 1..N
  OBVIOUS
<1>2. strides = [axis \in 1..N |-> StepOf(shape, axis)]
  BY <1>1 DEF ContiguousStrides
<1>3. \A axis \in 1..N : StepOf(shape, axis) \in Nat /\ StepOf(shape, axis) >= 1
  <2> TAKE axis \in 1..N
  <2>1. axis \in 0..N
    BY <1>1
  <2> QED
    BY <2>1, StepsGrow
<1> HIDE DEF N, strides
<1>4. /\ strides = [axis \in 1..N |-> strides[axis]]
      /\ \A axis \in 1..N : strides[axis] \in Int
  BY <1>2, <1>3
<1>5. strides \in Seq(Int) /\ Len(strides) = N
  BY ONLY <1>1, <1>4, IsSequence
<1>6. \A axis \in 1..N : strides[axis] = StepOf(shape, axis) /\ strides[axis] \in Nat /\ strides[axis] >= 1
  BY <1>2, <1>3
<1>7. 0 \notin ToSet(strides)
  BY <1>2, <1>6 DEF ToSet
<1> QED
  BY <1>5, <1>6, <1>7 DEF N, strides

\* The positive strides of an array of its own reach its last element.
LEMMA OwnReach ==
    ASSUME NEW d, IsDescriptor(d), d.strides = ContiguousStrides(d.shape), Size(d) # 0
    PROVE  Reach(d, 1) = Product(d.shape) - 1 /\ Reach(d, -1) = 0
<1> DEFINE N == Len(d.shape)
           shape == d.shape
           ahead == Extents(d, 1)
           back == Extents(d, -1)
           A == Totals(0, ahead)
           B == Totals(0, back)
           Step(n) == StepOf(shape, n)
<1>1. N \in Nat /\ shape \in Seq(Nat) /\ DOMAIN shape = 1..N
      /\ \A n \in 1..N : shape[n] \in Nat /\ d.strides[n] \in Int
  BY DEF IsDescriptor
<1>2. \A n \in 1..N : shape[n] >= 1
  BY <1>1, NoneIsZero DEF Size
<1>3. /\ \A n \in 0..N : Step(n) \in Nat /\ Step(n) >= 1
      /\ Step(N) = 1
      /\ \A n \in 1..N : Step(n - 1) = Step(n) * shape[n]
  BY <1>1, <1>2, StepsGrow
<1>4. Product(shape) = Step(0)
  BY <1>1, <1>2, ProductIsFirstStep
<1>5. \A n \in 1..N : d.strides[n] = Step(n)
  BY <1>1, ContiguousStridesType
<1>6. /\ ahead = [n \in 1..N |-> IF shape[n] > 1 /\ 1 * d.strides[n] > 0
                                   THEN (shape[n] - 1) * (1 * d.strides[n]) ELSE 0]
      /\ back = [n \in 1..N |-> IF shape[n] > 1 /\ -1 * d.strides[n] > 0
                                  THEN (shape[n] - 1) * (-1 * d.strides[n]) ELSE 0]
  BY <1>1 DEF Extents
<1>7. Reach(d, 1) = A[Len(ahead)] /\ Reach(d, -1) = B[Len(back)]
  BY DEF Reach, TotalOf
<1> HIDE DEF N, shape, ahead, back, Step
<1>8. ASSUME NEW n \in 1..N
      PROVE  ahead[n] = Step(n - 1) - Step(n) /\ back[n] = 0
  <2>1. n \in 0..N /\ n - 1 \in 0..N
    BY <1>1
  <2>2. /\ Step(n) \in Nat /\ Step(n) >= 1 /\ Step(n - 1) = Step(n) * shape[n]
        /\ shape[n] \in Nat /\ shape[n] >= 1 /\ d.strides[n] = Step(n)
    BY <1>1, <1>2, <1>3, <1>5, <2>1
  <2>3. ASSUME NEW s \in Nat, NEW m \in Nat, s >= 1, m >= 1
        PROVE  /\ (IF m > 1 /\ 1 * s > 0 THEN (m - 1) * (1 * s) ELSE 0) = s * m - s
               /\ ~(-1 * s > 0)
    <3>1. (m - 1) * s = s * m - s
      OBVIOUS
    <3>2. m = 1 => s * m - s = 0
      OBVIOUS
    <3>3. 1 * s = s /\ -1 * s = -s
      OBVIOUS
    <3> QED
      BY <2>3, <3>1, <3>2, <3>3
  <2>4. /\ ahead[n] = IF shape[n] > 1 /\ 1 * Step(n) > 0 THEN (shape[n] - 1) * (1 * Step(n)) ELSE 0
        /\ back[n] = IF shape[n] > 1 /\ -1 * Step(n) > 0 THEN (shape[n] - 1) * (-1 * Step(n)) ELSE 0
    BY <1>6, <2>2
  <2>5. ahead[n] = Step(n) * shape[n] - Step(n) /\ ~(-1 * Step(n) > 0)
    BY ONLY <2>2, <2>3, <2>4
  <2>6. back[n] = 0
    BY <2>4, <2>5
  <2> QED
    BY <2>2, <2>5, <2>6
<1>9. /\ ahead \in Seq(Int) /\ Len(ahead) = N
      /\ back \in Seq(Int) /\ Len(back) = N
  <2>1. \A n \in 1..N : ahead[n] \in Int /\ back[n] \in Int
    <3> TAKE n \in 1..N
    <3>1. n \in 0..N /\ n - 1 \in 0..N
      BY <1>1
    <3> QED
      BY <1>3, <1>8, <3>1
  <2>2. ahead = [n \in 1..N |-> ahead[n]] /\ back = [n \in 1..N |-> back[n]]
    BY <1>6
  <2>3. ahead \in Seq(Int) /\ Len(ahead) = N
    BY ONLY <1>1, <2>1, <2>2, IsSequence
  <2>4. back \in Seq(Int) /\ Len(back) = N
    BY ONLY <1>1, <2>1, <2>2, IsSequence
  <2> QED
    BY <2>3, <2>4
<1>10. 0 \in Int
  OBVIOUS
<1>11. A \in [0..N -> Int] /\ A[0] = 0 /\ \A n \in 1..N : A[n] = A[n - 1] + ahead[n]
  <2>1. /\ A \in [0..Len(ahead) -> Int] /\ A[0] = 0
        /\ \A n \in 1..Len(ahead) : A[n] = A[n - 1] + ahead[n]
    BY ONLY <1>9, <1>10, TotalsDefined, Zenon
  <2> QED
    BY ONLY <1>9, <2>1
<1>12. B \in [0..N -> Int] /\ B[0] = 0 /\ \A n \in 1..N : B[n] = B[n - 1] + back[n]
  <2>1. /\ B \in [0..Len(back) -> Int] /\ B[0] = 0
        /\ \A n \in 1..Len(back) : B[n] = B[n - 1] + back[n]
    BY ONLY <1>9, <1>10, TotalsDefined, Zenon
  <2> QED
    BY ONLY <1>9, <2>1
<1> HIDE DEF A, B
<1> DEFINE good == {n \in 0..N : A[n] = Step(0) - Step(n) /\ B[n] = 0}
<1>13. 0 \in good
  <2>1. 0 \in 0..N
    BY <1>1
  <2>2. Step(0) \in Nat
    BY <1>3, <2>1
  <2> QED
    BY <1>11, <1>12, <2>1, <2>2
<1>14. ASSUME NEW n \in 1..N, n - 1 \in good PROVE n \in good
  <2>1. n \in 0..N /\ n - 1 \in 0..N /\ 0 \in 0..N
    BY <1>1
  <2>2. A[n] = A[n - 1] + ahead[n] /\ B[n] = B[n - 1] + back[n]
    BY <1>11, <1>12
  <2>3. A[n - 1] = Step(0) - Step(n - 1) /\ B[n - 1] = 0
    BY <1>14
  <2>4. Step(0) \in Nat /\ Step(n) \in Nat /\ Step(n - 1) \in Nat
    BY <1>3, <2>1
  <2>5. A[n] = Step(0) - Step(n) /\ B[n] = 0
    BY <1>8, <2>2, <2>3, <2>4
  <2> QED
    BY <2>1, <2>5
<1>15. \A n \in 0..N : n \in good
  <2> HIDE DEF good
  <2> QED
    BY <1>1, <1>13, <1>14, UptoTheLast
<1>16. N \in good
  <2> HIDE DEF good
  <2> QED
    BY <1>1, <1>15
<1>17. A[N] = Step(0) - 1 /\ B[N] = 0
  BY <1>3, <1>16
<1> QED
  BY <1>4, <1>7, <1>9, <1>17 DEF shape

-----------------------------------------------------------------------------
(* Descriptors and the storages they look at *)

\* A descriptor that can be read through.
Fits(storages, d) ==
  IsDescriptor(d) /\ d.storage \in DOMAIN storages /\ ValidateArray(storages, d) = "ok"

\* What a validation looks at.
LEMMA Validated ==
    ASSUME NEW storages, NEW d, d.storage # NoStorage
    PROVE  /\ ValidateArray(storages, d) = "ok" =>
                /\ ShapeStatus(d.shape) = "ok"
                /\ d.readonly \/ 0 \notin ToSet(d.strides)
                /\ d.offset =< Len(storages[d.storage].cells)
                /\ Size(d) # 0 => ReachStatus(d, Len(storages[d.storage].cells)) = "ok"
           /\ (/\ ShapeStatus(d.shape) = "ok"
               /\ d.readonly \/ 0 \notin ToSet(d.strides)
               /\ d.offset =< Len(storages[d.storage].cells)
               /\ Size(d) # 0 => ReachStatus(d, Len(storages[d.storage].cells)) = "ok")
              => ValidateArray(storages, d) = "ok"
<1> DEFINE statuses == <<ShapeStatus(d.shape),
                 Must(d.readonly \/ 0 \notin ToSet(d.strides), "argument"),
                 Must(d.offset =< Len(storages[d.storage].cells), "argument"),
                 IF Size(d) = 0 THEN "ok"
                 ELSE ReachStatus(d, Len(storages[d.storage].cells))>>
<1>1. ValidateArray(storages, d) = FirstStatus(statuses)
  BY DEF ValidateArray
<1>2. /\ 1..Len(statuses) = {1, 2, 3, 4} /\ Len(statuses) \in Nat
      /\ statuses[1] = ShapeStatus(d.shape)
      /\ statuses[2] = Must(d.readonly \/ 0 \notin ToSet(d.strides), "argument")
      /\ statuses[3] = Must(d.offset =< Len(storages[d.storage].cells), "argument")
      /\ statuses[4] = IF Size(d) = 0 THEN "ok" ELSE ReachStatus(d, Len(storages[d.storage].cells))
  OBVIOUS
<1> HIDE DEF statuses
<1>3. ASSUME FirstStatus(statuses) = "ok"
      PROVE  statuses[1] = "ok" /\ statuses[2] = "ok" /\ statuses[3] = "ok" /\ statuses[4] = "ok"
  BY <1>2, <1>3, FirstStatusOk
<1>4. ASSUME statuses[1] = "ok", statuses[2] = "ok", statuses[3] = "ok", statuses[4] = "ok"
      PROVE  FirstStatus(statuses) = "ok"
  BY <1>2, <1>4, AllAreOk
<1> QED
  BY <1>1, <1>2, <1>3, <1>4 DEF Must

\* Only the lengths of storages matter to a validation.
LEMMA FitsKept ==
    ASSUME NEW storages, NEW others, NEW d, Fits(storages, d), d.storage # NoStorage,
           d.storage \in DOMAIN others,
           Len(others[d.storage].cells) = Len(storages[d.storage].cells)
    PROVE  Fits(others, d)
  BY Validated DEF Fits

\* An array of its own fits the storage that was made for it.
LEMMA OwnedFits ==
    ASSUME NEW storages, NEW id \in DOMAIN storages, id \in Nat, id # NoStorage,
           NEW dtype, NEW shape \in Seq(Nat), ShapeStatus(shape) = "ok",
           Len(storages[id].cells) = Product(shape)
    PROVE  Fits(storages, Owned(id, dtype, shape))
<1> DEFINE d == Owned(id, dtype, shape)
<1>1. /\ d = [storage |-> d.storage, dtype |-> d.dtype, shape |-> d.shape, strides |-> d.strides,
              offset |-> d.offset, own |-> d.own, readonly |-> d.readonly]
      /\ d.storage = id /\ d.shape = shape /\ d.strides = ContiguousStrides(shape) /\ d.offset = 0
  BY DEF Owned
<1> HIDE DEF d
<1>2. /\ d.strides \in Seq(Int) /\ Len(d.strides) = Len(d.shape) /\ 0 \notin ToSet(d.strides)
  BY <1>1, ContiguousStridesType
<1>3. IsDescriptor(d)
  <2>1. 0 \in Int
    OBVIOUS
  <2> QED
    BY <1>1, <1>2, <2>1 DEF IsDescriptor
<1>4. Product(shape) \in Nat /\ Size(d) = Product(shape)
  BY <1>1, ProductType DEF Size
<1>5. ASSUME Size(d) # 0 PROVE ReachStatus(d, Product(shape)) = "ok"
  <2>1. Reach(d, 1) = Product(shape) - 1 /\ Reach(d, -1) = 0
    BY <1>1, <1>3, <1>5, OwnReach
  <2>2. Product(shape) - 1 =< MaxSize /\ 0 =< MaxSize
    <3>1. CASE Len(shape) = 0
      <4>1. Product(shape) = 1
        <5>1. shape \in Seq(Int)
          OBVIOUS
        <5> QED
          BY <3>1, <5>1, ProductsDefined DEF Product
      <4> QED
        BY <4>1, StridesAreSizes
    <3>2. CASE Len(shape) # 0
      <4>1. Len(shape) \in DOMAIN shape
        BY <3>2
      <4>2. Products(shape)[Len(shape)] =< MaxSize
        BY <4>1 DEF ShapeStatus, Must
      <4> QED
        BY <1>4, <4>2, StridesAreSizes DEF Product
    <3> QED
      BY <3>1, <3>2
  <2> DEFINE statuses == <<Must(Reach(d, 1) =< MaxSize /\ Reach(d, -1) =< MaxSize, "overflow"),
            Must(Reach(d, -1) =< d.offset, "argument"),
            Must(d.offset + Reach(d, 1) =< MaxSize, "overflow"),
            Must(d.offset + Reach(d, 1) < Product(shape), "argument")>>
  <2>3. Reach(d, 1) =< MaxSize /\ Reach(d, -1) =< MaxSize /\ Reach(d, -1) =< d.offset
          /\ d.offset + Reach(d, 1) =< MaxSize /\ d.offset + Reach(d, 1) < Product(shape)
    BY <1>1, <1>4, <2>1, <2>2
  <2>4. 1..Len(statuses) = {1, 2, 3, 4}
    OBVIOUS
  <2>5. statuses[1] = "ok" /\ statuses[2] = "ok" /\ statuses[3] = "ok" /\ statuses[4] = "ok"
    BY <2>3 DEF Must
  <2> HIDE DEF statuses
  <2>6. FirstStatus(statuses) = "ok"
    BY <2>4, <2>5, AllAreOk
  <2> QED
    BY <2>6 DEF ReachStatus, statuses
<1>6. ValidateArray(storages, d) = "ok"
  BY <1>1, <1>2, <1>4, <1>5, Validated
<1> QED
  BY <1>1, <1>3, <1>6 DEF Fits, d

-----------------------------------------------------------------------------
(* Heaps *)

\* What can be read is what fits.
LEMMA ReadableFits ==
    ASSUME NEW h, HeapTyped(h)
    PROVE  Readable(h) <=> \A name \in LiveIn(h) : Fits(h.storages, h.arrays[name])
<1>1. \A name \in LiveIn(h) : IsDescriptor(h.arrays[name])
  BY DEF HeapTyped, LiveIn
<1>2. ASSUME Readable(h), NEW name \in LiveIn(h) PROVE Fits(h.storages, h.arrays[name])
  BY <1>1, <1>2 DEF Readable, Fits
<1>3. ASSUME \A name \in LiveIn(h) : Fits(h.storages, h.arrays[name]) PROVE Readable(h)
  <2> SUFFICES ASSUME NEW name \in LiveIn(h)
               PROVE  /\ h.arrays[name].storage \in DOMAIN h.storages
                      /\ ValidateArray(h.storages, h.arrays[name]) = "ok"
                      /\ \A index \in 0..(Size(h.arrays[name]) - 1) :
                           LinearOffset(h.arrays[name], index)
                             \in 0..(Len(h.storages[h.arrays[name].storage].cells) - 1)
    BY DEF Readable
  <2> DEFINE d == h.arrays[name]
  <2>1. Fits(h.storages, d)
    BY <1>3
  <2>2. d.storage \in DOMAIN h.storages /\ ValidateArray(h.storages, d) = "ok" /\ IsDescriptor(d)
    BY <2>1 DEF Fits
  <2>3. d.storage # NoStorage /\ Len(h.storages[d.storage].cells) \in Nat
    <3> HIDE DEF d
    <3> QED
      BY <2>2 DEF HeapTyped, IsStorage, AreCells
  <2>4. \A index \in 0..(Size(d) - 1) :
          LinearOffset(d, index) \in 0..(Len(h.storages[d.storage].cells) - 1)
    <3> HIDE DEF d
    <3> QED
      BY <2>2, <2>3, ValidIsInside
  <2> QED
    BY <2>2, <2>4
<1> QED
  BY <1>2, <1>3

\* A new storage has a number no other has.
LEMMA NewStorageIsNew ==
    ASSUME NEW storages, IsFiniteSet(DOMAIN storages)
    PROVE  NewStorage(storages) \in Nat \ {NoStorage} /\ NewStorage(storages) \notin DOMAIN storages
<1> DEFINE taken == DOMAIN storages
           free == 1..(Cardinality(taken) + 1) \ taken
<1>1. Cardinality(taken) \in Nat
  BY FS_CardinalityType
<1>2. free # {}
  <2> SUFFICES ASSUME 1..(Cardinality(taken) + 1) \subseteq taken PROVE FALSE
    OBVIOUS
  <2> DEFINE count == Cardinality(taken)
  <2> HIDE DEF taken
  <2>1. Cardinality(1..(count + 1)) =< count
    BY FS_Subset DEF taken
  <2>2. Cardinality(1..(count + 1)) = count + 1
    <3>1. 1 \in Int /\ count + 1 \in Int /\ ~(1 > count + 1)
      BY <1>1
    <3>2. Cardinality(1..(count + 1)) = (count + 1) - 1 + 1
      BY <3>1, FS_Interval
    <3> QED
      BY <1>1, <3>2
  <2> QED
    BY <1>1, <2>1, <2>2
<1>3. free \subseteq Nat \ {0}
  BY <1>1
<1>4. Min(free) \in free
  <2> HIDE DEF free
  <2>1. PICK x \in free : \A y \in free : x =< y
    BY <1>2, <1>3, LeastElement
  <2> QED
    BY <2>1 DEF Min
<1> QED
  BY <1>3, <1>4 DEF NewStorage, NoStorage

\* Retaining once more counts once more.
LEMMA RetainedOnceMore ==
    ASSUME NEW retained \in Seq(Nat), NEW id \in Nat
    PROVE  /\ Append(retained, id) \in Seq(Nat)
           /\ \A other : TimesRetained(retained, other) \in Nat
           /\ TimesRetained(Append(retained, id), id) = TimesRetained(retained, id) + 1
           /\ \A other : other # id => TimesRetained(Append(retained, id), other) = TimesRetained(retained, other)
<1> DEFINE Held1(other) == {n \in DOMAIN retained : retained[n] = other}
           Held2(other) == {n \in DOMAIN Append(retained, id) : Append(retained, id)[n] = other}
<1>1. /\ DOMAIN retained = 1..Len(retained) /\ Len(retained) \in Nat
      /\ DOMAIN Append(retained, id) = 1..(Len(retained) + 1)
      /\ Append(retained, id)[Len(retained) + 1] = id
      /\ \A n \in 1..Len(retained) : Append(retained, id)[n] = retained[n]
  OBVIOUS
<1>2. \A other : IsFiniteSet(Held1(other)) /\ Cardinality(Held1(other)) \in Nat
  <2> TAKE other
  <2>1. IsFiniteSet(1..Len(retained))
    BY <1>1, FS_Interval
  <2>2. Held1(other) \subseteq 1..Len(retained)
    BY <1>1
  <2>3. IsFiniteSet(Held1(other))
    BY <2>1, <2>2, FS_Subset
  <2> QED
    BY <2>3, FS_CardinalityType
<1>3. Held2(id) = Held1(id) \cup {Len(retained) + 1} /\ Len(retained) + 1 \notin Held1(id)
  BY <1>1
<1>4. \A other : other # id => Held2(other) = Held1(other)
  BY <1>1
<1>5. Cardinality(Held2(id)) = Cardinality(Held1(id)) + 1
  <2> HIDE DEF Held1, Held2
  <2> QED
    BY <1>2, <1>3, FS_AddElement
<1>6. Append(retained, id) \in Seq(Nat)
  OBVIOUS
<1> QED
  BY <1>2, <1>4, <1>5, <1>6 DEF TimesRetained

\* The descriptors that look at a storage are counted.
LEMMA LooksAreFinite ==
    ASSUME NEW h, IsFiniteSet(DOMAIN h.arrays), NEW id
    PROVE  IsFiniteSet(LookAt(h, id)) /\ Cardinality(LookAt(h, id)) \in Nat
<1>1. LookAt(h, id) \subseteq DOMAIN h.arrays
  BY DEF LookAt, LiveIn
<1>2. IsFiniteSet(LookAt(h, id))
  BY <1>1, FS_Subset
<1> QED
  BY <1>2, FS_CardinalityType

\* What the arrays that are not in some names look at is what they looked at.
Keeps(h, h2, names) ==
  \A name \in LiveIn(h) \ names :
    /\ h2.arrays[name] = h.arrays[name]
    /\ h.arrays[name].storage \in DOMAIN h2.storages
    /\ h2.storages[h.arrays[name].storage].cells = h.storages[h.arrays[name].storage].cells

\* A heap after a call has the names and the buffers it had.
SameNames(h, h2) == DOMAIN h2.arrays = DOMAIN h.arrays /\ DOMAIN h2.deleted = DOMAIN h.deleted

\* A buffer is the library's own, or one it was not given before.
Given(h, buffer, adopted, adopted2) ==
  \/ buffer = Internal /\ adopted2 = adopted
  \/ buffer # Internal /\ buffer \in DOMAIN h.deleted /\ buffer \notin adopted
       /\ adopted2 = adopted \cup {buffer}

\* A new storage is counted once: by who made it, for now.
LEMMA WithStorageSound ==
    ASSUME NEW h, NEW adopted, NEW retained \in Seq(Nat), HeapSound(h, adopted, retained),
           NEW cells, AreCells(cells), NEW buffer, NEW adopted2,
           Given(h, buffer, adopted, adopted2),
           NEW id, id = NewStorage(h.storages),
           NEW h2, h2 = WithStorage(h, id, cells, buffer)
    PROVE  /\ HeapSound(h2, adopted2, Append(retained, id))
           /\ SameNames(h, h2) /\ Keeps(h, h2, {}) /\ h2.arrays = h.arrays
           /\ id \in Nat \ {NoStorage} /\ id \in DOMAIN h2.storages
           /\ h2.storages[id].cells = cells
           /\ \A other \in DOMAIN h.storages :
                other \in DOMAIN h2.storages /\ h2.storages[other] = h.storages[other]
<1> \/ buffer = Internal /\ adopted2 = adopted
    \/ buffer # Internal /\ buffer \in DOMAIN h.deleted /\ buffer \notin adopted
         /\ adopted2 = adopted \cup {buffer}
  BY DEF Given
<1>1. /\ h = [arrays |-> h.arrays, storages |-> h.storages, deleted |-> h.deleted]
      /\ h.arrays = [name \in DOMAIN h.arrays |-> h.arrays[name]]
      /\ IsFiniteSet(DOMAIN h.arrays)
      /\ IsFiniteSet(DOMAIN h.storages) /\ DOMAIN h.storages \subseteq Nat \ {NoStorage}
  BY DEF HeapSound, HeapTyped
<1>2. id \in Nat \ {NoStorage} /\ id \notin DOMAIN h.storages
  BY <1>1, NewStorageIsNew
<1> DEFINE new == [cells |-> cells, references |-> 1, buffer |-> buffer]
<1>3. h2 = [arrays |-> h.arrays, deleted |-> h.deleted,
            storages |-> [other \in DOMAIN h.storages \cup {id} |-> IF other = id THEN new ELSE h.storages[other]]]
  BY <1>1 DEF WithStorage
<1>4. /\ h2 = [arrays |-> h2.arrays, storages |-> h2.storages, deleted |-> h2.deleted]
      /\ h2.arrays = h.arrays /\ h2.deleted = h.deleted
      /\ h2.storages = [other \in DOMAIN h2.storages |-> h2.storages[other]]
      /\ DOMAIN h2.storages = DOMAIN h.storages \cup {id}
      /\ h2.storages[id] = new
      /\ \A other \in DOMAIN h.storages : h2.storages[other] = h.storages[other]
  BY <1>2, <1>3
<1>5. new.cells = cells /\ new.references = 1 /\ new.buffer = buffer
  OBVIOUS
<1>6. HeapTyped(h2)
  <2>1. IsFiniteSet(DOMAIN h2.storages) /\ DOMAIN h2.storages \subseteq Nat \ {NoStorage}
    <3> DEFINE taken == DOMAIN h.storages
    <3>1. DOMAIN h2.storages = taken \cup {id} /\ IsFiniteSet(taken)
      BY <1>1, <1>4
    <3>2. DOMAIN h2.storages \subseteq Nat \ {NoStorage}
      BY <1>1, <1>2, <3>1
    <3> HIDE DEF taken
    <3>3. IsFiniteSet(taken \cup {id})
      BY <3>1, FS_AddElement
    <3> QED
      BY <3>1, <3>2, <3>3
  <2>2. IsStorage(new)
    BY <1>5 DEF IsStorage
  <2> HIDE DEF new
  <2>3. \A other \in DOMAIN h2.storages :
          IsStorage(h2.storages[other]) /\ h2.storages[other].buffer \in {Internal} \cup DOMAIN h2.deleted
    BY <1>4, <1>5, <2>2 DEF HeapSound, HeapTyped
  <2> QED
    BY <1>1, <1>4, <2>1, <2>3 DEF HeapSound, HeapTyped
<1> HIDE DEF new
<1>7. LiveIn(h2) = LiveIn(h) /\ \A other : LookAt(h2, other) = LookAt(h, other)
  BY <1>4 DEF LiveIn, LookAt
<1>8. \A name \in LiveIn(h) : Fits(h.storages, h.arrays[name])
  BY ReadableFits DEF HeapSound
<1>9. Readable(h2)
  <2>1. ASSUME NEW name \in LiveIn(h2) PROVE Fits(h2.storages, h2.arrays[name])
    <3> DEFINE d == h.arrays[name]
    <3>1. Fits(h.storages, d) /\ h2.arrays[name] = d
      BY <1>4, <1>7, <1>8
    <3>2. d.storage \in DOMAIN h.storages
      BY <3>1 DEF Fits
    <3>3. d.storage # NoStorage /\ d.storage \in DOMAIN h2.storages
            /\ h2.storages[d.storage] = h.storages[d.storage]
      BY <1>1, <1>4, <3>2
    <3> HIDE DEF d
    <3> QED
      BY <3>1, <3>3, FitsKept
  <2> QED
    BY <1>6, <2>1, ReadableFits
<1>10. LookAt(h, id) = {}
  <2> SUFFICES ASSUME NEW name \in LiveIn(h), h.arrays[name].storage = id PROVE FALSE
    BY DEF LookAt
  <2> QED
    BY <1>2, <1>8 DEF Fits
<1>11. TimesRetained(retained, id) = 0
  <2>1. {n \in DOMAIN retained : retained[n] = id} = {}
    BY <1>2 DEF HeapSound, HeldOnce
  <2> QED
    BY <2>1, FS_EmptySet DEF TimesRetained
<1>12. Counted(h2, Append(retained, id))
  <2> SUFFICES ASSUME NEW other \in DOMAIN h2.storages
               PROVE  /\ h2.storages[other].references =
                           Cardinality(LookAt(h2, other)) + TimesRetained(Append(retained, id), other)
                      /\ h2.storages[other].references > 0
    BY DEF Counted
  <2>1. CASE other = id
    <3>1. Cardinality(LookAt(h2, other)) = 0
      BY <1>7, <1>10, <2>1, FS_EmptySet
    <3>2. TimesRetained(Append(retained, id), other) = 1
      BY <1>2, <1>11, <2>1, RetainedOnceMore
    <3> QED
      BY <1>4, <1>5, <2>1, <3>1, <3>2
  <2>2. CASE other # id
    <3>1. other \in DOMAIN h.storages
      BY <1>4, <2>2
    <3>2. TimesRetained(Append(retained, id), other) = TimesRetained(retained, other)
      BY <1>2, <2>2, RetainedOnceMore
    <3> QED
      BY <1>4, <1>7, <3>1, <3>2 DEF HeapSound, Counted
  <2> QED
    BY <2>1, <2>2
<1>13. \A b : b # buffer => HeldBy(h2, b) = HeldBy(h, b)
  BY <1>2, <1>4, <1>5 DEF HeldBy
<1>14. CASE buffer = Internal /\ adopted2 = adopted
  <2>1. DeletedOnce(h2, adopted2)
    BY <1>4, <1>13, <1>14 DEF DeletedOnce, HeapSound
  <2>2. HeldOnce(h2, adopted2, Append(retained, id))
    <3>1. ASSUME NEW other \in DOMAIN h2.storages, h2.storages[other].buffer # Internal
          PROVE  h2.storages[other].buffer \in adopted2 /\ HeldBy(h2, h2.storages[other].buffer) = {other}
      <4>1. other \in DOMAIN h.storages /\ h2.storages[other] = h.storages[other]
        BY <1>4, <1>5, <1>14, <3>1
      <4> QED
        BY <1>13, <1>14, <3>1, <4>1 DEF HeapSound, HeldOnce
    <3>2. \A n \in DOMAIN Append(retained, id) : Append(retained, id)[n] \in DOMAIN h2.storages
      <4>1. \A n \in DOMAIN retained : retained[n] \in DOMAIN h2.storages
        BY <1>4 DEF HeapSound, HeldOnce
      <4>2. id \in DOMAIN h2.storages
        BY <1>4
      <4> QED
        BY <4>1, <4>2
    <3> QED
      BY <3>1, <3>2 DEF HeldOnce
  <2> QED
    BY <1>2, <1>4, <1>5, <1>6, <1>9, <1>12, <2>1, <2>2, <1>8 DEF HeapSound, SameNames, Keeps, Fits
<1>15. CASE /\ buffer # Internal /\ buffer \in DOMAIN h.deleted /\ buffer \notin adopted
            /\ adopted2 = adopted \cup {buffer}
  <2>1. HeldBy(h, buffer) = {}
    BY <1>15 DEF HeldBy, HeapSound, HeldOnce
  <2>2. HeldBy(h2, buffer) = {id}
    BY <1>2, <1>4, <1>5, <2>1 DEF HeldBy
  <2>3. DeletedOnce(h2, adopted2)
    <3> SUFFICES ASSUME NEW b \in DOMAIN h2.deleted \ {Internal}
                 PROVE  h2.deleted[b] = IF b \in adopted2 /\ HeldBy(h2, b) = {} THEN 1 ELSE 0
      BY DEF DeletedOnce
    <3>1. h.deleted[b] = IF b \in adopted /\ HeldBy(h, b) = {} THEN 1 ELSE 0
      BY <1>4 DEF HeapSound, DeletedOnce
    <3> QED
      BY <1>4, <1>13, <1>15, <2>2, <3>1
  <2>4. HeldOnce(h2, adopted2, Append(retained, id))
    <3>1. ASSUME NEW other \in DOMAIN h2.storages, h2.storages[other].buffer # Internal
          PROVE  h2.storages[other].buffer \in adopted2 /\ HeldBy(h2, h2.storages[other].buffer) = {other}
      <4>1. CASE other = id
        BY <1>4, <1>5, <1>15, <2>2, <4>1
      <4>2. CASE other # id
        <5>1. other \in DOMAIN h.storages /\ h2.storages[other] = h.storages[other]
          BY <1>4, <4>2
        <5>2. h.storages[other].buffer \in adopted /\ HeldBy(h, h.storages[other].buffer) = {other}
          BY <3>1, <5>1 DEF HeapSound, HeldOnce
        <5> QED
          BY <1>13, <1>15, <5>1, <5>2
      <4> QED
        BY <4>1, <4>2
    <3>2. \A n \in DOMAIN Append(retained, id) : Append(retained, id)[n] \in DOMAIN h2.storages
      <4>1. \A n \in DOMAIN retained : retained[n] \in DOMAIN h2.storages
        BY <1>4 DEF HeapSound, HeldOnce
      <4>2. id \in DOMAIN h2.storages
        BY <1>4
      <4> QED
        BY <4>1, <4>2
    <3> QED
      BY <3>1, <3>2 DEF HeldOnce
  <2> QED
    BY <1>2, <1>4, <1>5, <1>6, <1>9, <1>12, <2>3, <2>4, <1>8 DEF HeapSound, SameNames, Keeps, Fits
<1> QED
  BY <1>14, <1>15

\* Retaining a storage counts it once more.
LEMMA StorageRetainSound ==
    ASSUME NEW h, NEW adopted, NEW retained \in Seq(Nat), HeapSound(h, adopted, retained),
           NEW id \in DOMAIN h.storages, NEW h2, h2 = StorageRetain(h, id)
    PROVE  /\ HeapSound(h2, adopted, Append(retained, id))
           /\ SameNames(h, h2) /\ Keeps(h, h2, {}) /\ h2.arrays = h.arrays
           /\ DOMAIN h2.storages = DOMAIN h.storages
           /\ \A other \in DOMAIN h.storages : h2.storages[other].cells = h.storages[other].cells
<1>1. /\ h = [arrays |-> h.arrays, storages |-> h.storages, deleted |-> h.deleted]
      /\ h.storages = [other \in DOMAIN h.storages |-> h.storages[other]]
      /\ DOMAIN h.storages \subseteq Nat \ {NoStorage}
      /\ \A other \in DOMAIN h.storages : IsStorage(h.storages[other])
  BY DEF HeapSound, HeapTyped
<1>2. id \in Nat \ {NoStorage} /\ IsStorage(h.storages[id])
  BY <1>1
<1> DEFINE new == [h.storages[id] EXCEPT !.references = @ + 1]
<1>3. h2 = [arrays |-> h.arrays, deleted |-> h.deleted, storages |-> [h.storages EXCEPT ![id] = new]]
  BY <1>1 DEF StorageRetain
<1>4. /\ new = [cells |-> new.cells, references |-> new.references, buffer |-> new.buffer]
      /\ new.cells = h.storages[id].cells /\ new.buffer = h.storages[id].buffer
      /\ new.references = h.storages[id].references + 1
  BY <1>2 DEF IsStorage
<1> HIDE DEF new
<1>5. /\ h2 = [arrays |-> h2.arrays, storages |-> h2.storages, deleted |-> h2.deleted]
      /\ h2.arrays = h.arrays /\ h2.deleted = h.deleted
      /\ h2.storages = [other \in DOMAIN h2.storages |-> h2.storages[other]]
      /\ DOMAIN h2.storages = DOMAIN h.storages
      /\ h2.storages[id] = new
      /\ \A other \in DOMAIN h.storages : other # id => h2.storages[other] = h.storages[other]
  BY <1>1, <1>3
<1>6. /\ \A other \in DOMAIN h.storages :
           /\ h2.storages[other].cells = h.storages[other].cells
           /\ h2.storages[other].buffer = h.storages[other].buffer
  BY <1>4, <1>5
<1>7. HeapTyped(h2)
  <2>1. IsStorage(new)
    BY <1>2, <1>4 DEF IsStorage
  <2>2. \A other \in DOMAIN h2.storages :
          IsStorage(h2.storages[other]) /\ h2.storages[other].buffer \in {Internal} \cup DOMAIN h2.deleted
    BY <1>5, <1>6, <2>1 DEF HeapSound, HeapTyped
  <2> QED
    BY <1>5, <2>2 DEF HeapSound, HeapTyped
<1>8. LiveIn(h2) = LiveIn(h) /\ \A other : LookAt(h2, other) = LookAt(h, other)
  BY <1>5 DEF LiveIn, LookAt
<1>9. \A name \in LiveIn(h) : Fits(h.storages, h.arrays[name])
  BY ReadableFits DEF HeapSound
<1>10. Readable(h2)
  <2>1. ASSUME NEW name \in LiveIn(h2) PROVE Fits(h2.storages, h2.arrays[name])
    <3> DEFINE d == h.arrays[name]
    <3>1. Fits(h.storages, d) /\ h2.arrays[name] = d
      BY <1>5, <1>8, <1>9
    <3>2. d.storage \in DOMAIN h.storages
      BY <3>1 DEF Fits
    <3>3. d.storage # NoStorage /\ d.storage \in DOMAIN h2.storages
            /\ h2.storages[d.storage].cells = h.storages[d.storage].cells
      BY <1>1, <1>5, <1>6, <3>2
    <3> HIDE DEF d
    <3> QED
      BY <3>1, <3>3, FitsKept
  <2> QED
    BY <1>7, <2>1, ReadableFits
<1>11. Counted(h2, Append(retained, id))
  <2> SUFFICES ASSUME NEW other \in DOMAIN h2.storages
               PROVE  /\ h2.storages[other].references =
                           Cardinality(LookAt(h2, other)) + TimesRetained(Append(retained, id), other)
                      /\ h2.storages[other].references > 0
    BY DEF Counted
  <2>1. /\ h.storages[other].references = Cardinality(LookAt(h, other)) + TimesRetained(retained, other)
        /\ h.storages[other].references > 0
        /\ LookAt(h2, other) = LookAt(h, other)
    BY <1>5, <1>8 DEF HeapSound, Counted
  <2>2. Cardinality(LookAt(h, other)) \in Nat /\ TimesRetained(retained, other) \in Nat
    BY <1>2, LooksAreFinite, RetainedOnceMore DEF HeapSound, HeapTyped
  <2>3. CASE other = id
    <3>1. TimesRetained(Append(retained, id), other) = TimesRetained(retained, other) + 1
      BY <1>2, <2>3, RetainedOnceMore
    <3>2. h2.storages[other].references = h.storages[other].references + 1
      BY <1>4, <1>5, <2>3
    <3> QED
      BY <2>1, <2>2, <3>1, <3>2
  <2>4. CASE other # id
    <3>1. TimesRetained(Append(retained, id), other) = TimesRetained(retained, other)
      BY <1>2, <2>4, RetainedOnceMore
    <3>2. h2.storages[other] = h.storages[other]
      BY <1>5, <2>4
    <3> QED
      BY <2>1, <3>1, <3>2
  <2> QED
    BY <2>3, <2>4
<1>12. \A b : HeldBy(h2, b) = HeldBy(h, b)
  BY <1>5, <1>6 DEF HeldBy
<1>13. DeletedOnce(h2, adopted)
  BY <1>5, <1>12 DEF DeletedOnce, HeapSound
<1>14. HeldOnce(h2, adopted, Append(retained, id))
  <2>1. \A other \in DOMAIN h2.storages :
          h2.storages[other].buffer # Internal =>
            h2.storages[other].buffer \in adopted /\ HeldBy(h2, h2.storages[other].buffer) = {other}
    <3> TAKE other \in DOMAIN h2.storages
    <3> DEFINE b == h.storages[other].buffer
    <3>1. other \in DOMAIN h.storages /\ h2.storages[other].buffer = b /\ HeldBy(h2, b) = HeldBy(h, b)
      BY <1>5, <1>6, <1>12
    <3>2. b # Internal => b \in adopted /\ HeldBy(h, b) = {other}
      BY <3>1 DEF HeapSound, HeldOnce
    <3> HIDE DEF b
    <3> QED
      BY <3>1, <3>2
  <2>2. \A n \in DOMAIN Append(retained, id) : Append(retained, id)[n] \in DOMAIN h2.storages
    <3>1. \A n \in DOMAIN retained : retained[n] \in DOMAIN h2.storages
      BY <1>5 DEF HeapSound, HeldOnce
    <3>2. id \in DOMAIN h2.storages
      BY <1>5
    <3> QED
      BY <3>1, <3>2
  <2> QED
    BY <2>1, <2>2 DEF HeldOnce
<1>15. SameNames(h, h2) /\ Keeps(h, h2, {})
  BY <1>5, <1>6, <1>9 DEF SameNames, Keeps, Fits
<1> QED
  BY <1>5, <1>6, <1>7, <1>10, <1>11, <1>13, <1>14, <1>15 DEF HeapSound

\* What a release leaves of a heap, when a storage was looked at.
Left(h, name, id, s, h2) ==
  /\ h2 = [arrays |-> h2.arrays, storages |-> h2.storages, deleted |-> h2.deleted]
  /\ h2.arrays = [h.arrays EXCEPT ![name] = NoArray]
  /\ h2.storages = [other \in DOMAIN h2.storages |-> h2.storages[other]]
  /\ \A other \in DOMAIN h.storages \ {id} :
       other \in DOMAIN h2.storages /\ h2.storages[other] = h.storages[other]
  /\ s.references > 1 =>
       /\ DOMAIN h2.storages = DOMAIN h.storages /\ h2.deleted = h.deleted
       /\ h2.storages[id] = [cells |-> s.cells, references |-> s.references - 1, buffer |-> s.buffer]
  /\ ~(s.references > 1) =>
       /\ DOMAIN h2.storages = DOMAIN h.storages \ {id}
       /\ h2.deleted = [h.deleted EXCEPT ![s.buffer] =
                          IF s.buffer = Internal THEN h.deleted[s.buffer]
                          ELSE h.deleted[s.buffer] + 1]

\* A descriptor released leaves what the count of its storage says.
LEMMA ReleaseLeaves ==
    ASSUME NEW h, HeapTyped(h), NEW name \in DOMAIN h.arrays,
           NEW id \in DOMAIN h.storages, id = h.arrays[name].storage, id # NoStorage,
           NEW s, s = h.storages[id], NEW h2, h2 = Release(h, name)
    PROVE  Left(h, name, id, s, h2)
<1> DEFINE h1 == StorageRelease(h, id)
<1>1. /\ h = [arrays |-> h.arrays, storages |-> h.storages, deleted |-> h.deleted]
      /\ h.storages = [other \in DOMAIN h.storages |-> h.storages[other]]
      /\ IsStorage(s)
  BY DEF HeapTyped
<1>2. id # NoStorage /\ id \in DOMAIN h.storages
  OBVIOUS
<1>3. h2 = [h1 EXCEPT !.arrays[name] = NoArray]
  BY DEF Release
<1>4. CASE s.references > 1
  <2>1. h1 = [h EXCEPT !.storages[id].references = @ - 1]
    BY <1>2, <1>4 DEF StorageRelease
  <2>2. h1 = [arrays |-> h.arrays, deleted |-> h.deleted,
              storages |-> [h.storages EXCEPT ![id] = [s EXCEPT !.references = @ - 1]]]
    BY <1>1, <2>1
  <2>3. [s EXCEPT !.references = @ - 1] = [cells |-> s.cells, references |-> s.references - 1, buffer |-> s.buffer]
    BY <1>1 DEF IsStorage
  <2> DEFINE new == [cells |-> s.cells, references |-> s.references - 1, buffer |-> s.buffer]
  <2>4. h1 = [arrays |-> h.arrays, deleted |-> h.deleted, storages |-> [h.storages EXCEPT ![id] = new]]
    BY <2>2, <2>3
  <2> HIDE DEF new, h1
  <2>5. h2 = [arrays |-> [h.arrays EXCEPT ![name] = NoArray], deleted |-> h.deleted,
              storages |-> [h.storages EXCEPT ![id] = new]]
    BY <1>3, <2>4
  <2>6. /\ h2.arrays = [h.arrays EXCEPT ![name] = NoArray] /\ h2.deleted = h.deleted
        /\ h2.storages = [h.storages EXCEPT ![id] = new]
        /\ h2 = [arrays |-> h2.arrays, storages |-> h2.storages, deleted |-> h2.deleted]
    BY <2>5
  <2>7. /\ h2.storages = [other \in DOMAIN h2.storages |-> h2.storages[other]]
        /\ DOMAIN h2.storages = DOMAIN h.storages
        /\ h2.storages[id] = new
        /\ \A other \in DOMAIN h.storages \ {id} : h2.storages[other] = h.storages[other]
    BY <1>1, <1>2, <2>6
  <2> QED
    BY <1>4, <2>6, <2>7 DEF new, Left
<1>5. CASE ~(s.references > 1)
  <2> DEFINE left == [other \in DOMAIN h.storages \ {id} |-> h.storages[other]]
             runs == [h.deleted EXCEPT ![s.buffer] =
                        IF s.buffer = Internal THEN h.deleted[s.buffer] ELSE h.deleted[s.buffer] + 1]
  <2>1. h1 = [h EXCEPT !.storages = left,
                       !.deleted[s.buffer] = IF s.buffer = Internal THEN @ ELSE @ + 1]
    BY <1>2, <1>5 DEF StorageRelease
  <2>2. h1 = [arrays |-> h.arrays, deleted |-> runs, storages |-> left]
    BY <1>1, <2>1
  <2> HIDE DEF h1, left, runs
  <2>3. h2 = [arrays |-> [h.arrays EXCEPT ![name] = NoArray], deleted |-> runs, storages |-> left]
    BY <1>3, <2>2
  <2>4. /\ h2.arrays = [h.arrays EXCEPT ![name] = NoArray] /\ h2.deleted = runs
        /\ h2.storages = left
        /\ h2 = [arrays |-> h2.arrays, storages |-> h2.storages, deleted |-> h2.deleted]
    BY <2>3
  <2>5. /\ h2.storages = [other \in DOMAIN h2.storages |-> h2.storages[other]]
        /\ DOMAIN h2.storages = DOMAIN h.storages \ {id}
        /\ \A other \in DOMAIN h.storages \ {id} : h2.storages[other] = h.storages[other]
    BY <2>4 DEF left
  <2> QED
    BY <1>5, <2>4, <2>5 DEF runs, Left
<1> QED
  BY <1>4, <1>5

\* No storage is new, and none has other cells.
CellsFrom(h, h2) ==
  \A other \in DOMAIN h2.storages :
    other \in DOMAIN h.storages /\ h2.storages[other].cells = h.storages[other].cells

\* A release takes back one count, and the storage with the last one.
LEMMA ReleaseSound ==
    ASSUME NEW h, NEW adopted, NEW retained \in Seq(Nat), HeapSound(h, adopted, retained),
           NEW name \in DOMAIN h.arrays, NEW h2, h2 = Release(h, name)
    PROVE  /\ HeapSound(h2, adopted, retained)
           /\ SameNames(h, h2) /\ Keeps(h, h2, {name})
           /\ h2.arrays = [h.arrays EXCEPT ![name] = NoArray] /\ CellsFrom(h, h2)
<1> DEFINE id == h.arrays[name].storage
           s == h.storages[id]
<1>1. HeapTyped(h) /\ Readable(h) /\ Counted(h, retained) /\ DeletedOnce(h, adopted)
        /\ HeldOnce(h, adopted, retained)
  BY DEF HeapSound
<1>2. /\ h = [arrays |-> h.arrays, storages |-> h.storages, deleted |-> h.deleted]
      /\ h.arrays = [n \in DOMAIN h.arrays |-> h.arrays[n]]
      /\ IsFiniteSet(DOMAIN h.arrays) /\ IsFiniteSet(DOMAIN h.storages)
      /\ DOMAIN h.storages \subseteq Nat \ {NoStorage}
      /\ h.deleted \in [DOMAIN h.deleted -> Nat]
  BY <1>1 DEF HeapTyped
<1>3. \A n \in LiveIn(h) : Fits(h.storages, h.arrays[n]) /\ h.arrays[n].storage \in DOMAIN h.storages
  BY <1>1, ReadableFits DEF Fits
<1>4. NoArray.storage = NoStorage
  BY DEF NoArray
<1>5. CASE id = NoStorage
  <2>1. name \notin LiveIn(h)
    BY <1>2, <1>3, <1>5
  <2>2. h.arrays[name] = NoArray
    BY <2>1 DEF LiveIn
  <2>3. [h.arrays EXCEPT ![name] = NoArray] = h.arrays
    BY <1>2, <2>2
  <2>4. h2 = [h EXCEPT !.arrays[name] = NoArray]
    BY <1>5 DEF Release, StorageRelease
  <2>5. h2 = h
    BY <1>2, <2>3, <2>4
  <2> QED
    BY <1>3, <2>3, <2>5 DEF SameNames, Keeps, CellsFrom
<1>6. CASE id # NoStorage
  <2>1. name \in LiveIn(h)
    BY <1>4, <1>6 DEF LiveIn
  <2>2. id \in DOMAIN h.storages /\ IsStorage(s) /\ s.buffer \in {Internal} \cup DOMAIN h.deleted
    BY <1>1, <1>3, <2>1 DEF HeapTyped
  <2>3. /\ h2 = [arrays |-> h2.arrays, storages |-> h2.storages, deleted |-> h2.deleted]
        /\ h2.arrays = [h.arrays EXCEPT ![name] = NoArray]
        /\ h2.storages = [other \in DOMAIN h2.storages |-> h2.storages[other]]
        /\ \A other \in DOMAIN h.storages \ {id} :
             other \in DOMAIN h2.storages /\ h2.storages[other] = h.storages[other]
        /\ s.references > 1 =>
             /\ DOMAIN h2.storages = DOMAIN h.storages /\ h2.deleted = h.deleted
             /\ h2.storages[id] = [cells |-> s.cells, references |-> s.references - 1, buffer |-> s.buffer]
        /\ ~(s.references > 1) =>
             /\ DOMAIN h2.storages = DOMAIN h.storages \ {id}
             /\ h2.deleted = [h.deleted EXCEPT ![s.buffer] =
                                IF s.buffer = Internal THEN h.deleted[s.buffer]
                                ELSE h.deleted[s.buffer] + 1]
    <3>1. HeapTyped(h) /\ id # NoStorage /\ id \in DOMAIN h.storages /\ h2 = Release(h, name)
            /\ id = h.arrays[name].storage /\ s = h.storages[id]
      BY <1>1, <1>6, <2>2
    <3> HIDE DEF id, s
    <3>2. Left(h, name, id, s, h2)
      BY ONLY <3>1, name \in DOMAIN h.arrays, ReleaseLeaves
    <3> QED
      BY ONLY <3>2 DEF Left
  <2> HIDE DEF id, s
  <2>4. /\ h2.arrays = [n \in DOMAIN h2.arrays |-> h2.arrays[n]]
        /\ DOMAIN h2.arrays = DOMAIN h.arrays
        /\ h2.arrays[name] = NoArray
        /\ \A n \in DOMAIN h.arrays : n # name => h2.arrays[n] = h.arrays[n]
    BY <1>2, <2>3
  <2>5. /\ LiveIn(h2) = LiveIn(h) \ {name}
        /\ LookAt(h2, id) = LookAt(h, id) \ {name} /\ name \in LookAt(h, id)
        /\ \A other : other # id => LookAt(h2, other) = LookAt(h, other)
    <3>1. LiveIn(h2) = LiveIn(h) \ {name}
      BY <2>4 DEF LiveIn
    <3>2. \A n \in LiveIn(h2) : h2.arrays[n] = h.arrays[n]
      BY <2>4, <3>1 DEF LiveIn
    <3>3. h.arrays[name].storage = id
      BY DEF id
    <3> QED
      BY <2>1, <3>1, <3>2, <3>3 DEF LookAt
  <2>6. IsDescriptor(NoArray)
    <3>1. <<>> \in Seq(Nat) /\ <<>> \in Seq(Int) /\ 0 \in Int /\ 0 \in Nat
      OBVIOUS
    <3> QED
      BY <3>1 DEF IsDescriptor, NoArray, NoStorage
  <2>7. \A n \in DOMAIN h2.arrays : IsDescriptor(h2.arrays[n])
    BY <1>1, <2>4, <2>6 DEF HeapTyped
  <2>8. /\ s.references = Cardinality(LookAt(h, id)) + TimesRetained(retained, id) /\ s.references > 0
        /\ s.references \in Nat
    BY <1>1, <2>2 DEF Counted, s, IsStorage
  <2>9. /\ IsFiniteSet(LookAt(h, id)) /\ Cardinality(LookAt(h, id)) \in Nat
        /\ Cardinality(LookAt(h2, id)) = Cardinality(LookAt(h, id)) - 1
        /\ Cardinality(LookAt(h2, id)) \in Nat /\ TimesRetained(retained, id) \in Nat
    <3>1. IsFiniteSet(LookAt(h, id)) /\ Cardinality(LookAt(h, id)) \in Nat
      BY <1>2, LooksAreFinite
    <3>2. Cardinality(LookAt(h2, id)) = Cardinality(LookAt(h, id)) - 1
      BY <2>5, <3>1, FS_RemoveElement
    <3>3. IsFiniteSet(DOMAIN h2.arrays)
      BY <1>2, <2>4
    <3>4. Cardinality(LookAt(h2, id)) \in Nat
      BY <3>3, LooksAreFinite
    <3>5. TimesRetained(retained, id) \in Nat
      <4>1. id \in Nat
        BY <1>2, <2>2
      <4> QED
        BY <4>1, RetainedOnceMore
    <3> QED
      BY <3>1, <3>2, <3>4, <3>5
  <2>10. SameNames(h, h2)
    BY <2>3, <2>4 DEF SameNames
  <2>11. CASE s.references > 1
    <3>1. /\ DOMAIN h2.storages = DOMAIN h.storages /\ h2.deleted = h.deleted
          /\ h2.storages[id] = [cells |-> s.cells, references |-> s.references - 1, buffer |-> s.buffer]
      BY <2>3, <2>11
    <3>2. \A other \in DOMAIN h.storages :
            /\ h2.storages[other].cells = h.storages[other].cells
            /\ h2.storages[other].buffer = h.storages[other].buffer
      BY <2>3, <3>1 DEF s
    <3>3. IsStorage(h2.storages[id])
      BY <2>2, <2>8, <2>11, <3>1 DEF IsStorage
    <3>4. \A other \in DOMAIN h2.storages :
            IsStorage(h2.storages[other]) /\ h2.storages[other].buffer \in {Internal} \cup DOMAIN h2.deleted
      <4> TAKE other \in DOMAIN h2.storages
      <4>1. IsStorage(h.storages[other]) /\ h.storages[other].buffer \in {Internal} \cup DOMAIN h.deleted
        BY <1>1, <3>1 DEF HeapTyped
      <4>2. other # id => h2.storages[other] = h.storages[other]
        BY <2>3, <3>1
      <4> QED
        BY <3>1, <3>2, <3>3, <4>1, <4>2
    <3>5. HeapTyped(h2)
      BY <1>2, <2>3, <2>4, <2>7, <3>1, <3>4 DEF HeapTyped
    <3>6. ASSUME NEW n \in LiveIn(h2) PROVE Fits(h2.storages, h2.arrays[n])
      <4> DEFINE d == h.arrays[n]
      <4>1. Fits(h.storages, d) /\ d.storage \in DOMAIN h.storages /\ h2.arrays[n] = d
        BY <1>3, <2>4, <2>5 DEF LiveIn
      <4> HIDE DEF d
      <4>2. d.storage # NoStorage /\ d.storage \in DOMAIN h2.storages
              /\ h2.storages[d.storage].cells = h.storages[d.storage].cells
        BY <1>2, <3>1, <3>2, <4>1
      <4> QED
        BY <4>1, <4>2, FitsKept
    <3>7. Readable(h2)
      BY <3>5, <3>6, ReadableFits
    <3>8. Counted(h2, retained)
      <4> SUFFICES ASSUME NEW other \in DOMAIN h2.storages
                   PROVE  /\ h2.storages[other].references =
                               Cardinality(LookAt(h2, other)) + TimesRetained(retained, other)
                          /\ h2.storages[other].references > 0
        BY DEF Counted
      <4>1. CASE other = id
        BY <2>8, <2>9, <2>11, <3>1, <4>1
      <4>2. CASE other # id
        BY <1>1, <2>3, <2>5, <3>1, <4>2 DEF Counted
      <4> QED
        BY <4>1, <4>2
    <3>9. \A b : HeldBy(h2, b) = HeldBy(h, b)
      BY <3>1, <3>2 DEF HeldBy
    <3>10. DeletedOnce(h2, adopted)
      BY <1>1, <3>1, <3>9 DEF DeletedOnce
    <3>11. HeldOnce(h2, adopted, retained)
      <4>1. ASSUME NEW other \in DOMAIN h2.storages, h2.storages[other].buffer # Internal
            PROVE  h2.storages[other].buffer \in adopted /\ HeldBy(h2, h2.storages[other].buffer) = {other}
        <5> DEFINE b == h.storages[other].buffer
        <5>1. other \in DOMAIN h.storages /\ h2.storages[other].buffer = b /\ HeldBy(h2, b) = HeldBy(h, b)
          BY <3>1, <3>2, <3>9
        <5>2. b # Internal => b \in adopted /\ HeldBy(h, b) = {other}
          BY <1>1, <5>1 DEF HeldOnce
        <5> HIDE DEF b
        <5> QED
          BY <4>1, <5>1, <5>2
      <4> QED
        BY <1>1, <3>1, <4>1 DEF HeldOnce
    <3>12. Keeps(h, h2, {name})
      BY <1>3, <2>4, <3>1, <3>2 DEF Keeps, LiveIn
    <3> QED
      BY <2>3, <2>10, <3>1, <3>2, <3>5, <3>7, <3>8, <3>10, <3>11, <3>12 DEF HeapSound, CellsFrom
  <2>12. CASE ~(s.references > 1)
    <3>1. /\ DOMAIN h2.storages = DOMAIN h.storages \ {id}
          /\ h2.deleted = [h.deleted EXCEPT ![s.buffer] =
                             IF s.buffer = Internal THEN h.deleted[s.buffer] ELSE h.deleted[s.buffer] + 1]
      BY <2>3, <2>12
    <3>2. \A other \in DOMAIN h2.storages : other \in DOMAIN h.storages /\ h2.storages[other] = h.storages[other]
      BY <2>3, <3>1
    <3>3. LookAt(h2, id) = {} /\ TimesRetained(retained, id) = 0
      <4>1. Cardinality(LookAt(h2, id)) = 0 /\ TimesRetained(retained, id) = 0
        BY <2>8, <2>9, <2>12
      <4>2. IsFiniteSet(LookAt(h2, id))
        BY <2>5, <2>9, FS_RemoveElement
      <4> QED
        BY <4>1, <4>2, FS_EmptySet
    <3>4. DOMAIN h2.deleted = DOMAIN h.deleted /\ h2.deleted \in [DOMAIN h2.deleted -> Nat]
      <4>1. s.buffer \in DOMAIN h.deleted => h.deleted[s.buffer] \in Nat /\ h.deleted[s.buffer] + 1 \in Nat
        BY <1>2
      <4> QED
        BY <1>2, <3>1, <4>1
    <3>5. HeapTyped(h2)
      <4>1. IsFiniteSet(DOMAIN h2.storages) /\ DOMAIN h2.storages \subseteq Nat \ {NoStorage}
        <5>1. DOMAIN h2.storages \subseteq DOMAIN h.storages
          BY <3>1
        <5> QED
          BY <1>2, <5>1, FS_Subset
      <4>2. \A other \in DOMAIN h2.storages :
              IsStorage(h2.storages[other]) /\ h2.storages[other].buffer \in {Internal} \cup DOMAIN h2.deleted
        BY <1>1, <3>2, <3>4 DEF HeapTyped
      <4> QED
        BY <1>2, <2>3, <2>4, <2>7, <3>4, <4>1, <4>2 DEF HeapTyped
    <3>6. ASSUME NEW n \in LiveIn(h2)
          PROVE  /\ Fits(h2.storages, h2.arrays[n]) /\ h2.arrays[n] = h.arrays[n]
                 /\ h.arrays[n].storage \in DOMAIN h2.storages
      <4> DEFINE d == h.arrays[n]
      <4>1. Fits(h.storages, d) /\ d.storage \in DOMAIN h.storages /\ h2.arrays[n] = d
        BY <1>3, <2>4, <2>5 DEF LiveIn
      <4>2. d.storage # id
        BY <3>3, <4>1 DEF LookAt
      <4> HIDE DEF d
      <4>3. d.storage # NoStorage /\ d.storage \in DOMAIN h2.storages
              /\ h2.storages[d.storage].cells = h.storages[d.storage].cells
        BY <1>2, <2>3, <4>1, <4>2
      <4>4. Fits(h2.storages, d)
        BY <4>1, <4>3, FitsKept
      <4> QED
        BY <4>1, <4>3, <4>4 DEF d
    <3>7. Readable(h2)
      BY <3>5, <3>6, ReadableFits
    <3>8. Counted(h2, retained)
      BY <1>1, <2>5, <3>1, <3>2 DEF Counted
    <3>9. \A b : HeldBy(h2, b) = HeldBy(h, b) \ {id}
      BY <3>1, <3>2 DEF HeldBy
    <3>10. \A b : b # s.buffer => id \notin HeldBy(h, b)
      BY DEF HeldBy, s
    <3>11. DeletedOnce(h2, adopted)
      <4> SUFFICES ASSUME NEW b \in DOMAIN h.deleted \ {Internal}
                   PROVE  h2.deleted[b] = IF b \in adopted /\ HeldBy(h2, b) = {} THEN 1 ELSE 0
        BY <3>4 DEF DeletedOnce
      <4>1. h.deleted[b] = IF b \in adopted /\ HeldBy(h, b) = {} THEN 1 ELSE 0
        BY <1>1 DEF DeletedOnce
      <4>2. CASE b = s.buffer
        <5>1. b \in adopted /\ HeldBy(h, b) = {id}
          BY <1>1, <2>2, <4>2 DEF HeldOnce, s
        <5>2. HeldBy(h2, b) = {} /\ h.deleted[b] = 0
          BY <3>9, <4>1, <5>1
        <5>3. h2.deleted[b] = h.deleted[b] + 1
          BY <1>2, <3>1, <4>2
        <5> QED
          BY <5>1, <5>2, <5>3
      <4>3. CASE b # s.buffer
        <5>1. HeldBy(h2, b) = HeldBy(h, b)
          BY <3>9, <3>10, <4>3
        <5>2. h2.deleted[b] = h.deleted[b]
          BY <1>2, <3>1, <4>3
        <5> QED
          BY <4>1, <5>1, <5>2
      <4> QED
        BY <4>2, <4>3
    <3>12. HeldOnce(h2, adopted, retained)
      <4>1. ASSUME NEW other \in DOMAIN h2.storages, h2.storages[other].buffer # Internal
            PROVE  h2.storages[other].buffer \in adopted /\ HeldBy(h2, h2.storages[other].buffer) = {other}
        <5>1. other \in DOMAIN h.storages /\ h2.storages[other] = h.storages[other] /\ other # id
          BY <3>1, <3>2
        <5>2. h.storages[other].buffer \in adopted /\ HeldBy(h, h.storages[other].buffer) = {other}
          BY <1>1, <4>1, <5>1 DEF HeldOnce
        <5> QED
          BY <3>9, <5>1, <5>2
      <4>2. ASSUME NEW n \in DOMAIN retained PROVE retained[n] \in DOMAIN h2.storages
        <5>1. retained[n] \in DOMAIN h.storages
          BY <1>1 DEF HeldOnce
        <5>2. retained[n] # id
          <6> SUFFICES ASSUME retained[n] = id PROVE FALSE
            OBVIOUS
          <6> DEFINE places == {k \in DOMAIN retained : retained[k] = id}
          <6>1. n \in places
            OBVIOUS
          <6>2. places \subseteq 1..Len(retained) /\ IsFiniteSet(1..Len(retained))
            <7>1. IsFiniteSet(1..Len(retained))
              BY FS_Interval
            <7> QED
              BY <7>1
          <6>3. Cardinality(places) = 0
            BY <3>3 DEF TimesRetained
          <6> HIDE DEF places
          <6>4. IsFiniteSet(places)
            BY <6>2, FS_Subset
          <6> QED
            BY <6>1, <6>3, <6>4, FS_EmptySet
        <5> QED
          BY <3>1, <5>1, <5>2
      <4> QED
        BY <4>1, <4>2 DEF HeldOnce
    <3>13. Keeps(h, h2, {name})
      BY <2>5, <3>2, <3>6 DEF Keeps
    <3> QED
      BY <2>3, <2>10, <3>2, <3>5, <3>7, <3>8, <3>11, <3>12, <3>13 DEF HeapSound, CellsFrom
  <2> QED
    BY <2>11, <2>12
<1> QED
  BY <1>5, <1>6

\* What two calls keep one after the other both keep.
LEMMA KeepsTransitive ==
    ASSUME NEW h, NEW h1, NEW h2, NEW names, SameNames(h, h1), SameNames(h1, h2),
           Keeps(h, h1, names), Keeps(h1, h2, names)
    PROVE  SameNames(h, h2) /\ Keeps(h, h2, names)
<1>1. ASSUME NEW name \in LiveIn(h) \ names
      PROVE  /\ h2.arrays[name] = h.arrays[name]
             /\ h.arrays[name].storage \in DOMAIN h2.storages
             /\ h2.storages[h.arrays[name].storage].cells = h.storages[h.arrays[name].storage].cells
  <2>1. h1.arrays[name] = h.arrays[name]
          /\ h1.storages[h.arrays[name].storage].cells = h.storages[h.arrays[name].storage].cells
    BY DEF Keeps
  <2>2. name \in LiveIn(h1) \ names
    BY <2>1 DEF LiveIn, SameNames
  <2>3. /\ h2.arrays[name] = h1.arrays[name]
        /\ h1.arrays[name].storage \in DOMAIN h2.storages
        /\ h2.storages[h1.arrays[name].storage].cells = h1.storages[h1.arrays[name].storage].cells
    BY <2>2 DEF Keeps
  <2> QED
    BY <2>1, <2>3
<1> QED
  BY <1>1 DEF SameNames, Keeps

\* A descriptor takes the place of none, and the count that was waiting for it.
LEMMA PlaceSound ==
    ASSUME NEW h, NEW adopted, NEW retained \in Seq(Nat), NEW d, d.storage \in Nat,
           HeapSound(h, adopted, Append(retained, d.storage)),
           NEW out \in DOMAIN h.arrays, h.arrays[out] = NoArray, Fits(h.storages, d),
           NEW h2, h2 = [h EXCEPT !.arrays[out] = d]
    PROVE  HeapSound(h2, adopted, retained) /\ SameNames(h, h2) /\ Keeps(h, h2, {out})
<1> DEFINE id == d.storage
           more == Append(retained, id)
<1>1. HeapTyped(h) /\ Readable(h) /\ Counted(h, more) /\ DeletedOnce(h, adopted) /\ HeldOnce(h, adopted, more)
  BY DEF HeapSound
<1>2. /\ h = [arrays |-> h.arrays, storages |-> h.storages, deleted |-> h.deleted]
      /\ h.arrays = [n \in DOMAIN h.arrays |-> h.arrays[n]]
      /\ IsFiniteSet(DOMAIN h.arrays) /\ DOMAIN h.storages \subseteq Nat \ {NoStorage}
  BY <1>1 DEF HeapTyped
<1>3. \A n \in LiveIn(h) : Fits(h.storages, h.arrays[n]) /\ h.arrays[n].storage \in DOMAIN h.storages
  BY <1>1, ReadableFits DEF Fits
<1>4. IsDescriptor(d) /\ id \in DOMAIN h.storages /\ id # NoStorage /\ d # NoArray
  BY <1>2 DEF Fits, NoArray
<1>5. h2 = [arrays |-> [h.arrays EXCEPT ![out] = d], storages |-> h.storages, deleted |-> h.deleted]
  BY <1>2
<1>6. /\ h2 = [arrays |-> h2.arrays, storages |-> h2.storages, deleted |-> h2.deleted]
      /\ h2.arrays = [h.arrays EXCEPT ![out] = d]
      /\ h2.storages = h.storages /\ h2.deleted = h.deleted
  BY <1>5
<1>7. /\ h2.arrays = [n \in DOMAIN h2.arrays |-> h2.arrays[n]]
      /\ DOMAIN h2.arrays = DOMAIN h.arrays
      /\ h2.arrays[out] = d
      /\ \A n \in DOMAIN h.arrays : n # out => h2.arrays[n] = h.arrays[n]
  BY <1>2, <1>6
<1>8. HeapTyped(h2)
  <2>1. \A n \in DOMAIN h2.arrays : IsDescriptor(h2.arrays[n])
    BY <1>1, <1>4, <1>7 DEF HeapTyped
  <2> QED
    BY <1>1, <1>6, <1>7, <2>1 DEF HeapTyped
<1>9. LiveIn(h2) = LiveIn(h) \cup {out} /\ out \notin LiveIn(h)
  BY <1>4, <1>7 DEF LiveIn
<1>10. Readable(h2)
  <2>1. ASSUME NEW n \in LiveIn(h2) PROVE Fits(h2.storages, h2.arrays[n])
    <3>1. CASE n = out
      BY <1>6, <1>7, <3>1
    <3>2. CASE n # out
      <4>1. n \in LiveIn(h) /\ h2.arrays[n] = h.arrays[n]
        BY <1>7, <1>9, <3>2 DEF LiveIn
      <4> QED
        BY <1>3, <1>6, <4>1
    <3> QED
      BY <3>1, <3>2
  <2> QED
    BY <1>8, <2>1, ReadableFits
<1>11. /\ LookAt(h2, id) = LookAt(h, id) \cup {out} /\ out \notin LookAt(h, id)
       /\ \A other : other # id => LookAt(h2, other) = LookAt(h, other)
  <2>1. \A n \in LiveIn(h) : h2.arrays[n] = h.arrays[n]
    BY <1>7, <1>9 DEF LiveIn
  <2> QED
    BY <1>7, <1>9, <2>1 DEF LookAt
<1>12. Counted(h2, retained)
  <2> SUFFICES ASSUME NEW other \in DOMAIN h2.storages
               PROVE  /\ h2.storages[other].references =
                           Cardinality(LookAt(h2, other)) + TimesRetained(retained, other)
                      /\ h2.storages[other].references > 0
    BY DEF Counted
  <2>1. h.storages[other].references = Cardinality(LookAt(h, other)) + TimesRetained(more, other)
          /\ h.storages[other].references > 0
    BY <1>1, <1>6 DEF Counted
  <2>2. CASE other = id
    <3>1. IsFiniteSet(LookAt(h, id)) /\ Cardinality(LookAt(h, id)) \in Nat
      BY <1>2, LooksAreFinite
    <3>2. Cardinality(LookAt(h2, id)) = Cardinality(LookAt(h, id)) + 1
      BY <1>11, <3>1, FS_AddElement
    <3>3. TimesRetained(more, id) = TimesRetained(retained, id) + 1 /\ TimesRetained(retained, id) \in Nat
      BY RetainedOnceMore
    <3>4. h.storages[id].references = Cardinality(LookAt(h, id)) + TimesRetained(more, id)
            /\ h.storages[id].references > 0
      BY <2>1, <2>2
    <3> HIDE DEF more, id
    <3>5. h.storages[id].references = Cardinality(LookAt(h2, id)) + TimesRetained(retained, id)
      BY <3>1, <3>2, <3>3, <3>4
    <3> QED
      BY <1>6, <2>2, <3>4, <3>5
  <2>3. CASE other # id
    <3>1. TimesRetained(more, other) = TimesRetained(retained, other)
      BY <2>3, RetainedOnceMore
    <3> QED
      BY <1>6, <1>11, <2>1, <2>3, <3>1
  <2> QED
    BY <2>2, <2>3
<1>13. \A b : HeldBy(h2, b) = HeldBy(h, b)
  BY <1>6 DEF HeldBy
<1>14. DeletedOnce(h2, adopted)
  BY <1>1, <1>6, <1>13 DEF DeletedOnce
<1>15. HeldOnce(h2, adopted, retained)
  <2>1. \A n \in DOMAIN retained : retained[n] \in DOMAIN h2.storages
    <3> TAKE n \in DOMAIN retained
    <3>1. n \in DOMAIN more /\ more[n] = retained[n]
      OBVIOUS
    <3> HIDE DEF more
    <3> QED
      BY <1>1, <1>6, <3>1 DEF HeldOnce
  <2>2. \A other \in DOMAIN h2.storages :
          h2.storages[other].buffer # Internal =>
            h2.storages[other].buffer \in adopted /\ HeldBy(h2, h2.storages[other].buffer) = {other}
    BY <1>1, <1>6, <1>13 DEF HeldOnce
  <2> QED
    BY <2>1, <2>2 DEF HeldOnce
<1>16. SameNames(h, h2) /\ Keeps(h, h2, {out})
  BY <1>3, <1>6, <1>7 DEF SameNames, Keeps, LiveIn
<1> QED
  BY <1>8, <1>10, <1>12, <1>14, <1>15, <1>16 DEF HeapSound

\* A result is committed: the output lets go what it had and takes the count
\* that was waiting.
LEMMA CommitOutputSound ==
    ASSUME NEW h, NEW adopted, NEW retained \in Seq(Nat), NEW d,
           HeapSound(h, adopted, Append(retained, d.storage)),
           NEW out \in DOMAIN h.arrays, Fits(h.storages, d),
           NEW h2, h2 = CommitOutput(h, out, d)
    PROVE  HeapSound(h2, adopted, retained) /\ SameNames(h, h2) /\ Keeps(h, h2, {out})
<1> DEFINE more == Append(retained, d.storage)
<1> PICK h1 : h1 = Release(h, out)
  OBVIOUS
<1>1. HeapTyped(h) /\ d.storage \in DOMAIN h.storages
  BY DEF HeapSound, Fits
<1>2. d.storage \in Nat /\ d.storage # NoStorage
  BY <1>1 DEF HeapTyped
<1>3. more \in Seq(Nat)
  BY <1>2
<1>4. h2 = [h1 EXCEPT !.arrays[out] = d]
  BY DEF CommitOutput
<1>5. HeapSound(h, adopted, more)
  OBVIOUS
<1> HIDE DEF more
<1>6. /\ HeapSound(h1, adopted, more) /\ SameNames(h, h1) /\ Keeps(h, h1, {out})
      /\ h1.arrays = [h.arrays EXCEPT ![out] = NoArray] /\ CellsFrom(h, h1)
  BY ONLY <1>3, <1>5, out \in DOMAIN h.arrays, h1 = Release(h, out), ReleaseSound
<1>7. out \in DOMAIN h1.arrays /\ h1.arrays[out] = NoArray
  BY <1>6 DEF SameNames
<1>8. d.storage \in DOMAIN h1.storages
  <2>1. Len(retained) + 1 \in DOMAIN more /\ more[Len(retained) + 1] = d.storage
    BY DEF more
  <2> QED
    BY <1>6, <2>1 DEF HeapSound, HeldOnce
<1>9. Fits(h1.storages, d)
  BY <1>2, <1>6, <1>8, FitsKept DEF CellsFrom
<1>10. HeapSound(h2, adopted, retained) /\ SameNames(h1, h2) /\ Keeps(h1, h2, {out})
  <2>1. HeapSound(h1, adopted, Append(retained, d.storage))
    BY <1>6 DEF more
  <2> QED
    BY <1>2, <1>4, <1>7, <1>9, <2>1, PlaceSound
<1> QED
  BY <1>6, <1>10, KeepsTransitive

-----------------------------------------------------------------------------
(* Results *)

\* A call changes nothing, or it is ok and changes its output only.
Outcome(h, out, adopted, retained, result) ==
  \/ result.heap = h
  \/ /\ result.status = "ok"
     /\ HeapSound(result.heap, adopted, retained)
     /\ SameNames(h, result.heap)
     /\ Keeps(h, result.heap, {out})

\* What is refused changes nothing.
LEMMA RefusedOutcome ==
    ASSUME NEW h, NEW out, NEW adopted, NEW retained, NEW status
    PROVE  Outcome(h, out, adopted, retained, Refused(h, status))
  BY DEF Outcome, Refused

\* What some statuses forbid need only be sound when they are ok.
LEMMA WhenOutcome ==
    ASSUME NEW h, NEW out, NEW adopted, NEW retained, NEW statuses, NEW result,
           FirstStatus(statuses) = "ok" => Outcome(h, out, adopted, retained, result)
    PROVE  Outcome(h, out, adopted, retained, When(h, statuses, result))
  BY RefusedOutcome DEF When

\* Cells of their own make a sound array.
LEMMA CommitOwnedOutcome ==
    ASSUME NEW h, NEW adopted, NEW retained \in Seq(Nat), HeapSound(h, adopted, retained),
           NEW out \in DOMAIN h.arrays, NEW dtype, NEW shape \in Seq(Nat), ShapeStatus(shape) = "ok",
           NEW cells, AreCells(cells), Len(cells) = Product(shape)
    PROVE  Outcome(h, out, adopted, retained, CommitOwned(h, out, dtype, shape, cells))
<1> PICK id : id = NewStorage(h.storages)
  OBVIOUS
<1> PICK h1 : h1 = WithStorage(h, id, cells, Internal)
  OBVIOUS
<1> PICK d : d = Owned(id, dtype, shape)
  OBVIOUS
<1> PICK h2 : h2 = CommitOutput(h1, out, d)
  OBVIOUS
<1>1. CommitOwned(h, out, dtype, shape, cells) = [status |-> "ok", heap |-> h2]
  BY DEF CommitOwned, Done
<1>2. /\ HeapSound(h1, adopted, Append(retained, id))
      /\ SameNames(h, h1) /\ Keeps(h, h1, {}) /\ h1.arrays = h.arrays
      /\ id \in Nat \ {NoStorage} /\ id \in DOMAIN h1.storages
      /\ h1.storages[id].cells = cells
  <2>1. Given(h, Internal, adopted, adopted)
    BY DEF Given
  <2> QED
    BY <2>1, WithStorageSound
<1>3. Fits(h1.storages, d) /\ d.storage = id
  <2>1. Fits(h1.storages, d)
    BY <1>2, OwnedFits
  <2> QED
    BY <2>1 DEF Owned
<1>4. HeapSound(h2, adopted, retained) /\ SameNames(h1, h2) /\ Keeps(h1, h2, {out})
  BY <1>2, <1>3, CommitOutputSound
<1>5. Keeps(h, h1, {out})
  BY <1>2 DEF Keeps
<1>6. SameNames(h, h2) /\ Keeps(h, h2, {out})
  BY <1>2, <1>4, <1>5, KeepsTransitive
<1> QED
  BY <1>1, <1>4, <1>6 DEF Outcome

\* A view of a storage is sound when it is valid.
LEMMA CreateViewOutcome ==
    ASSUME NEW h, NEW adopted, NEW retained \in Seq(Nat), HeapSound(h, adopted, retained),
           NEW out \in DOMAIN h.arrays, NEW s, NEW view, IsDescriptor(view), view.storage \in DOMAIN h.storages
    PROVE  Outcome(h, out, adopted, retained, CreateView(h, out, s, view))
<1> PICK d : d = [view EXCEPT !.own = FALSE]
  OBVIOUS
<1> PICK h1 : h1 = StorageRetain(h, d.storage)
  OBVIOUS
<1> PICK h2 : h2 = CommitOutput(h1, out, d)
  OBVIOUS
<1> DEFINE statuses == <<ValidateArray(h.storages, d),
                         Must(h.storages[d.storage].references < MaxSize, "overflow")>>
<1>1. CreateView(h, out, s, view) = When(h, statuses, [status |-> "ok", heap |-> h2])
  BY DEF CreateView, Done
<1>2. ASSUME FirstStatus(statuses) = "ok"
      PROVE  Outcome(h, out, adopted, retained, [status |-> "ok", heap |-> h2])
  <2>1. ValidateArray(h.storages, d) = "ok"
    <3>1. Len(statuses) = 2 /\ Len(statuses) \in Nat /\ 1 \in 1..Len(statuses)
            /\ statuses[1] = ValidateArray(h.storages, d)
      OBVIOUS
    <3> HIDE DEF statuses
    <3> QED
      BY <1>2, <3>1, FirstStatusOk
  <2>2. IsDescriptor(d) /\ d.storage = view.storage
    BY DEF IsDescriptor
  <2>3. Fits(h.storages, d) /\ d.storage \in DOMAIN h.storages
    BY <2>1, <2>2 DEF Fits
  <2>4. /\ HeapSound(h1, adopted, Append(retained, d.storage))
        /\ SameNames(h, h1) /\ Keeps(h, h1, {}) /\ h1.arrays = h.arrays
        /\ DOMAIN h1.storages = DOMAIN h.storages
        /\ \A other \in DOMAIN h.storages : h1.storages[other].cells = h.storages[other].cells
    BY <2>3, StorageRetainSound
  <2>5. d.storage # NoStorage
    BY <2>3 DEF HeapSound, HeapTyped
  <2>6. Fits(h1.storages, d)
    BY <2>3, <2>4, <2>5, FitsKept
  <2>7. HeapSound(h2, adopted, retained) /\ SameNames(h1, h2) /\ Keeps(h1, h2, {out})
    BY <2>4, <2>6, CommitOutputSound
  <2>8. Keeps(h, h1, {out})
    BY <2>4 DEF Keeps
  <2>9. SameNames(h, h2) /\ Keeps(h, h2, {out})
    BY <2>4, <2>7, <2>8, KeepsTransitive
  <2> QED
    BY <2>7, <2>9 DEF Outcome
<1> HIDE DEF statuses
<1> QED
  BY <1>1, <1>2, WhenOutcome

\* A buffer that is refused changes nothing; one that is taken is adopted.
Adopts(h, out, buffer, adopted, retained, result) ==
  \/ result.heap = h /\ result.status # "ok"
  \/ /\ result.status = "ok"
     /\ HeapSound(result.heap, adopted \cup {buffer}, retained)
     /\ SameNames(h, result.heap) /\ Keeps(h, result.heap, {out})

\* A buffer belongs to the library when this succeeds, and to the caller else.
LEMMA FromBufferOutcome ==
    ASSUME NEW h, NEW adopted, NEW retained \in Seq(Nat), HeapSound(h, adopted, retained),
           NEW out \in DOMAIN h.arrays, NEW buffer \in DOMAIN h.deleted \ {Internal}, buffer \notin adopted,
           NEW dtype, NEW cells, AreCells(cells), NEW view,
           view.shape \in Seq(Nat), view.strides \in Seq(Int), view.offset \in Nat,
           view.strides # <<>> => Len(view.strides) = Len(view.shape),
           NEW result, result = FromBuffer(h, out, buffer, dtype, cells, view)
    PROVE  Adopts(h, out, buffer, adopted, retained, result)
<1> PICK id : id = NewStorage(h.storages)
  OBVIOUS
<1> PICK h1 : h1 = WithStorage(h, id, cells, buffer)
  OBVIOUS
<1> PICK strides : strides = IF view.strides = <<>> THEN ContiguousStrides(view.shape) ELSE view.strides
  OBVIOUS
<1> PICK d : d = [storage |-> id, dtype |-> dtype, shape |-> view.shape, strides |-> strides,
                  offset |-> view.offset, own |-> FALSE, readonly |-> view.readonly]
  OBVIOUS
<1> PICK h2 : h2 = CommitOutput(h1, out, d)
  OBVIOUS
<1> PICK adopted2 : adopted2 = adopted \cup {buffer}
  OBVIOUS
<1> DEFINE statuses == <<PrepareOutput(h, out, <<>>), ShapeStatus(view.shape),
                  IF view.strides = <<>> THEN ContiguousStatus(view.shape) ELSE "ok",
                  ValidateArray(h1.storages, d)>>
<1>1. result = When(h, statuses, [status |-> "ok", heap |-> h2])
  BY DEF FromBuffer, Done
<1>2. CASE FirstStatus(statuses) # "ok"
  <2> HIDE DEF statuses
  <2> QED
    BY <1>1, <1>2 DEF When, Refused, Adopts
<1>3. CASE FirstStatus(statuses) = "ok"
  <2>1. ValidateArray(h1.storages, d) = "ok"
    <3>1. Len(statuses) = 4 /\ Len(statuses) \in Nat /\ 4 \in 1..Len(statuses)
            /\ statuses[4] = ValidateArray(h1.storages, d)
      OBVIOUS
    <3> HIDE DEF statuses
    <3> QED
      BY <1>3, <3>1, FirstStatusOk
  <2>2. result = [status |-> "ok", heap |-> h2]
    <3> HIDE DEF statuses
    <3> QED
      BY <1>1, <1>3 DEF When
  <2>3. /\ HeapSound(h1, adopted2, Append(retained, id))
        /\ SameNames(h, h1) /\ Keeps(h, h1, {}) /\ h1.arrays = h.arrays
        /\ id \in Nat \ {NoStorage} /\ id \in DOMAIN h1.storages
    <3>1. Given(h, buffer, adopted, adopted2)
      BY DEF Given
    <3>2. retained \in Seq(Nat) /\ HeapSound(h, adopted, retained) /\ AreCells(cells)
            /\ id = NewStorage(h.storages) /\ h1 = WithStorage(h, id, cells, buffer)
      OBVIOUS
    <3> QED
      BY ONLY <3>1, <3>2, WithStorageSound
  <2>4. strides \in Seq(Int) /\ Len(strides) = Len(view.shape)
    <3>1. CASE view.strides = <<>>
      BY <3>1, ContiguousStridesType
    <3>2. CASE view.strides # <<>>
      BY <3>2
    <3> QED
      BY <3>1, <3>2
  <2>5. d.storage = id /\ IsDescriptor(d)
    BY <2>3, <2>4 DEF IsDescriptor
  <2>6. Fits(h1.storages, d)
    BY <2>1, <2>3, <2>5 DEF Fits
  <2>7. HeapSound(h2, adopted2, retained) /\ SameNames(h1, h2) /\ Keeps(h1, h2, {out})
    <3>1. HeapSound(h1, adopted2, Append(retained, d.storage)) /\ out \in DOMAIN h1.arrays
      BY <2>3, <2>5
    <3>2. retained \in Seq(Nat) /\ h2 = CommitOutput(h1, out, d)
      OBVIOUS
    <3> QED
      BY ONLY <2>6, <3>1, <3>2, CommitOutputSound
  <2>8. Keeps(h, h1, {out})
    BY <2>3 DEF Keeps
  <2>9. SameNames(h, h2) /\ Keeps(h, h2, {out})
    BY <2>3, <2>7, <2>8, KeepsTransitive
  <2> QED
    BY <2>2, <2>7, <2>9 DEF Adopts
<1> QED
  BY <1>2, <1>3

\* Cells stay as many when one is written.
LEMMA WrittenCells ==
    ASSUME NEW cells, AreCells(cells), NEW at \in 1..Len(cells), NEW cell
    PROVE  /\ AreCells([cells EXCEPT ![at] = cell])
           /\ Len([cells EXCEPT ![at] = cell]) = Len(cells)
<1>1. Len(cells) \in Nat /\ cells = [i \in 1..Len(cells) |-> cells[i]]
  BY DEF AreCells
<1> PICK n \in Nat : n = Len(cells)
  BY <1>1
<1>2. [cells EXCEPT ![at] = cell] = [i \in 1..n |-> IF i = at THEN cell ELSE cells[i]]
  BY <1>1
<1> PICK new : new = [i \in 1..n |-> IF i = at THEN cell ELSE cells[i]]
  OBVIOUS
<1>3. Len(new) = n /\ new = [i \in 1..n |-> new[i]]
  OBVIOUS
<1> QED
  BY <1>2, <1>3 DEF AreCells

\* What a write changes.
WritesOnly(h, name, index, cell, h2) ==
  LET d == h.arrays[name] IN
  /\ h2.arrays = h.arrays /\ h2.deleted = h.deleted
  /\ DOMAIN h2.storages = DOMAIN h.storages
  /\ \A other \in DOMAIN h.storages : other # d.storage => h2.storages[other] = h.storages[other]
  /\ h2.storages[d.storage] = [cells |-> [h.storages[d.storage].cells EXCEPT ![LinearOffset(d, index) + 1] = cell],
                               references |-> h.storages[d.storage].references,
                               buffer |-> h.storages[d.storage].buffer]

\* A write is within the storage, and changes one cell of it.
LEMMA WriteSound ==
    ASSUME NEW h, NEW adopted, NEW retained \in Seq(Nat), HeapSound(h, adopted, retained),
           NEW name \in DOMAIN h.arrays, NEW index \in Nat, NEW cell,
           NEW result, result = Write(h, name, index, cell)
    PROVE  \/ result.heap = h /\ (result.status = "ok" => index >= Size(h.arrays[name]))
           \/ /\ result.status = "ok" /\ index < Size(h.arrays[name])
              /\ name \in LiveIn(h)
              /\ HeapSound(result.heap, adopted, retained)
              /\ WritesOnly(h, name, index, cell, result.heap)
<1> PICK d : d = h.arrays[name]
  OBVIOUS
<1> DEFINE statuses == <<ValidateArray(h.storages, d), Must(~d.readonly, "argument")>>
           at == LinearOffset(d, index) + 1
           h2 == [h EXCEPT !.storages[d.storage].cells[at] = cell]
<1>1. HeapTyped(h) /\ Readable(h) /\ Counted(h, retained) /\ DeletedOnce(h, adopted) /\ HeldOnce(h, adopted, retained)
  BY DEF HeapSound
<1>2. result = When(h, statuses, [status |-> "ok", heap |-> IF index >= Size(d) THEN h ELSE h2])
  BY DEF Write, Done
<1>3. CASE FirstStatus(statuses) # "ok"
  <2> HIDE DEF statuses, h2
  <2> QED
    BY <1>2, <1>3 DEF When, Refused
<1>4. CASE FirstStatus(statuses) = "ok" /\ index >= Size(d)
  <2> HIDE DEF statuses, h2
  <2> QED
    BY <1>2, <1>4 DEF When
<1>5. CASE FirstStatus(statuses) = "ok" /\ ~(index >= Size(d))
  <2>1. result.status = "ok" /\ result.heap = h2
    <3> HIDE DEF statuses, h2
    <3> QED
      BY <1>2, <1>5 DEF When
  <2>2. ValidateArray(h.storages, d) = "ok"
    <3>1. Len(statuses) \in Nat /\ 1 \in 1..Len(statuses) /\ statuses[1] = ValidateArray(h.storages, d)
      OBVIOUS
    <3> HIDE DEF statuses
    <3> QED
      BY <1>5, <3>1, FirstStatusOk
  <2>3. d.storage # NoStorage
    BY <2>2 DEF ValidateArray
  <2>4. name \in LiveIn(h)
    BY <2>3 DEF LiveIn, NoArray
  <2>5. d.storage \in DOMAIN h.storages /\ IsDescriptor(d)
    BY <1>1, <2>4 DEF Readable, HeapTyped
  <2>6. Size(d) \in Nat
    BY <2>5, ProductType DEF IsDescriptor, Size
  <2>7. index < Size(d) /\ index \in 0..(Size(d) - 1)
    BY <1>5, <2>6
  <2> PICK s : s = h.storages[d.storage]
    OBVIOUS
  <2>8. IsStorage(s) /\ s.buffer \in {Internal} \cup DOMAIN h.deleted
    BY <1>1, <2>5 DEF HeapTyped
  <2>9. at \in 1..Len(s.cells)
    <3>1. LinearOffset(d, index) \in 0..(Len(s.cells) - 1)
      BY <1>1, <2>4, <2>7 DEF Readable
    <3>2. Len(s.cells) \in Nat
      BY <2>8 DEF IsStorage, AreCells
    <3>3. ASSUME NEW x, NEW n \in Nat, x \in 0..(n - 1) PROVE x + 1 \in 1..n
      BY <3>3
    <3> QED
      BY ONLY <3>1, <3>2, <3>3
  <2> HIDE DEF at
  <2> DEFINE cells == [s.cells EXCEPT ![at] = cell]
             new == [cells |-> cells, references |-> s.references, buffer |-> s.buffer]
  <2>10. AreCells(cells) /\ Len(cells) = Len(s.cells)
    <3>1. AreCells(s.cells)
      BY <2>8 DEF IsStorage
    <3> QED
      BY ONLY <2>9, <3>1, WrittenCells
  <2>11. [s EXCEPT !.cells[at] = cell] = new
    <3>1. ASSUME NEW theCells PROVE [s EXCEPT !.cells = theCells] =
                   [cells |-> theCells, references |-> s.references, buffer |-> s.buffer]
      BY <2>8 DEF IsStorage
    <3> QED
      BY <3>1
  <2>12. h2 = [arrays |-> h.arrays, deleted |-> h.deleted,
               storages |-> [h.storages EXCEPT ![d.storage] = [s EXCEPT !.cells[at] = cell]]]
    <3>1. h = [arrays |-> h.arrays, storages |-> h.storages, deleted |-> h.deleted]
      BY <1>1 DEF HeapTyped
    <3> QED
      BY <3>1
  <2> HIDE DEF h2, cells
  <2>13. h2 = [arrays |-> h.arrays, deleted |-> h.deleted, storages |-> [h.storages EXCEPT ![d.storage] = new]]
    BY <2>11, <2>12
  <2> HIDE DEF new
  <2>14. h.storages = [other \in DOMAIN h.storages |-> h.storages[other]]
    BY <1>1 DEF HeapTyped
  <2>15. /\ h2 = [arrays |-> h2.arrays, storages |-> h2.storages, deleted |-> h2.deleted]
         /\ h2.arrays = h.arrays /\ h2.deleted = h.deleted
         /\ h2.storages = [other \in DOMAIN h2.storages |-> h2.storages[other]]
         /\ DOMAIN h2.storages = DOMAIN h.storages
         /\ h2.storages[d.storage] = new
         /\ \A other \in DOMAIN h.storages : other # d.storage => h2.storages[other] = h.storages[other]
    BY <2>5, <2>13, <2>14
  <2>16. new.cells = cells /\ new.references = s.references /\ new.buffer = s.buffer /\ IsStorage(new)
    BY <2>8, <2>10 DEF new, IsStorage
  <2>17. \A other \in DOMAIN h.storages :
           /\ Len(h2.storages[other].cells) = Len(h.storages[other].cells)
           /\ h2.storages[other].references = h.storages[other].references
           /\ h2.storages[other].buffer = h.storages[other].buffer
    BY <2>10, <2>15, <2>16
  <2>18. HeapTyped(h2)
    <3>1. \A other \in DOMAIN h2.storages :
            IsStorage(h2.storages[other]) /\ h2.storages[other].buffer \in {Internal} \cup DOMAIN h2.deleted
      BY <1>1, <2>15, <2>16, <2>17 DEF HeapTyped
    <3> QED
      BY <1>1, <2>15, <3>1 DEF HeapTyped
  <2>19. LiveIn(h2) = LiveIn(h) /\ \A other : LookAt(h2, other) = LookAt(h, other)
    BY <2>15 DEF LiveIn, LookAt
  <2>20. ASSUME NEW n \in LiveIn(h2) PROVE Fits(h2.storages, h2.arrays[n])
    <3> PICK e : e = h.arrays[n]
      OBVIOUS
    <3>1. Fits(h.storages, e) /\ h2.arrays[n] = e
      BY <1>1, <2>15, <2>19, ReadableFits
    <3>2. e.storage \in DOMAIN h.storages /\ e.storage # NoStorage
      BY <1>1, <3>1 DEF Fits, HeapTyped
    <3>3. e.storage \in DOMAIN h2.storages
            /\ Len(h2.storages[e.storage].cells) = Len(h.storages[e.storage].cells)
      BY <2>15, <2>17, <3>2
    <3>4. Fits(h2.storages, e)
      BY <3>1, <3>2, <3>3, FitsKept
    <3> QED
      BY <3>1, <3>4
  <2>21. Readable(h2)
    BY <2>18, <2>20, ReadableFits
  <2>22. Counted(h2, retained)
    BY <1>1, <2>15, <2>17, <2>19 DEF Counted
  <2>23. \A b : HeldBy(h2, b) = HeldBy(h, b)
    BY <2>15, <2>17 DEF HeldBy
  <2>24. DeletedOnce(h2, adopted)
    BY <1>1, <2>15, <2>23 DEF DeletedOnce
  <2>25. HeldOnce(h2, adopted, retained)
    <3>1. ASSUME NEW other \in DOMAIN h2.storages, h2.storages[other].buffer # Internal
          PROVE  h2.storages[other].buffer \in adopted /\ HeldBy(h2, h2.storages[other].buffer) = {other}
      <4> PICK b : b = h.storages[other].buffer
        OBVIOUS
      <4>1. other \in DOMAIN h.storages /\ h2.storages[other].buffer = b /\ HeldBy(h2, b) = HeldBy(h, b)
        BY <2>15, <2>17, <2>23
      <4>2. b # Internal => b \in adopted /\ HeldBy(h, b) = {other}
        BY <1>1, <4>1 DEF HeldOnce
      <4> QED
        BY <3>1, <4>1, <4>2
    <3> QED
      BY <1>1, <2>15, <3>1 DEF HeldOnce
  <2>26. HeapSound(h2, adopted, retained)
    BY <2>18, <2>21, <2>22, <2>24, <2>25 DEF HeapSound
  <2>27. WritesOnly(h, name, index, cell, h2)
    BY <2>15 DEF WritesOnly, new, cells, at
  <2> QED
    BY <2>1, <2>4, <2>7, <2>26, <2>27
<1> QED
  BY <1>3, <1>4, <1>5

\* Two descriptors change places: as many look at every storage as did.
LEMMA SwappedLooks ==
    ASSUME NEW h, NEW h2, IsFiniteSet(DOMAIN h.arrays), NEW a \in DOMAIN h.arrays, NEW b \in DOMAIN h.arrays,
           DOMAIN h2.arrays = DOMAIN h.arrays,
           h2.arrays[a] = h.arrays[b], h2.arrays[b] = h.arrays[a],
           \A n \in DOMAIN h.arrays \ {a, b} : h2.arrays[n] = h.arrays[n], NEW id
    PROVE  Cardinality(LookAt(h2, id)) = Cardinality(LookAt(h, id))
<1> DEFINE S == LookAt(h, id)
           T == LookAt(h2, id)
           f == [n \in S |-> IF n = a THEN b ELSE IF n = b THEN a ELSE n]
<1>1. IsFiniteSet(S)
  BY LooksAreFinite
<1>2. \A n \in DOMAIN h.arrays :
        /\ n \in S <=> (h.arrays[n] # NoArray /\ h.arrays[n].storage = id)
        /\ n \in T <=> (h2.arrays[n] # NoArray /\ h2.arrays[n].storage = id)
  BY DEF LookAt, LiveIn
<1>3. S \subseteq DOMAIN h.arrays /\ T \subseteq DOMAIN h.arrays
  BY DEF LookAt, LiveIn
<1> HIDE DEF S, T
<1>4. a \in T <=> b \in S
  BY <1>2
<1>5. b \in T <=> a \in S
  BY <1>2
<1>6. \A n \in DOMAIN h.arrays \ {a, b} : n \in T <=> n \in S
  BY <1>2
<1>7. f \in [S -> T]
  BY <1>3, <1>4, <1>5, <1>6
<1>8. \A m, n \in S : f[m] = f[n] => m = n
  OBVIOUS
<1>9. \A t \in T : \E n \in S : f[n] = t
  <2> TAKE t \in T
  <2>1. CASE t = a
    BY <1>4, <2>1
  <2>2. CASE t = b
    BY <1>5, <2>2
  <2>3. CASE t # a /\ t # b
    BY <1>3, <1>6, <2>3
  <2> QED
    BY <2>1, <2>2, <2>3
<1> HIDE DEF f
<1>10. ExistsBijection(S, T)
  BY <1>7, <1>8, <1>9 DEF ExistsBijection, Bijection, Injection, Surjection, IsInjective
<1>11. Cardinality(T) = Cardinality(S)
  BY <1>1, <1>10, FS_Bijection
<1> QED
  BY <1>11 DEF S, T

\* A swap changes no storage, and what every other array is.
LEMMA SwapSound ==
    ASSUME NEW h, NEW adopted, NEW retained \in Seq(Nat), HeapSound(h, adopted, retained),
           NEW a \in DOMAIN h.arrays, NEW b \in DOMAIN h.arrays,
           NEW h2, h2 = [h EXCEPT !.arrays[a] = h.arrays[b], !.arrays[b] = h.arrays[a]]
    PROVE  HeapSound(h2, adopted, retained) /\ SameNames(h, h2) /\ Keeps(h, h2, {a, b})
<1>1. HeapTyped(h) /\ Readable(h) /\ Counted(h, retained) /\ DeletedOnce(h, adopted) /\ HeldOnce(h, adopted, retained)
  BY DEF HeapSound
<1>2. /\ h = [arrays |-> h.arrays, storages |-> h.storages, deleted |-> h.deleted]
      /\ h.arrays = [n \in DOMAIN h.arrays |-> h.arrays[n]]
      /\ IsFiniteSet(DOMAIN h.arrays)
  BY <1>1 DEF HeapTyped
<1>3. \A n \in LiveIn(h) : Fits(h.storages, h.arrays[n]) /\ h.arrays[n].storage \in DOMAIN h.storages
  BY <1>1, ReadableFits DEF Fits
<1>4. h2 = [arrays |-> [h.arrays EXCEPT ![a] = h.arrays[b], ![b] = h.arrays[a]],
            storages |-> h.storages, deleted |-> h.deleted]
  BY <1>2
<1> PICK swapped : swapped = [h.arrays EXCEPT ![a] = h.arrays[b], ![b] = h.arrays[a]]
  OBVIOUS
<1>5. /\ h2 = [arrays |-> h2.arrays, storages |-> h2.storages, deleted |-> h2.deleted]
      /\ h2.arrays = swapped /\ h2.storages = h.storages /\ h2.deleted = h.deleted
  BY <1>4
<1>6. /\ swapped = [n \in DOMAIN swapped |-> swapped[n]]
      /\ DOMAIN swapped = DOMAIN h.arrays
      /\ swapped[a] = h.arrays[b] /\ swapped[b] = h.arrays[a]
      /\ \A n \in DOMAIN h.arrays \ {a, b} : swapped[n] = h.arrays[n]
  BY <1>2
<1>7. HeapTyped(h2)
  <2>1. \A n \in DOMAIN h2.arrays : IsDescriptor(h2.arrays[n])
    BY <1>1, <1>5, <1>6 DEF HeapTyped
  <2> QED
    BY <1>1, <1>5, <1>6, <2>1 DEF HeapTyped
<1>8. Readable(h2)
  <2>1. ASSUME NEW n \in LiveIn(h2) PROVE Fits(h2.storages, h2.arrays[n])
    <3>1. n \in DOMAIN h.arrays /\ swapped[n] # NoArray
      BY <1>5, <1>6 DEF LiveIn
    <3>2. \E m \in LiveIn(h) : swapped[n] = h.arrays[m]
      BY <1>6, <3>1 DEF LiveIn
    <3> QED
      BY <1>3, <1>5, <3>2
  <2> QED
    BY <1>7, <2>1, ReadableFits
<1>9. Counted(h2, retained)
  <2>1. \A id : Cardinality(LookAt(h2, id)) = Cardinality(LookAt(h, id))
    <3>1. /\ IsFiniteSet(DOMAIN h.arrays) /\ DOMAIN h2.arrays = DOMAIN h.arrays
          /\ h2.arrays[a] = h.arrays[b] /\ h2.arrays[b] = h.arrays[a]
          /\ \A n \in DOMAIN h.arrays \ {a, b} : h2.arrays[n] = h.arrays[n]
      BY <1>2, <1>5, <1>6
    <3>2. a \in DOMAIN h.arrays /\ b \in DOMAIN h.arrays
      OBVIOUS
    <3> TAKE id
    <3> QED
      BY ONLY <3>1, <3>2, SwappedLooks
  <2> QED
    BY <1>1, <1>5, <2>1 DEF Counted
<1>10. \A buffer : HeldBy(h2, buffer) = HeldBy(h, buffer)
  BY <1>5 DEF HeldBy
<1>11. DeletedOnce(h2, adopted) /\ HeldOnce(h2, adopted, retained)
  <2>1. DeletedOnce(h2, adopted)
    BY <1>1, <1>5, <1>10 DEF DeletedOnce
  <2>2. HeldOnce(h2, adopted, retained)
    BY <1>1, <1>5, <1>10 DEF HeldOnce
  <2> QED
    BY <2>1, <2>2
<1>12. SameNames(h, h2) /\ Keeps(h, h2, {a, b})
  BY <1>3, <1>5, <1>6 DEF SameNames, Keeps, LiveIn
<1> QED
  BY <1>7, <1>8, <1>9, <1>11, <1>12 DEF HeapSound

-----------------------------------------------------------------------------
(* What the operations look at *)

\* The places of a mask are numbers, and no more than it has elements.
LEMMA TrueIndicesType ==
    ASSUME NEW mask, Len(mask) \in Nat
    PROVE  TrueIndices(mask) \in Seq(Nat) /\ Len(TrueIndices(mask)) =< Len(mask)
<1> DEFINE N == Len(mask)
           step == [n \in 1..N |-> [x \in Seq(Nat) |-> IF mask[n] = 1 THEN Append(x, n) ELSE x]]
<1>1. N \in Nat
  OBVIOUS
<1>2. step \in [1..N -> [Seq(Nat) -> Seq(Nat)]] /\ <<>> \in Seq(Nat)
  OBVIOUS
<1>3. \A n \in 1..N : \A x \in Seq(Nat) : step[n][x] = IF mask[n] = 1 THEN Append(x, n) ELSE x
  OBVIOUS
<1> HIDE DEF step, N
<1>4. PICK f : f \in [0..N -> Seq(Nat)] /\ f[0] = <<>> /\ \A n \in 1..N : f[n] = step[n][f[n - 1]]
  <2>1. AreSteps(N, Seq(Nat), <<>>, step)
    BY <1>1, <1>2 DEF AreSteps
  <2>2. \E f : Solves(N, Seq(Nat), <<>>, step, f)
    BY ONLY <2>1, RecurrenceExists, Zenon
  <2> QED
    BY <2>2 DEF Solves
<1>5. ASSUME NEW n \in 1..N PROVE f[n] = IF mask[n] = 1 THEN Append(f[n - 1], n) ELSE f[n - 1]
  <2>1. n - 1 \in 0..N
    BY <1>1
  <2>2. f[n - 1] \in Seq(Nat)
    BY <1>4, <2>1
  <2> QED
    BY <1>3, <1>4, <2>2
<1> DEFINE IsIt(T) ==
      T = [n \in 0..N |-> IF n = 0 THEN <<>> ELSE IF mask[n] = 1 THEN Append(T[n - 1], n) ELSE T[n - 1]]
<1>6. IsIt(f)
  <2>1. \A n \in 0..N : f[n] = IF n = 0 THEN <<>> ELSE IF mask[n] = 1 THEN Append(f[n - 1], n) ELSE f[n - 1]
    <3> TAKE n \in 0..N
    <3>1. n = 0 \/ (n # 0 /\ n \in 1..N)
      BY <1>1
    <3> QED
      BY <1>4, <1>5, <3>1
  <2> QED
    BY <1>4, <2>1
<1> PICK P : P = CHOOSE T : IsIt(T)
  OBVIOUS
<1>7. TrueIndices(mask) = P[N]
  BY DEF TrueIndices, N
<1>8. IsIt(P)
  <2> HIDE DEF IsIt
  <2> QED
    BY <1>6
<1>9. P[0] = <<>> /\ \A n \in 1..N : P[n] = IF mask[n] = 1 THEN Append(P[n - 1], n) ELSE P[n - 1]
  <2>1. \A n \in 0..N : P[n] = IF n = 0 THEN <<>> ELSE IF mask[n] = 1 THEN Append(P[n - 1], n) ELSE P[n - 1]
    BY <1>8
  <2>2. 0 \in 0..N /\ \A n \in 1..N : n \in 0..N /\ n # 0
    BY <1>1
  <2> HIDE DEF IsIt
  <2> QED
    BY <2>1, <2>2
<1> HIDE DEF IsIt
<1> DEFINE good == {n \in 0..N : P[n] \in Seq(Nat) /\ Len(P[n]) =< n}
<1>10. \A n \in 0..N : n \in good
  <2>1. 0 \in good
    <3>1. P[0] \in Seq(Nat) /\ Len(P[0]) =< 0
      <4>1. <<>> \in Seq(Nat) /\ Len(<<>>) =< 0
        BY ONLY TRUE
      <4>2. P[0] = <<>>
        BY <1>9
      <4> QED
        BY ONLY <4>1, <4>2
    <3> QED
      BY <1>1, <3>1
  <2>2. ASSUME NEW n \in 1..N, n - 1 \in good PROVE n \in good
    <3>1. P[n - 1] \in Seq(Nat) /\ Len(P[n - 1]) =< n - 1 /\ n \in Nat
      BY <1>1, <2>2
    <3>2. Append(P[n - 1], n) \in Seq(Nat) /\ Len(Append(P[n - 1], n)) =< n /\ Len(P[n - 1]) =< n
      BY <3>1
    <3>3. P[n] \in Seq(Nat) /\ Len(P[n]) =< n
      <4>1. P[n] = Append(P[n - 1], n) \/ P[n] = P[n - 1]
        BY <1>9
      <4> QED
        BY ONLY <3>1, <3>2, <4>1
    <3>4. n \in 0..N
      BY <1>1
    <3> HIDE DEF IsIt
    <3> QED
      BY ONLY <3>3, <3>4
  <2> HIDE DEF good
  <2> QED
    BY <1>1, <2>1, <2>2, UptoTheLast
<1> QED
  BY <1>1, <1>7, <1>10 DEF N

\* Two sequences of statuses, one after the other.
LEMMA BothAreOk ==
    ASSUME NEW S, NEW first \in Seq(S), NEW second \in Seq(S), FirstStatus(first \o second) = "ok"
    PROVE  /\ \A i \in 1..Len(first) : first[i] = "ok"
           /\ \A i \in 1..Len(second) : second[i] = "ok"
<1> PICK both : both = first \o second
  OBVIOUS
<1>1. /\ Len(first) \in Nat /\ Len(second) \in Nat /\ Len(both) = Len(first) + Len(second)
      /\ \A i \in 1..Len(first) : both[i] = first[i]
      /\ \A i \in 1..Len(second) : both[Len(first) + i] = second[i]
  OBVIOUS
<1>2. Len(both) \in Nat
  BY <1>1
<1>3. \A i \in 1..Len(both) : both[i] = "ok"
  BY ONLY <1>2, FirstStatus(first \o second) = "ok", both = first \o second, FirstStatusOk
<1>4. ASSUME NEW i \in 1..Len(first) PROVE first[i] = "ok"
  <2>1. i \in 1..Len(both)
    BY <1>1
  <2> QED
    BY <1>1, <1>3, <2>1
<1>5. ASSUME NEW i \in 1..Len(second) PROVE second[i] = "ok"
  <2>1. Len(first) + i \in 1..Len(both)
    BY <1>1
  <2> QED
    BY <1>1, <1>3, <2>1
<1> QED
  BY <1>4, <1>5

\* What was validated is there, and fits.
LEMMA ValidatedFits ==
    ASSUME NEW h, NEW adopted, NEW retained, HeapSound(h, adopted, retained),
           NEW name \in DOMAIN h.arrays, ValidateArray(h.storages, h.arrays[name]) = "ok"
    PROVE  Fits(h.storages, h.arrays[name])
<1>1. h.arrays[name].storage # NoStorage
  BY DEF ValidateArray
<1>2. name \in LiveIn(h)
  BY <1>1 DEF LiveIn, NoArray
<1> QED
  BY <1>2, ReadableFits DEF HeapSound

\* The inputs of an operation that goes on are there, and fit.
LEMMA InputsAreThere ==
    ASSUME NEW h, NEW adopted, NEW retained, HeapSound(h, adopted, retained),
           NEW out, NEW inputs \in Seq(DOMAIN h.arrays), InputsStatus(h, out, inputs) = "ok"
    PROVE  \A i \in 1..Len(inputs) : Fits(h.storages, h.arrays[inputs[i]])
<1> DEFINE first == <<PrepareOutput(h, out, inputs)>>
           second == [i \in DOMAIN inputs |-> ValidateArray(h.storages, h.arrays[inputs[i]])]
           S == {first[1]} \cup {second[i] : i \in 1..Len(inputs)}
<1>1. DOMAIN inputs = 1..Len(inputs) /\ Len(inputs) \in Nat
  OBVIOUS
<1>2. first \in Seq(S) /\ second \in Seq(S) /\ Len(second) = Len(inputs)
  BY <1>1
<1>3. FirstStatus(first \o second) = "ok"
  BY DEF InputsStatus
<1>4. \A i \in 1..Len(inputs) : second[i] = "ok"
  <2> HIDE DEF first, second, S
  <2> QED
    BY <1>2, <1>3, BothAreOk
<1>5. \A i \in 1..Len(inputs) : ValidateArray(h.storages, h.arrays[inputs[i]]) = "ok"
  BY <1>1, <1>4
<1> QED
  BY <1>1, <1>5, ValidatedFits

\* What is done with one input that fits.
LEMMA OneInput ==
    ASSUME NEW h, NEW adopted, NEW retained, HeapSound(h, adopted, retained),
           NEW out, NEW source \in DOMAIN h.arrays, NEW result,
           Fits(h.storages, h.arrays[source]) => Outcome(h, out, adopted, retained, result)
    PROVE  Outcome(h, out, adopted, retained, When(h, <<InputsStatus(h, out, <<source>>)>>, result))
<1>1. ASSUME FirstStatus(<<InputsStatus(h, out, <<source>>)>>) = "ok"
      PROVE  Fits(h.storages, h.arrays[source])
  <2> PICK status : status = InputsStatus(h, out, <<source>>)
    OBVIOUS
  <2> PICK inputs : inputs = <<source>>
    OBVIOUS
  <2>1. Len(<<status>>) \in Nat /\ 1 \in 1..Len(<<status>>) /\ <<status>>[1] = status
    OBVIOUS
  <2>2. status = "ok"
    <3> PICK statuses : statuses = <<status>>
      OBVIOUS
    <3> QED
      BY <1>1, <2>1, FirstStatusOk
  <2>3. inputs \in Seq(DOMAIN h.arrays) /\ 1 \in 1..Len(inputs) /\ inputs[1] = source
    <3> ASSUME NEW D, NEW x \in D PROVE <<x>> \in Seq(D) /\ 1 \in 1..Len(<<x>>) /\ <<x>>[1] = x
      OBVIOUS
    <3> QED
      OBVIOUS
  <2>4. \A i \in 1..Len(inputs) : Fits(h.storages, h.arrays[inputs[i]])
    BY <2>2, <2>3, InputsAreThere
  <2> QED
    BY <2>3, <2>4
<1> QED
  BY <1>1, WhenOutcome

-----------------------------------------------------------------------------
(* Views *)

\* A view of all elements is one.
LEMMA ShareOutcome ==
    ASSUME NEW h, NEW adopted, NEW retained \in Seq(Nat), HeapSound(h, adopted, retained),
           NEW out \in DOMAIN h.arrays, NEW source \in DOMAIN h.arrays
    PROVE  Outcome(h, out, adopted, retained, Share(h, out, source))
<1> PICK s : s = h.arrays[source]
  OBVIOUS
<1> PICK result : result = CreateView(h, out, s, s)
  OBVIOUS
<1>1. Share(h, out, source) = When(h, <<InputsStatus(h, out, <<source>>)>>, result)
  BY DEF Share, Checked
<1>2. Fits(h.storages, s) => Outcome(h, out, adopted, retained, result)
  BY CreateViewOutcome DEF Fits
<1> QED
  BY <1>1, <1>2, OneInput

\* A view in another shape is a descriptor.
LEMMA ReshapeViewOutcome ==
    ASSUME NEW h, NEW adopted, NEW retained \in Seq(Nat), HeapSound(h, adopted, retained),
           NEW out \in DOMAIN h.arrays, NEW source \in DOMAIN h.arrays, NEW shape \in Seq(Nat)
    PROVE  Outcome(h, out, adopted, retained, ReshapeView(h, out, source, shape))
<1> PICK s : s = h.arrays[source]
  OBVIOUS
<1> PICK view : view = Reshaped(s, shape)
  OBVIOUS
<1> PICK result : result = CreateView(h, out, s, view)
  OBVIOUS
<1> PICK statuses : statuses = <<Must(IsContiguous(s), "unsupported"), ShapeStatus(shape),
                                 Must(Product(shape) = Size(s), "argument"), ContiguousStatus(shape)>>
  OBVIOUS
<1>1. ReshapeView(h, out, source, shape)
        = When(h, <<InputsStatus(h, out, <<source>>)>>, When(h, statuses, result))
  BY DEF ReshapeView, Checked
<1>2. ASSUME Fits(h.storages, s) PROVE Outcome(h, out, adopted, retained, When(h, statuses, result))
  <2>1. IsDescriptor(s) /\ s.storage \in DOMAIN h.storages
    BY <1>2 DEF Fits
  <2> PICK strides : strides = ContiguousStrides(shape)
    OBVIOUS
  <2>2. strides \in Seq(Int) /\ Len(strides) = Len(shape)
    BY ContiguousStridesType
  <2>3. view = [storage |-> s.storage, dtype |-> s.dtype, shape |-> shape, strides |-> strides,
                offset |-> s.offset, own |-> s.own, readonly |-> s.readonly]
    BY <2>1 DEF Reshaped, IsDescriptor
  <2>4. IsDescriptor(view) /\ view.storage = s.storage
    BY <2>1, <2>2, <2>3 DEF IsDescriptor
  <2>5. Outcome(h, out, adopted, retained, result)
    BY <2>1, <2>4, CreateViewOutcome
  <2> QED
    BY <2>5, WhenOutcome
<1> QED
  BY <1>1, <1>2, OneInput

\* A bound of a slice is an integer between its limits.
LEMMA BoundIsInteger ==
    ASSUME NEW bound, IsBound(bound), NEW default \in Int, NEW length \in Int, NEW low \in Int, NEW high \in Int
    PROVE  Bound(bound, default, length, low, high) \in Int
<1>1. bound # <<>> => bound[1] \in Int
  BY DEF IsBound
<1> QED
  BY <1>1 DEF Bound, Clamp

\* A descriptor with other axes and another start.
LEMMA WithThree ==
    ASSUME NEW s,
           s = [storage |-> s.storage, dtype |-> s.dtype, shape |-> s.shape, strides |-> s.strides,
                offset |-> s.offset, own |-> s.own, readonly |-> s.readonly],
           NEW shape, NEW strides, NEW offset,
           NEW made, made = [s EXCEPT !.shape = shape, !.strides = strides, !.offset = offset]
    PROVE  made = [storage |-> s.storage, dtype |-> s.dtype, shape |-> shape, strides |-> strides,
                   offset |-> offset, own |-> s.own, readonly |-> s.readonly]
<1> PICK s1 : s1 = [s EXCEPT !.shape = shape]
  OBVIOUS
<1>1. s1 = [storage |-> s.storage, dtype |-> s.dtype, shape |-> shape, strides |-> s.strides,
            offset |-> s.offset, own |-> s.own, readonly |-> s.readonly]
  OBVIOUS
<1> PICK s2 : s2 = [s1 EXCEPT !.strides = strides]
  OBVIOUS
<1>2. s2 = [storage |-> s.storage, dtype |-> s.dtype, shape |-> shape, strides |-> strides,
            offset |-> s.offset, own |-> s.own, readonly |-> s.readonly]
  BY <1>1
<1>3. [s2 EXCEPT !.offset = offset]
        = [storage |-> s.storage, dtype |-> s.dtype, shape |-> shape, strides |-> strides,
           offset |-> offset, own |-> s.own, readonly |-> s.readonly]
  BY ONLY <1>2
<1> QED
  BY <1>3

\* A slice is a descriptor, with as many elements as lie between its bounds.
LEMMA SlicedType ==
    ASSUME NEW s, IsDescriptor(s), NEW axis \in DOMAIN s.shape, NEW slice,
           slice.step \in Int, slice.step # 0, IsBound(slice.start), IsBound(slice.stop)
    PROVE  IsDescriptor(Sliced(s, axis, slice)) /\ Sliced(s, axis, slice).storage = s.storage
<1> PICK length : length = s.shape[axis]
  OBVIOUS
<1> PICK step : step = slice.step
  OBVIOUS
<1> PICK start : start = SliceStart(length, slice)
  OBVIOUS
<1> PICK stop : stop = SliceStop(length, slice)
  OBVIOUS
<1>1. /\ s.shape \in Seq(Nat) /\ s.strides \in Seq(Int) /\ Len(s.strides) = Len(s.shape)
      /\ axis \in 1..Len(s.shape) /\ axis \in 1..Len(s.strides)
      /\ length \in Nat /\ s.strides[axis] \in Int /\ s.offset \in Int
  BY DEF IsDescriptor
<1>2. start \in Int
  BY <1>1, BoundIsInteger DEF SliceStart
<1>3. stop \in Int
  BY <1>1, BoundIsInteger DEF SliceStop
<1> PICK count : count = SliceCount(length, slice)
  OBVIOUS
<1>4. count \in Nat
  <2>1. ASSUME NEW distance \in Int, NEW magnitude \in Nat, magnitude > 0
        PROVE  (IF distance > 0 THEN 1 + ((distance - 1) \div magnitude) ELSE 0) \in Nat
    <3>1. ASSUME NEW x \in Nat PROVE x \div magnitude \in Nat
      BY <2>1
    <3>2. CASE distance > 0
      <4>1. distance - 1 \in Nat
        BY <3>2
      <4>2. (distance - 1) \div magnitude \in Nat
        BY <3>1, <4>1
      <4> QED
        BY <3>2, <4>2
    <3> QED
      BY <3>2
  <2>2. CASE step > 0
    <3>1. count = IF stop - start > 0 THEN 1 + (((stop - start) - 1) \div step) ELSE 0
      BY <2>2 DEF SliceCount
    <3>2. stop - start \in Int /\ step \in Nat
      BY <1>2, <1>3, <2>2
    <3> QED
      BY ONLY <2>1, <2>2, <3>1, <3>2
  <2>3. CASE ~(step > 0)
    <3>1. count = IF start - stop > 0 THEN 1 + (((start - stop) - 1) \div (-step)) ELSE 0
      BY <2>3 DEF SliceCount
    <3>2. start - stop \in Int /\ -step \in Nat /\ -step > 0
      BY <1>2, <1>3, <2>3
    <3> QED
      BY ONLY <2>1, <3>1, <3>2
  <2> QED
    BY <2>2, <2>3
<1> PICK moved : moved = IF count = 0 THEN s.offset
                         ELSE (s.offset + start * s.strides[axis]) % (MaxSize + 1)
  OBVIOUS
<1>5. moved \in Int
  <2>1. ASSUME NEW x \in Int, NEW y \in Int, NEW z \in Int, NEW m \in Nat
        PROVE  (x + y * z) % (m + 1) \in Int
    <3>1. x + y * z \in Int
      OBVIOUS
    <3> QED
      BY <3>1
  <2>2. MaxSize \in Nat
    BY StridesAreSizes
  <2> QED
    BY <1>1, <1>2, <2>1, <2>2
<1> PICK shape : shape = [s.shape EXCEPT ![axis] = count]
  OBVIOUS
<1> PICK strides : strides = [s.strides EXCEPT ![axis] = s.strides[axis] * step]
  OBVIOUS
<1>6. shape \in Seq(Nat) /\ Len(shape) = Len(s.shape)
  BY <1>1, <1>4
<1>7. strides \in Seq(Int) /\ Len(strides) = Len(s.shape)
  <2>1. s.strides[axis] * step \in Int
    BY <1>1
  <2> QED
    BY <1>1, <2>1
<1>8. Sliced(s, axis, slice)
        = [storage |-> s.storage, dtype |-> s.dtype, shape |-> shape, strides |-> strides,
           offset |-> moved, own |-> s.own, readonly |-> s.readonly]
  <2>1. s = [storage |-> s.storage, dtype |-> s.dtype, shape |-> s.shape, strides |-> s.strides,
             offset |-> s.offset, own |-> s.own, readonly |-> s.readonly]
    BY DEF IsDescriptor
  <2> PICK made : made = [s EXCEPT !.shape = shape, !.strides = strides, !.offset = moved]
    OBVIOUS
  <2>2. made = [storage |-> s.storage, dtype |-> s.dtype, shape |-> shape, strides |-> strides,
                offset |-> moved, own |-> s.own, readonly |-> s.readonly]
    BY <2>1, WithThree
  <2>3. Sliced(s, axis, slice) = [s EXCEPT !.shape[axis] = count, !.strides[axis] = @ * step, !.offset = moved]
    BY DEF Sliced
  <2>4. [s EXCEPT !.shape[axis] = count, !.strides[axis] = @ * step, !.offset = moved]
          = [s EXCEPT !.shape = shape, !.strides = strides, !.offset = moved]
    BY <2>1
  <2> QED
    BY <2>2, <2>3, <2>4
<1> QED
  BY <1>5, <1>6, <1>7, <1>8 DEF IsDescriptor

\* A slice is a view of its source.
LEMMA SliceViewOutcome ==
    ASSUME NEW h, NEW adopted, NEW retained \in Seq(Nat), HeapSound(h, adopted, retained),
           NEW out \in DOMAIN h.arrays, NEW source \in DOMAIN h.arrays, NEW axis, NEW slice,
           slice.step \in Int, IsBound(slice.start), IsBound(slice.stop)
    PROVE  Outcome(h, out, adopted, retained, SliceView(h, out, source, axis, slice))
<1> PICK s : s = h.arrays[source]
  OBVIOUS
<1> PICK view : view = Sliced(s, axis, slice)
  OBVIOUS
<1> PICK statuses :
      statuses = <<Must(s.shape[axis] =< MaxStride /\ slice.step # -MaxStride - 1, "overflow"),
                   Must(s.strides[axis] * slice.step \in (-MaxStride - 1)..MaxStride, "overflow")>>
  OBVIOUS
<1> PICK result : result = IF axis \notin DOMAIN s.shape \/ slice.step = 0 THEN Refused(h, "argument")
                           ELSE When(h, statuses, CreateView(h, out, s, view))
  OBVIOUS
<1>1. SliceView(h, out, source, axis, slice) = When(h, <<InputsStatus(h, out, <<source>>)>>, result)
  BY DEF SliceView, Checked
<1>2. ASSUME Fits(h.storages, s) PROVE Outcome(h, out, adopted, retained, result)
  <2>1. CASE axis \notin DOMAIN s.shape \/ slice.step = 0
    BY <2>1, RefusedOutcome
  <2>2. CASE axis \in DOMAIN s.shape /\ slice.step # 0
    <3>1. IsDescriptor(s) /\ s.storage \in DOMAIN h.storages
      BY <1>2 DEF Fits
    <3>2. IsDescriptor(view) /\ view.storage = s.storage
      BY <2>2, <3>1, SlicedType
    <3>3. Outcome(h, out, adopted, retained, CreateView(h, out, s, view))
      BY <3>1, <3>2, CreateViewOutcome
    <3>4. Outcome(h, out, adopted, retained, When(h, statuses, CreateView(h, out, s, view)))
      BY <3>3, WhenOutcome
    <3> QED
      BY <2>2, <3>4
  <2> QED
    BY <2>1, <2>2
<1> QED
  BY <1>1, <1>2, OneInput

\* The older slice is refused or is a slice.
LEMMA SliceWithinOutcome ==
    ASSUME NEW h, NEW adopted, NEW retained \in Seq(Nat), HeapSound(h, adopted, retained),
           NEW out \in DOMAIN h.arrays, NEW source \in DOMAIN h.arrays, NEW axis,
           NEW start \in Int, NEW stop \in Int, NEW step \in Int
    PROVE  Outcome(h, out, adopted, retained, SliceWithin(h, out, source, axis, start, stop, step))
<1> PICK slice : slice = [start |-> <<start>>, stop |-> <<stop>>, step |-> step]
  OBVIOUS
<1>1. \/ SliceWithin(h, out, source, axis, start, stop, step) = Refused(h, "argument")
      \/ SliceWithin(h, out, source, axis, start, stop, step) = SliceView(h, out, source, axis, slice)
  BY DEF SliceWithin
<1>2. slice.step = step /\ IsBound(slice.start) /\ IsBound(slice.stop)
  BY DEF IsBound
<1>3. Outcome(h, out, adopted, retained, SliceView(h, out, source, axis, slice))
  BY <1>2, SliceViewOutcome
<1> QED
  BY <1>1, <1>3, RefusedOutcome

\* A descriptor with other axes.
LEMMA WithTwo ==
    ASSUME NEW s, IsDescriptor(s), NEW shape \in Seq(Nat), NEW strides \in Seq(Int), Len(strides) = Len(shape),
           NEW made, made = [s EXCEPT !.shape = shape, !.strides = strides]
    PROVE  IsDescriptor(made) /\ made.storage = s.storage
<1>1. s = [storage |-> s.storage, dtype |-> s.dtype, shape |-> s.shape, strides |-> s.strides,
           offset |-> s.offset, own |-> s.own, readonly |-> s.readonly]
        /\ s.offset \in Int /\ s.storage \in Nat
  BY DEF IsDescriptor
<1> PICK s1 : s1 = [s EXCEPT !.shape = shape]
  OBVIOUS
<1>2. s1 = [storage |-> s.storage, dtype |-> s.dtype, shape |-> shape, strides |-> s.strides,
            offset |-> s.offset, own |-> s.own, readonly |-> s.readonly]
  BY <1>1
<1>3. [s1 EXCEPT !.strides = strides]
        = [storage |-> s.storage, dtype |-> s.dtype, shape |-> shape, strides |-> strides,
           offset |-> s.offset, own |-> s.own, readonly |-> s.readonly]
  BY ONLY <1>2
<1> QED
  BY <1>1, <1>3 DEF IsDescriptor

\* The axes in another order are those of a descriptor.
LEMMA TransposeViewOutcome ==
    ASSUME NEW h, NEW adopted, NEW retained \in Seq(Nat), HeapSound(h, adopted, retained),
           NEW out \in DOMAIN h.arrays, NEW source \in DOMAIN h.arrays, NEW axes \in Seq(Int)
    PROVE  Outcome(h, out, adopted, retained, TransposeView(h, out, source, axes))
<1> PICK s : s = h.arrays[source]
  OBVIOUS
<1> PICK order : order = IF axes = <<>> THEN Reverse([axis \in DOMAIN s.shape |-> axis]) ELSE axes
  OBVIOUS
<1> PICK shape : shape = [axis \in DOMAIN order |-> s.shape[order[axis]]]
  OBVIOUS
<1> PICK strides : strides = [axis \in DOMAIN order |-> s.strides[order[axis]]]
  OBVIOUS
<1> PICK view : view = [s EXCEPT !.shape = shape, !.strides = strides]
  OBVIOUS
<1> PICK result : result = CreateView(h, out, s, view)
  OBVIOUS
<1> PICK statuses : statuses = <<Must(ToSet(order) = DOMAIN s.shape /\ Len(order) = Len(s.shape), "argument")>>
  OBVIOUS
<1>1. TransposeView(h, out, source, axes)
        = When(h, <<InputsStatus(h, out, <<source>>)>>, When(h, statuses, result))
  BY DEF TransposeView, Checked
<1>2. ASSUME Fits(h.storages, s), FirstStatus(statuses) = "ok" PROVE Outcome(h, out, adopted, retained, result)
  <2>1. IsDescriptor(s) /\ s.storage \in DOMAIN h.storages
    BY <1>2 DEF Fits
  <2> PICK N : N = Len(s.shape)
    OBVIOUS
  <2>2. N \in Nat /\ DOMAIN s.shape = 1..N /\ DOMAIN s.strides = 1..N
          /\ \A axis \in 1..N : s.shape[axis] \in Nat /\ s.strides[axis] \in Int
    <3>1. s.shape \in Seq(Nat) /\ s.strides \in Seq(Int) /\ Len(s.strides) = Len(s.shape)
      BY <2>1 DEF IsDescriptor
    <3> QED
      BY ONLY <3>1, N = Len(s.shape)
  <2>3. ToSet(order) = 1..N /\ Len(order) = N
    <3> PICK status : status = Must(ToSet(order) = DOMAIN s.shape /\ Len(order) = Len(s.shape), "argument")
      OBVIOUS
    <3>1. Len(statuses) \in Nat /\ 1 \in 1..Len(statuses) /\ statuses[1] = status
      <4>1. statuses = <<status>>
        OBVIOUS
      <4> QED
        BY ONLY <4>1
    <3>2. status = "ok"
      BY <1>2, <3>1, FirstStatusOk
    <3> QED
      BY <2>2, <3>2 DEF Must
  <2>4. DOMAIN order = 1..N
    <3>1. CASE axes = <<>>
      <4>1. order = Reverse([axis \in 1..N |-> axis])
        BY <2>2, <3>1
      <4>2. DOMAIN Reverse([axis \in 1..N |-> axis]) = 1..N
        BY ONLY <2>2 DEF Reverse
      <4> QED
        BY <4>1, <4>2
    <3>2. CASE axes # <<>>
      BY <2>2, <2>3, <3>2
    <3> QED
      BY <3>1, <3>2
  <2>5. \A axis \in 1..N : order[axis] \in 1..N
    BY <2>3, <2>4 DEF ToSet
  <2>6. /\ shape = [axis \in 1..N |-> shape[axis]] /\ strides = [axis \in 1..N |-> strides[axis]]
        /\ \A axis \in 1..N : shape[axis] \in Nat /\ strides[axis] \in Int
    BY <2>2, <2>4, <2>5
  <2>7. shape \in Seq(Nat) /\ Len(shape) = N
    BY ONLY <2>2, <2>6, IsShape
  <2>8. strides \in Seq(Int) /\ Len(strides) = N
    BY ONLY <2>2, <2>6, IsSequence
  <2>9. IsDescriptor(view) /\ view.storage = s.storage
    <3>1. view = [s EXCEPT !.shape = shape, !.strides = strides] /\ Len(strides) = Len(shape)
      BY <2>7, <2>8
    <3>2. IsDescriptor(s) /\ shape \in Seq(Nat) /\ strides \in Seq(Int)
      BY ONLY <2>1, <2>7, <2>8
    <3> QED
      BY ONLY <3>1, <3>2, WithTwo
  <2> QED
    BY <2>1, <2>9, CreateViewOutcome
<1>3. Fits(h.storages, s) => Outcome(h, out, adopted, retained, When(h, statuses, result))
  <2> SUFFICES ASSUME Fits(h.storages, s) PROVE Outcome(h, out, adopted, retained, When(h, statuses, result))
    OBVIOUS
  <2>1. FirstStatus(statuses) = "ok" => Outcome(h, out, adopted, retained, result)
    BY <1>2
  <2> QED
    BY <2>1, WhenOutcome
<1> QED
  BY <1>1, <1>3, OneInput

\* The axes that repeat an element are those of a descriptor.
LEMMA BroadcastType ==
    ASSUME NEW s, IsDescriptor(s), NEW shape \in Seq(Nat), BroadcastsTo(s, shape)
    PROVE  IsDescriptor(Broadcast(s, shape)) /\ Broadcast(s, shape).storage = s.storage
<1> PICK N : N = Len(shape)
  OBVIOUS
<1> PICK M : M = Len(s.shape)
  OBVIOUS
<1> PICK strides : strides = [axis \in DOMAIN shape |->
                                IF axis > N - M /\ s.shape[axis - (N - M)] = shape[axis]
                                  THEN s.strides[axis - (N - M)] ELSE 0]
  OBVIOUS
<1>1. /\ N \in Nat /\ M \in Nat /\ N >= M /\ DOMAIN shape = 1..N
      /\ s.strides \in Seq(Int) /\ Len(s.strides) = M
  BY DEF BroadcastsTo, IsDescriptor
<1>2. \A axis \in 1..M : s.strides[axis] \in Int
  BY <1>1
<1>3. /\ strides = [axis \in 1..N |-> strides[axis]]
      /\ \A axis \in 1..N : strides[axis] \in Int
  <2>1. ASSUME NEW axis \in 1..N PROVE strides[axis] \in Int
    <3>1. CASE axis > N - M
      <4>1. axis - (N - M) \in 1..M
        BY ONLY <1>1, <3>1, axis \in 1..N
      <4>2. s.strides[axis - (N - M)] \in Int
        BY <1>2, <4>1
      <4> QED
        BY <1>1, <4>2
    <3>2. CASE ~(axis > N - M)
      BY <1>1, <3>2
    <3> QED
      BY <3>1, <3>2
  <2> QED
    BY <1>1, <2>1
<1>4. strides \in Seq(Int) /\ Len(strides) = N
  BY ONLY <1>1, <1>3, IsSequence
<1> PICK s1 : s1 = [s EXCEPT !.shape = shape]
  OBVIOUS
<1> PICK readonly : readonly = TRUE
  OBVIOUS
<1> PICK s2 : s2 = [s1 EXCEPT !.readonly = readonly]
  OBVIOUS
<1>5. s = [storage |-> s.storage, dtype |-> s.dtype, shape |-> s.shape, strides |-> s.strides,
           offset |-> s.offset, own |-> s.own, readonly |-> s.readonly]
        /\ s.offset \in Int /\ s.storage \in Nat
  BY DEF IsDescriptor
<1>6. s1 = [storage |-> s.storage, dtype |-> s.dtype, shape |-> shape, strides |-> s.strides,
            offset |-> s.offset, own |-> s.own, readonly |-> s.readonly]
  BY ONLY <1>5, s1 = [s EXCEPT !.shape = shape]
<1>7. s2 = [storage |-> s.storage, dtype |-> s.dtype, shape |-> shape, strides |-> s.strides,
            offset |-> s.offset, own |-> s.own, readonly |-> readonly]
  BY ONLY <1>6, s2 = [s1 EXCEPT !.readonly = readonly]
<1>8. [s2 EXCEPT !.strides = strides]
        = [storage |-> s.storage, dtype |-> s.dtype, shape |-> shape, strides |-> strides,
           offset |-> s.offset, own |-> s.own, readonly |-> readonly]
  BY ONLY <1>7
<1>9. Broadcast(s, shape) = [s2 EXCEPT !.strides = strides]
  BY DEF Broadcast
<1> QED
  BY <1>4, <1>5, <1>8, <1>9 DEF IsDescriptor

\* A broadcast is a view of its source.
LEMMA BroadcastViewOutcome ==
    ASSUME NEW h, NEW adopted, NEW retained \in Seq(Nat), HeapSound(h, adopted, retained),
           NEW out \in DOMAIN h.arrays, NEW source \in DOMAIN h.arrays, NEW shape \in Seq(Nat)
    PROVE  Outcome(h, out, adopted, retained, BroadcastView(h, out, source, shape))
<1> PICK s : s = h.arrays[source]
  OBVIOUS
<1> PICK view : view = Broadcast(s, shape)
  OBVIOUS
<1> PICK result : result = CreateView(h, out, s, view)
  OBVIOUS
<1> PICK statuses : statuses = <<Must(BroadcastsTo(s, shape), "argument"), ShapeStatus(shape)>>
  OBVIOUS
<1>1. BroadcastView(h, out, source, shape)
        = When(h, <<InputsStatus(h, out, <<source>>)>>, When(h, statuses, result))
  BY DEF BroadcastView, Checked
<1>2. ASSUME Fits(h.storages, s), FirstStatus(statuses) = "ok" PROVE Outcome(h, out, adopted, retained, result)
  <2>1. IsDescriptor(s) /\ s.storage \in DOMAIN h.storages
    BY <1>2 DEF Fits
  <2>2. BroadcastsTo(s, shape)
    <3> PICK status : status = Must(BroadcastsTo(s, shape), "argument")
      OBVIOUS
    <3> PICK other : other = ShapeStatus(shape)
      OBVIOUS
    <3>1. Len(statuses) \in Nat /\ 1 \in 1..Len(statuses) /\ statuses[1] = status
      <4>1. statuses = <<status, other>>
        OBVIOUS
      <4> QED
        BY ONLY <4>1
    <3>2. status = "ok"
      BY <1>2, <3>1, FirstStatusOk
    <3> QED
      BY <3>2 DEF Must
  <2>3. IsDescriptor(view) /\ view.storage = s.storage
    BY <2>1, <2>2, BroadcastType
  <2> QED
    BY <2>1, <2>3, CreateViewOutcome
<1>3. Fits(h.storages, s) => Outcome(h, out, adopted, retained, When(h, statuses, result))
  <2> SUFFICES ASSUME Fits(h.storages, s) PROVE Outcome(h, out, adopted, retained, When(h, statuses, result))
    OBVIOUS
  <2>1. FirstStatus(statuses) = "ok" => Outcome(h, out, adopted, retained, result)
    BY <1>2
  <2> QED
    BY <2>1, WhenOutcome
<1> QED
  BY <1>1, <1>3, OneInput

-----------------------------------------------------------------------------
(* Arrays of their own *)

\* A function on the first numbers is as many cells.
LEMMA CellsType ==
    ASSUME NEW n \in Nat, NEW cells, cells = [i \in 1..n |-> cells[i]]
    PROVE  AreCells(cells) /\ Len(cells) = n
<1>1. Len(cells) = n
  OBVIOUS
<1> QED
  BY <1>1 DEF AreCells

\* An array has as many elements as its shape says.
LEMMA ElementsType ==
    ASSUME NEW storages, NEW d, IsDescriptor(d)
    PROVE  /\ Size(d) \in Nat /\ AreCells(Elements(storages, d)) /\ Len(Elements(storages, d)) = Size(d)
           /\ DOMAIN Elements(storages, d) = 1..Size(d)
<1>1. Size(d) \in Nat
  BY ProductType DEF IsDescriptor, Size
<1> PICK elements : elements = Elements(storages, d)
  OBVIOUS
<1> PICK n : n = Size(d)
  OBVIOUS
<1>2. elements = [i \in 1..n |-> elements[i]]
  BY DEF Elements
<1> QED
  BY <1>1, <1>2, CellsType

\* A line of elements is a shape when it is no longer than a size can be.
LEMMA LineShape ==
    ASSUME NEW n \in Nat, n =< MaxSize
    PROVE  <<n>> \in Seq(Nat) /\ Product(<<n>>) = n /\ ShapeStatus(<<n>>) = "ok"
<1> PICK dims : dims = <<n>>
  OBVIOUS
<1>1. dims \in Seq(Int) /\ dims \in Seq(Nat) /\ Len(dims) = 1 /\ DOMAIN dims = {1} /\ dims[1] = n
  BY ONLY n \in Nat, dims = <<n>>
<1> PICK P : P = Products(dims)
  OBVIOUS
<1>2. P[0] = 1 /\ \A m \in 1..Len(dims) : P[m] = P[m - 1] * dims[m]
  BY <1>1, ProductsDefined
<1>3. P[1] = n
  <2>1. P[1] = P[0] * dims[1]
    BY <1>1, <1>2
  <2> QED
    BY <1>1, <1>2, <2>1
<1>4. Product(dims) = n
  BY <1>1, <1>3 DEF Product
<1>5. ShapeStatus(dims) = "ok"
  BY <1>1, <1>3 DEF ShapeStatus, Must
<1> QED
  BY <1>1, <1>4, <1>5

\* One element without an axis is a shape too.
LEMMA ScalarShape ==
    /\ <<>> \in Seq(Nat) /\ Product(<<>>) = 1 /\ ShapeStatus(<<>>) = "ok"
<1> PICK dims : dims = <<>>
  OBVIOUS
<1>1. dims \in Seq(Int) /\ dims \in Seq(Nat) /\ Len(dims) = 0 /\ DOMAIN dims = {}
  BY ONLY dims = <<>>
<1>2. Products(dims)[0] = 1
  BY <1>1, ProductsDefined
<1>3. Product(dims) = 1
  BY <1>1, <1>2 DEF Product
<1>4. ShapeStatus(dims) = "ok"
  BY <1>1 DEF ShapeStatus, Must
<1> QED
  BY <1>1, <1>3, <1>4

\* A shape that is no problem has no more elements than a size can say.
LEMMA SizeIsBounded ==
    ASSUME NEW shape \in Seq(Nat), ShapeStatus(shape) = "ok"
    PROVE  Product(shape) =< MaxSize
<1>1. \A n \in 1..Len(shape) : Products(shape)[n] =< MaxSize
  BY DEF ShapeStatus, Must
<1>2. CASE Len(shape) = 0
  <2>1. shape = <<>>
    BY <1>2
  <2>2. Product(shape) = 1
    BY <2>1, ScalarShape
  <2> QED
    BY <2>2, StridesAreSizes
<1>3. CASE Len(shape) # 0
  <2>1. Len(shape) \in 1..Len(shape)
    BY <1>3
  <2> QED
    BY <1>1, <2>1 DEF Product
<1> QED
  BY <1>2, <1>3

\* The shape of an array that fits.
LEMMA ShapeOfFitting ==
    ASSUME NEW h, NEW adopted, NEW retained, HeapSound(h, adopted, retained), NEW d, Fits(h.storages, d)
    PROVE  /\ IsDescriptor(d) /\ d.shape \in Seq(Nat) /\ ShapeStatus(d.shape) = "ok"
           /\ Product(d.shape) = Size(d) /\ Size(d) \in Nat /\ Size(d) =< MaxSize
<1>1. IsDescriptor(d) /\ d.storage \in DOMAIN h.storages /\ ValidateArray(h.storages, d) = "ok"
  BY DEF Fits
<1>2. d.storage # NoStorage
  BY <1>1 DEF HeapSound, HeapTyped
<1>3. ShapeStatus(d.shape) = "ok" /\ d.shape \in Seq(Nat)
  BY <1>1, <1>2, Validated DEF IsDescriptor
<1>4. Product(d.shape) \in Nat /\ Product(d.shape) =< MaxSize
  BY <1>3, ProductType, SizeIsBounded
<1> QED
  BY <1>1, <1>3, <1>4 DEF Size

\* A status that comes first or second.
LEMMA TwoAreOk ==
    ASSUME NEW first, NEW second, FirstStatus(<<first, second>>) = "ok"
    PROVE  first = "ok" /\ second = "ok"
<1> PICK statuses : statuses = <<first, second>>
  OBVIOUS
<1>1. Len(statuses) = 2 /\ Len(statuses) \in Nat /\ 1 \in 1..2 /\ 2 \in 1..2
        /\ statuses[1] = first /\ statuses[2] = second
  BY ONLY statuses = <<first, second>>
<1> QED
  BY <1>1, FirstStatusOk

\* Or third.
LEMMA ThreeAreOk ==
    ASSUME NEW first, NEW second, NEW third, FirstStatus(<<first, second, third>>) = "ok"
    PROVE  first = "ok" /\ second = "ok" /\ third = "ok"
<1> PICK statuses : statuses = <<first, second, third>>
  OBVIOUS
<1>1. Len(statuses) = 3 /\ Len(statuses) \in Nat /\ 1 \in 1..3 /\ 2 \in 1..3 /\ 3 \in 1..3
        /\ statuses[1] = first /\ statuses[2] = second /\ statuses[3] = third
  BY ONLY statuses = <<first, second, third>>
<1> QED
  BY <1>1, FirstStatusOk

\* What can be allocated has a shape that is no problem.
LEMMA AllocatedShape ==
    ASSUME NEW shape, AllocateStatus(shape) = "ok"
    PROVE  ShapeStatus(shape) = "ok"
<1>1. FirstStatus(<<ShapeStatus(shape), ContiguousStatus(shape)>>) = "ok"
  BY DEF AllocateStatus
<1> QED
  BY <1>1, TwoAreOk

\* Given values make an array.
LEMMA FromValuesOutcome ==
    ASSUME NEW h, NEW adopted, NEW retained \in Seq(Nat), HeapSound(h, adopted, retained),
           NEW out \in DOMAIN h.arrays, NEW dtype, NEW shape \in Seq(Nat),
           NEW cells, AreCells(cells), Len(cells) = Product(shape)
    PROVE  Outcome(h, out, adopted, retained, FromValues(h, out, dtype, shape, cells))
<1> PICK prepared : prepared = PrepareOutput(h, out, <<>>)
  OBVIOUS
<1> PICK allocated : allocated = AllocateStatus(shape)
  OBVIOUS
<1> PICK result : result = CommitOwned(h, out, dtype, shape, cells)
  OBVIOUS
<1>1. FromValues(h, out, dtype, shape, cells) = When(h, <<prepared, allocated>>, result)
  BY DEF FromValues
<1>2. ASSUME FirstStatus(<<prepared, allocated>>) = "ok" PROVE Outcome(h, out, adopted, retained, result)
  <2>1. allocated = "ok"
    BY <1>2, TwoAreOk
  <2>2. ShapeStatus(shape) = "ok"
    BY <2>1, AllocatedShape
  <2> QED
    BY <2>2, CommitOwnedOutcome
<1> QED
  BY <1>1, <1>2, WhenOutcome

\* So do as many zeros.
LEMMA ZerosOutcome ==
    ASSUME NEW h, NEW adopted, NEW retained \in Seq(Nat), HeapSound(h, adopted, retained),
           NEW out \in DOMAIN h.arrays, NEW dtype, NEW shape \in Seq(Nat)
    PROVE  Outcome(h, out, adopted, retained, Zeros(h, out, dtype, shape))
<1> PICK n : n = Product(shape)
  OBVIOUS
<1> PICK cells : cells = [k \in 1..n |-> 0]
  OBVIOUS
<1>1. n \in Nat
  BY ProductType
<1>2. AreCells(cells) /\ Len(cells) = n
  <2>1. cells = [i \in 1..n |-> cells[i]]
    OBVIOUS
  <2> QED
    BY <1>1, <2>1, CellsType
<1>3. Zeros(h, out, dtype, shape) = FromValues(h, out, dtype, shape, cells)
  BY DEF Zeros
<1> QED
  BY <1>2, <1>3, FromValuesOutcome

\* A copy in another shape has the elements of its source.
LEMMA ReshapeCopyOutcome ==
    ASSUME NEW h, NEW adopted, NEW retained \in Seq(Nat), HeapSound(h, adopted, retained),
           NEW out \in DOMAIN h.arrays, NEW source \in DOMAIN h.arrays, NEW shape \in Seq(Nat)
    PROVE  Outcome(h, out, adopted, retained, ReshapeCopy(h, out, source, shape))
<1> PICK s : s = h.arrays[source]
  OBVIOUS
<1> PICK cells : cells = Elements(h.storages, s)
  OBVIOUS
<1> PICK result : result = CommitOwned(h, out, s.dtype, shape, cells)
  OBVIOUS
<1> PICK first : first = ShapeStatus(shape)
  OBVIOUS
<1> PICK second : second = Must(Product(shape) = Size(s), "argument")
  OBVIOUS
<1> PICK third : third = AllocateStatus(shape)
  OBVIOUS
<1>1. ReshapeCopy(h, out, source, shape)
        = When(h, <<InputsStatus(h, out, <<source>>)>>, When(h, <<first, second, third>>, result))
  BY DEF ReshapeCopy, Checked
<1>2. ASSUME Fits(h.storages, s), FirstStatus(<<first, second, third>>) = "ok"
      PROVE  Outcome(h, out, adopted, retained, result)
  <2>1. first = "ok" /\ second = "ok"
    BY <1>2, ThreeAreOk
  <2>2. ShapeStatus(shape) = "ok" /\ Product(shape) = Size(s)
    BY <2>1 DEF Must
  <2>3. AreCells(cells) /\ Len(cells) = Product(shape)
    BY <1>2, <2>2, ElementsType DEF Fits
  <2> QED
    BY <2>2, <2>3, CommitOwnedOutcome
<1>3. Fits(h.storages, s) => Outcome(h, out, adopted, retained, When(h, <<first, second, third>>, result))
  <2> SUFFICES ASSUME Fits(h.storages, s)
               PROVE  Outcome(h, out, adopted, retained, When(h, <<first, second, third>>, result))
    OBVIOUS
  <2>1. FirstStatus(<<first, second, third>>) = "ok" => Outcome(h, out, adopted, retained, result)
    BY <1>2
  <2> QED
    BY <2>1, WhenOutcome
<1> QED
  BY <1>1, <1>3, OneInput

\* What is done with several inputs that fit.
LEMMA SomeInputs ==
    ASSUME NEW h, NEW adopted, NEW retained, HeapSound(h, adopted, retained),
           NEW out, NEW inputs \in Seq(DOMAIN h.arrays), NEW result,
           (\A i \in 1..Len(inputs) : Fits(h.storages, h.arrays[inputs[i]]))
              => Outcome(h, out, adopted, retained, result)
    PROVE  Outcome(h, out, adopted, retained, When(h, <<InputsStatus(h, out, inputs)>>, result))
<1> PICK status : status = InputsStatus(h, out, inputs)
  OBVIOUS
<1>1. ASSUME FirstStatus(<<status>>) = "ok" PROVE \A i \in 1..Len(inputs) : Fits(h.storages, h.arrays[inputs[i]])
  <2>1. Len(<<status>>) \in Nat /\ 1 \in 1..Len(<<status>>) /\ <<status>>[1] = status
    OBVIOUS
  <2>2. status = "ok"
    <3> PICK statuses : statuses = <<status>>
      OBVIOUS
    <3> QED
      BY <1>1, <2>1, FirstStatusOk
  <2> QED
    BY <2>2, InputsAreThere
<1> QED
  BY <1>1, WhenOutcome

\* The elements at the places of a mask make a line that is no longer than it.
LEMMA MaskedLine ==
    ASSUME NEW h, NEW adopted, NEW retained, HeapSound(h, adopted, retained), NEW m, Fits(h.storages, m),
           NEW taken, taken = TrueIndices(Elements(h.storages, m))
    PROVE  /\ Len(taken) \in Nat /\ DOMAIN taken = 1..Len(taken)
           /\ <<Len(taken)>> \in Seq(Nat) /\ Product(<<Len(taken)>>) = Len(taken)
           /\ ShapeStatus(<<Len(taken)>>) = "ok"
<1> PICK mask : mask = Elements(h.storages, m)
  OBVIOUS
<1>1. Size(m) \in Nat /\ Size(m) =< MaxSize /\ IsDescriptor(m)
  BY ShapeOfFitting
<1>2. Len(mask) = Size(m)
  BY <1>1, ElementsType
<1>3. taken \in Seq(Nat) /\ Len(taken) =< Len(mask)
  BY <1>1, <1>2, TrueIndicesType
<1> PICK n : n = Len(taken)
  OBVIOUS
<1>4. n \in Nat /\ DOMAIN taken = 1..n
  BY <1>3
<1>5. n =< MaxSize
  BY <1>1, <1>2, <1>3, <1>4, StridesAreSizes
<1> QED
  BY <1>4, <1>5, LineShape

\* The elements at the places of a mask make an array.
LEMMA BooleanMaskOutcome ==
    ASSUME NEW h, NEW adopted, NEW retained \in Seq(Nat), HeapSound(h, adopted, retained),
           NEW out \in DOMAIN h.arrays, NEW source \in DOMAIN h.arrays, NEW mask \in DOMAIN h.arrays
    PROVE  Outcome(h, out, adopted, retained, BooleanMask(h, out, source, mask))
<1> PICK s : s = h.arrays[source]
  OBVIOUS
<1> PICK m : m = h.arrays[mask]
  OBVIOUS
<1> PICK elements : elements = Elements(h.storages, s)
  OBVIOUS
<1> PICK taken : taken = TrueIndices(Elements(h.storages, m))
  OBVIOUS
<1> PICK cells : cells = [k \in DOMAIN taken |-> elements[taken[k]]]
  OBVIOUS
<1> PICK n : n = Len(taken)
  OBVIOUS
<1> PICK result : result = CommitOwned(h, out, s.dtype, <<n>>, cells)
  OBVIOUS
<1> PICK statuses : statuses = <<Must(m.dtype = "bool" /\ m.shape = s.shape, "argument")>>
  OBVIOUS
<1> PICK inputs : inputs = <<source, mask>>
  OBVIOUS
<1>1. inputs[1] = source
  BY ONLY inputs = <<source, mask>>
<1>2. BooleanMask(h, out, source, mask)
        = When(h, <<InputsStatus(h, out, inputs)>>, When(h, statuses, result))
  BY <1>1 DEF BooleanMask, Checked
<1>3. inputs \in Seq(DOMAIN h.arrays) /\ 2 \in 1..Len(inputs) /\ inputs[2] = mask
  <2>1. ASSUME NEW D, NEW x \in D, NEW y \in D
        PROVE  <<x, y>> \in Seq(D) /\ 2 \in 1..Len(<<x, y>>) /\ <<x, y>>[2] = y
    OBVIOUS
  <2> QED
    BY <2>1
<1>4. ASSUME \A i \in 1..Len(inputs) : Fits(h.storages, h.arrays[inputs[i]])
      PROVE  Outcome(h, out, adopted, retained, When(h, statuses, result))
  <2>1. Fits(h.storages, m)
    BY <1>3, <1>4
  <2>2. /\ n \in Nat /\ DOMAIN taken = 1..n
        /\ <<n>> \in Seq(Nat) /\ Product(<<n>>) = n /\ ShapeStatus(<<n>>) = "ok"
    BY <2>1, MaskedLine
  <2>3. AreCells(cells) /\ Len(cells) = n
    <3>1. cells = [i \in 1..n |-> cells[i]]
      BY <2>2
    <3> QED
      BY <2>2, <3>1, CellsType
  <2> PICK shape : shape = <<n>>
    OBVIOUS
  <2>4. Outcome(h, out, adopted, retained, result)
    BY <2>2, <2>3, CommitOwnedOutcome
  <2> QED
    BY <2>4, WhenOutcome
<1> QED
  BY <1>2, <1>3, <1>4, SomeInputs

\* So do their places.
LEMMA NonZeroOutcome ==
    ASSUME NEW h, NEW adopted, NEW retained \in Seq(Nat), HeapSound(h, adopted, retained),
           NEW out \in DOMAIN h.arrays, NEW mask \in DOMAIN h.arrays
    PROVE  Outcome(h, out, adopted, retained, NonZero(h, out, mask))
<1> PICK m : m = h.arrays[mask]
  OBVIOUS
<1> PICK taken : taken = TrueIndices(Elements(h.storages, m))
  OBVIOUS
<1> PICK cells : cells = [k \in DOMAIN taken |-> taken[k] - 1]
  OBVIOUS
<1> PICK n : n = Len(taken)
  OBVIOUS
<1> PICK result : result = CommitOwned(h, out, "int64", <<n>>, cells)
  OBVIOUS
<1> PICK statuses : statuses = <<Must(m.dtype = "bool", "type")>>
  OBVIOUS
<1>1. NonZero(h, out, mask) = When(h, <<InputsStatus(h, out, <<mask>>)>>, When(h, statuses, result))
  BY DEF NonZero, Checked
<1>2. ASSUME Fits(h.storages, m) PROVE Outcome(h, out, adopted, retained, When(h, statuses, result))
  <2>1. /\ n \in Nat /\ DOMAIN taken = 1..n
        /\ <<n>> \in Seq(Nat) /\ Product(<<n>>) = n /\ ShapeStatus(<<n>>) = "ok"
    BY <1>2, MaskedLine
  <2>2. AreCells(cells) /\ Len(cells) = n
    <3>1. cells = [i \in 1..n |-> cells[i]]
      BY <2>1
    <3> QED
      BY <2>1, <3>1, CellsType
  <2> PICK shape : shape = <<n>>
    OBVIOUS
  <2>3. Outcome(h, out, adopted, retained, result)
    BY <2>1, <2>2, CommitOwnedOutcome
  <2> QED
    BY <2>3, WhenOutcome
<1> QED
  BY <1>1, <1>2, OneInput

\* A choice between the elements of two arrays makes an array.
LEMMA WhereOutcome ==
    ASSUME NEW h, NEW adopted, NEW retained \in Seq(Nat), HeapSound(h, adopted, retained),
           NEW out \in DOMAIN h.arrays, NEW condition \in DOMAIN h.arrays,
           NEW whenTrue \in DOMAIN h.arrays, NEW whenFalse \in DOMAIN h.arrays
    PROVE  Outcome(h, out, adopted, retained, Where(h, out, condition, whenTrue, whenFalse))
<1> PICK c : c = h.arrays[condition]
  OBVIOUS
<1> PICK t : t = h.arrays[whenTrue]
  OBVIOUS
<1> PICK f : f = h.arrays[whenFalse]
  OBVIOUS
<1> PICK chosen : chosen = Elements(h.storages, c)
  OBVIOUS
<1> PICK ifTrue : ifTrue = Elements(h.storages, t)
  OBVIOUS
<1> PICK ifFalse : ifFalse = Elements(h.storages, f)
  OBVIOUS
<1> PICK n : n = Size(t)
  OBVIOUS
<1> PICK cells : cells = [k \in 1..n |-> IF chosen[k] = 1 THEN ifTrue[k] ELSE ifFalse[k]]
  OBVIOUS
<1> PICK result : result = CommitOwned(h, out, t.dtype, t.shape, cells)
  OBVIOUS
<1> PICK statuses : statuses = <<Must(c.dtype = "bool", "type"),
                                 Must(c.shape = t.shape /\ t.shape = f.shape, "argument"),
                                 Must(t.dtype = f.dtype, "type"),
                                 AllocateStatus(t.shape)>>
  OBVIOUS
<1> PICK inputs : inputs = <<condition, whenTrue, whenFalse>>
  OBVIOUS
<1>1. inputs[1] = condition
  BY ONLY inputs = <<condition, whenTrue, whenFalse>>
<1>2. Where(h, out, condition, whenTrue, whenFalse)
        = When(h, <<InputsStatus(h, out, inputs)>>, When(h, statuses, result))
  BY <1>1 DEF Where, Checked
<1>3. inputs \in Seq(DOMAIN h.arrays) /\ 2 \in 1..Len(inputs) /\ inputs[2] = whenTrue
  <2>1. ASSUME NEW D, NEW x \in D, NEW y \in D, NEW z \in D
        PROVE  <<x, y, z>> \in Seq(D) /\ 2 \in 1..Len(<<x, y, z>>) /\ <<x, y, z>>[2] = y
    OBVIOUS
  <2> QED
    BY <2>1
<1>4. ASSUME \A i \in 1..Len(inputs) : Fits(h.storages, h.arrays[inputs[i]])
      PROVE  Outcome(h, out, adopted, retained, When(h, statuses, result))
  <2>1. Fits(h.storages, t)
    BY <1>3, <1>4
  <2>2. t.shape \in Seq(Nat) /\ Product(t.shape) = n /\ n \in Nat /\ ShapeStatus(t.shape) = "ok"
    BY <2>1, ShapeOfFitting
  <2>3. AreCells(cells) /\ Len(cells) = n
    <3>1. cells = [i \in 1..n |-> cells[i]]
      OBVIOUS
    <3> QED
      BY <2>2, <3>1, CellsType
  <2>4. Outcome(h, out, adopted, retained, result)
    BY <2>2, <2>3, CommitOwnedOutcome
  <2> QED
    BY <2>4, WhenOutcome
<1> PICK made : made = When(h, statuses, result)
  OBVIOUS
<1>5. (\A i \in 1..Len(inputs) : Fits(h.storages, h.arrays[inputs[i]])) => Outcome(h, out, adopted, retained, made)
  BY <1>4
<1>6. Outcome(h, out, adopted, retained, When(h, <<InputsStatus(h, out, inputs)>>, made))
  BY <1>3, <1>5, SomeInputs
<1> QED
  BY <1>2, <1>6

-----------------------------------------------------------------------------
(* Arrays of what is computed *)

\* As many results as the shape has elements make an array, when all are ok.
LEMMA CommitComputedOutcome ==
    ASSUME NEW h, NEW adopted, NEW retained \in Seq(Nat), HeapSound(h, adopted, retained),
           NEW out \in DOMAIN h.arrays, NEW dtype, NEW shape \in Seq(Nat), ShapeStatus(shape) = "ok",
           NEW n, n = Product(shape), NEW results, results = [k \in 1..n |-> results[k]]
    PROVE  Outcome(h, out, adopted, retained, CommitComputed(h, out, dtype, shape, results))
<1> PICK cells : cells = [k \in DOMAIN results |-> results[k].cell]
  OBVIOUS
<1> PICK statuses : statuses = <<AllocateStatus(shape)>> \o [k \in DOMAIN results |-> results[k].status]
  OBVIOUS
<1> PICK result : result = CommitOwned(h, out, dtype, shape, cells)
  OBVIOUS
<1>1. n \in Nat
  BY ProductType
<1>2. AreCells(cells) /\ Len(cells) = n
  <2>1. cells = [i \in 1..n |-> cells[i]]
    BY <1>1
  <2> QED
    BY <1>1, <2>1, CellsType
<1>3. CommitComputed(h, out, dtype, shape, results) = When(h, statuses, result)
  BY DEF CommitComputed
<1>4. Outcome(h, out, adopted, retained, result)
  BY <1>2, CommitOwnedOutcome
<1> QED
  BY <1>3, <1>4, WhenOutcome

\* A conversion makes an array of the shape of its source.
LEMMA ArrayCastOutcome ==
    ASSUME NEW h, NEW adopted, NEW retained \in Seq(Nat), HeapSound(h, adopted, retained),
           NEW out \in DOMAIN h.arrays, NEW source \in DOMAIN h.arrays, NEW dtype
    PROVE  Outcome(h, out, adopted, retained, ArrayCast(h, out, source, dtype))
<1> PICK s : s = h.arrays[source]
  OBVIOUS
<1> PICK elements : elements = Elements(h.storages, s)
  OBVIOUS
<1> PICK results : results = [k \in DOMAIN elements |-> Stored(dtype, elements[k])]
  OBVIOUS
<1> PICK result : result = CommitComputed(h, out, dtype, s.shape, results)
  OBVIOUS
<1> PICK statuses : statuses = <<AllReal({s.dtype, dtype})>>
  OBVIOUS
<1>1. ArrayCast(h, out, source, dtype)
        = When(h, <<InputsStatus(h, out, <<source>>)>>, When(h, statuses, result))
  BY DEF ArrayCast, Checked
<1>2. ASSUME Fits(h.storages, s) PROVE Outcome(h, out, adopted, retained, When(h, statuses, result))
  <2> PICK n : n = Size(s)
    OBVIOUS
  <2>1. IsDescriptor(s) /\ s.shape \in Seq(Nat) /\ Product(s.shape) = n /\ ShapeStatus(s.shape) = "ok"
    BY <1>2, ShapeOfFitting
  <2>2. DOMAIN elements = 1..n
    BY <2>1, ElementsType
  <2>3. results = [k \in 1..n |-> results[k]]
    BY <2>2
  <2>4. Outcome(h, out, adopted, retained, result)
    BY <2>1, <2>3, CommitComputedOutcome
  <2> QED
    BY <2>4, WhenOutcome
<1> QED
  BY <1>1, <1>2, OneInput

\* The shape two shapes are broadcast to.
LEMMA BroadcastShapeType ==
    ASSUME NEW a \in Seq(Nat), NEW b \in Seq(Nat)
    PROVE  BroadcastShape(a, b) \in Seq(Nat)
<1> PICK ndim : ndim = IF Len(a) > Len(b) THEN Len(a) ELSE Len(b)
  OBVIOUS
<1> PICK shape : shape = BroadcastShape(a, b)
  OBVIOUS
<1>1. ndim \in Nat /\ ndim >= Len(a) /\ ndim >= Len(b) /\ Len(a) \in Nat /\ Len(b) \in Nat
  OBVIOUS
<1>2. ASSUME NEW s \in Seq(Nat), ndim >= Len(s), NEW axis \in 1..ndim PROVE Dimension(s, axis, ndim) \in Nat
  <2>1. CASE axis =< ndim - Len(s)
    BY <2>1 DEF Dimension
  <2>2. CASE ~(axis =< ndim - Len(s))
    <3>1. axis - (ndim - Len(s)) \in 1..Len(s)
      BY <1>1, <1>2, <2>2
    <3>2. ASSUME NEW i \in 1..Len(s) PROVE s[i] \in Nat
      OBVIOUS
    <3>3. s[axis - (ndim - Len(s))] \in Nat
      BY ONLY <3>1, <3>2
    <3> QED
      BY <2>2, <3>3 DEF Dimension
  <2> QED
    BY <2>1, <2>2
<1>3. shape = [axis \in 1..ndim |-> IF Dimension(a, axis, ndim) = 1 THEN Dimension(b, axis, ndim)
                                    ELSE Dimension(a, axis, ndim)]
  BY DEF BroadcastShape
<1>4. \A axis \in 1..ndim : Dimension(a, axis, ndim) \in Nat /\ Dimension(b, axis, ndim) \in Nat
  BY <1>1, <1>2
<1>5. shape = [axis \in 1..ndim |-> shape[axis]] /\ \A axis \in 1..ndim : shape[axis] \in Nat
  BY <1>3, <1>4
<1>6. shape \in Seq(Nat)
  BY ONLY <1>1, <1>5, IsShape
<1> QED
  BY <1>6

\* An operation on two arrays makes one of the shape both are broadcast to.
LEMMA BinaryOutcome ==
    ASSUME NEW h, NEW adopted, NEW retained \in Seq(Nat), HeapSound(h, adopted, retained),
           NEW out \in DOMAIN h.arrays, NEW left \in DOMAIN h.arrays, NEW right \in DOMAIN h.arrays, NEW operation
    PROVE  Outcome(h, out, adopted, retained, BinaryOperation(h, out, left, right, operation))
<1> PICK l : l = h.arrays[left]
  OBVIOUS
<1> PICK r : r = h.arrays[right]
  OBVIOUS
<1> PICK dtype : dtype = ResultType(operation, l.dtype, r.dtype)
  OBVIOUS
<1> PICK made : made = IF operation \in Comparisons THEN "bool" ELSE dtype
  OBVIOUS
<1> PICK shape : shape = BroadcastShape(l.shape, r.shape)
  OBVIOUS
<1> PICK n : n = Product(shape)
  OBVIOUS
<1> PICK results : results = BinaryCells(h.storages, l, r, dtype, operation, shape)
  OBVIOUS
<1> PICK result : result = CommitComputed(h, out, made, shape, results)
  OBVIOUS
<1> PICK first : first = AllReal({l.dtype, r.dtype})
  OBVIOUS
<1> PICK second : second = Must(ShapesBroadcast(l.shape, r.shape), "argument")
  OBVIOUS
<1> PICK third : third = AllocateStatus(shape)
  OBVIOUS
<1> PICK inputs : inputs = <<left, right>>
  OBVIOUS
<1> PICK whole : whole = When(h, <<first, second, third>>, result)
  OBVIOUS
<1>1. inputs[1] = left
  BY ONLY inputs = <<left, right>>
<1>2. BinaryOperation(h, out, left, right, operation) = When(h, <<InputsStatus(h, out, inputs)>>, whole)
  BY <1>1 DEF BinaryOperation, Checked
<1>3. inputs \in Seq(DOMAIN h.arrays) /\ 2 \in 1..Len(inputs) /\ inputs[2] = right /\ 1 \in 1..Len(inputs)
  <2>1. ASSUME NEW D, NEW x \in D, NEW y \in D
        PROVE  <<x, y>> \in Seq(D) /\ 2 \in 1..Len(<<x, y>>) /\ <<x, y>>[2] = y /\ 1 \in 1..Len(<<x, y>>)
    OBVIOUS
  <2> QED
    BY <2>1
<1>4. ASSUME Fits(h.storages, l), Fits(h.storages, r) PROVE Outcome(h, out, adopted, retained, whole)
  <2>1. l.shape \in Seq(Nat) /\ r.shape \in Seq(Nat)
    BY <1>4 DEF Fits, IsDescriptor
  <2>2. shape \in Seq(Nat)
    BY <2>1, BroadcastShapeType
  <2>3. results = [k \in 1..n |-> results[k]]
    BY DEF BinaryCells
  <2>4. ASSUME FirstStatus(<<first, second, third>>) = "ok" PROVE Outcome(h, out, adopted, retained, result)
    <3>1. third = "ok"
      BY <2>4, ThreeAreOk
    <3>2. ShapeStatus(shape) = "ok"
      BY <3>1, AllocatedShape
    <3>3. n = Product(shape) /\ retained \in Seq(Nat) /\ HeapSound(h, adopted, retained)
            /\ out \in DOMAIN h.arrays /\ result = CommitComputed(h, out, made, shape, results)
      OBVIOUS
    <3> QED
      BY ONLY <2>2, <2>3, <3>2, <3>3, CommitComputedOutcome
  <2> QED
    BY <2>4, WhenOutcome
<1>5. (\A i \in 1..Len(inputs) : Fits(h.storages, h.arrays[inputs[i]])) => Outcome(h, out, adopted, retained, whole)
  BY <1>1, <1>3, <1>4
<1>6. Outcome(h, out, adopted, retained, When(h, <<InputsStatus(h, out, inputs)>>, whole))
  BY <1>3, <1>5, SomeInputs
<1> QED
  BY <1>2, <1>6

\* The first of some statuses is the first.
LEMMA FirstIsOk ==
    ASSUME NEW statuses, Len(statuses) \in Nat, Len(statuses) >= 1, FirstStatus(statuses) = "ok"
    PROVE  statuses[1] = "ok"
<1>1. 1 \in 1..Len(statuses)
  OBVIOUS
<1> QED
  BY <1>1, FirstStatusOk

\* A comparison with a number makes an array of the shape of its source.
LEMMA GreaterOutcome ==
    ASSUME NEW h, NEW adopted, NEW retained \in Seq(Nat), HeapSound(h, adopted, retained),
           NEW out \in DOMAIN h.arrays, NEW source \in DOMAIN h.arrays, NEW threshold
    PROVE  Outcome(h, out, adopted, retained, GreaterF64(h, out, source, threshold))
<1> PICK s : s = h.arrays[source]
  OBVIOUS
<1> PICK elements : elements = Elements(h.storages, s)
  OBVIOUS
<1> PICK results : results = [k \in DOMAIN elements |-> Answer("greater", elements[k], threshold)]
  OBVIOUS
<1> PICK result : result = CommitComputed(h, out, "bool", s.shape, results)
  OBVIOUS
<1> PICK first : first = ValidateArray(h.storages, s)
  OBVIOUS
<1> PICK second : second = Must(s.dtype \notin ComplexTypes, "unsupported")
  OBVIOUS
<1> PICK third : third = Must(s.dtype = "float64", "type")
  OBVIOUS
<1> PICK fourth : fourth = PrepareOutput(h, out, <<source>>)
  OBVIOUS
<1> PICK fifth : fifth = AllocateStatus(s.shape)
  OBVIOUS
<1> PICK statuses : statuses = <<first, second, third, fourth, fifth>>
  OBVIOUS
<1>1. GreaterF64(h, out, source, threshold) = When(h, statuses, result)
  BY DEF GreaterF64
<1>2. ASSUME FirstStatus(statuses) = "ok" PROVE Outcome(h, out, adopted, retained, result)
  <2>1. Len(statuses) \in Nat /\ Len(statuses) >= 1 /\ statuses[1] = first
    BY ONLY statuses = <<first, second, third, fourth, fifth>>
  <2>2. first = "ok"
    BY <1>2, <2>1, FirstIsOk
  <2>3. Fits(h.storages, s)
    BY <2>2, ValidatedFits
  <2> PICK n : n = Size(s)
    OBVIOUS
  <2>4. IsDescriptor(s) /\ s.shape \in Seq(Nat) /\ Product(s.shape) = n /\ ShapeStatus(s.shape) = "ok"
    BY <2>3, ShapeOfFitting
  <2>5. DOMAIN elements = 1..n
    BY <2>4, ElementsType
  <2>6. results = [k \in 1..n |-> results[k]]
    BY <2>5
  <2> QED
    BY <2>4, <2>6, CommitComputedOutcome
<1> QED
  BY <1>1, <1>2, WhenOutcome

\* As many marks as there are elements make an array of the shape of its source.
LEMMA MarkedOutcome ==
    ASSUME NEW h, NEW adopted, NEW retained \in Seq(Nat), HeapSound(h, adopted, retained),
           NEW out \in DOMAIN h.arrays, NEW s, Fits(h.storages, s), NEW statuses,
           NEW cells, cells = [k \in DOMAIN Elements(h.storages, s) |-> cells[k]],
           NEW result, result = When(h, statuses, CommitOwned(h, out, "bool", s.shape, cells))
    PROVE  Outcome(h, out, adopted, retained, result)
<1> PICK n : n = Size(s)
  OBVIOUS
<1>1. /\ IsDescriptor(s) /\ s.shape \in Seq(Nat) /\ Product(s.shape) = n
      /\ n \in Nat /\ ShapeStatus(s.shape) = "ok"
  BY ShapeOfFitting
<1>2. DOMAIN Elements(h.storages, s) = 1..n
  BY <1>1, ElementsType
<1>3. AreCells(cells) /\ Len(cells) = n
  BY <1>1, <1>2, CellsType
<1>4. Outcome(h, out, adopted, retained, CommitOwned(h, out, "bool", s.shape, cells))
  BY <1>1, <1>3, CommitOwnedOutcome
<1> QED
  BY <1>4, WhenOutcome

\* What is no number is marked.
LEMMA IsNaNOutcome ==
    ASSUME NEW h, NEW adopted, NEW retained \in Seq(Nat), HeapSound(h, adopted, retained),
           NEW out \in DOMAIN h.arrays, NEW source \in DOMAIN h.arrays
    PROVE  Outcome(h, out, adopted, retained, UnaryPredicate(h, out, source, IsNaN))
<1> PICK s : s = h.arrays[source]
  OBVIOUS
<1> PICK elements : elements = Elements(h.storages, s)
  OBVIOUS
<1> PICK cells : cells = [k \in DOMAIN elements |-> IF IsNaN(elements[k]) THEN 1 ELSE 0]
  OBVIOUS
<1> PICK statuses : statuses = <<AllReal({s.dtype}), AllocateStatus(s.shape)>>
  OBVIOUS
<1> PICK result : result = When(h, statuses, CommitOwned(h, out, "bool", s.shape, cells))
  OBVIOUS
<1>1. UnaryPredicate(h, out, source, IsNaN) = When(h, <<InputsStatus(h, out, <<source>>)>>, result)
  BY DEF UnaryPredicate, Checked
<1>2. cells = [k \in DOMAIN Elements(h.storages, s) |-> cells[k]]
  OBVIOUS
<1>3. ASSUME Fits(h.storages, s) PROVE Outcome(h, out, adopted, retained, result)
  <2>1. retained \in Seq(Nat) /\ HeapSound(h, adopted, retained) /\ out \in DOMAIN h.arrays
          /\ result = When(h, statuses, CommitOwned(h, out, "bool", s.shape, cells))
    OBVIOUS
  <2> QED
    BY ONLY <1>2, <1>3, <2>1, MarkedOutcome
<1> QED
  BY <1>1, <1>3, OneInput

\* What is finite is marked.
LEMMA IsFiniteOutcome ==
    ASSUME NEW h, NEW adopted, NEW retained \in Seq(Nat), HeapSound(h, adopted, retained),
           NEW out \in DOMAIN h.arrays, NEW source \in DOMAIN h.arrays
    PROVE  Outcome(h, out, adopted, retained, UnaryPredicate(h, out, source, Finite))
<1> PICK s : s = h.arrays[source]
  OBVIOUS
<1> PICK elements : elements = Elements(h.storages, s)
  OBVIOUS
<1> PICK cells : cells = [k \in DOMAIN elements |-> IF Finite(elements[k]) THEN 1 ELSE 0]
  OBVIOUS
<1> PICK statuses : statuses = <<AllReal({s.dtype}), AllocateStatus(s.shape)>>
  OBVIOUS
<1> PICK result : result = When(h, statuses, CommitOwned(h, out, "bool", s.shape, cells))
  OBVIOUS
<1>1. UnaryPredicate(h, out, source, Finite) = When(h, <<InputsStatus(h, out, <<source>>)>>, result)
  BY DEF UnaryPredicate, Checked
<1>2. cells = [k \in DOMAIN Elements(h.storages, s) |-> cells[k]]
  OBVIOUS
<1>3. ASSUME Fits(h.storages, s) PROVE Outcome(h, out, adopted, retained, result)
  <2>1. retained \in Seq(Nat) /\ HeapSound(h, adopted, retained) /\ out \in DOMAIN h.arrays
          /\ result = When(h, statuses, CommitOwned(h, out, "bool", s.shape, cells))
    OBVIOUS
  <2> QED
    BY ONLY <1>2, <1>3, <2>1, MarkedOutcome
<1> QED
  BY <1>1, <1>3, OneInput

\* What an axis is reduced to is a shape.
LEMMA ReductionShapeType ==
    ASSUME NEW shape \in Seq(Nat), NEW keepdims, NEW axis, axis = Everything \/ axis \in 0..(Len(shape) - 1)
    PROVE  ReductionShape(shape, axis, keepdims) \in Seq(Nat)
<1> PICK N : N = Len(shape)
  OBVIOUS
<1>1. N \in Nat /\ DOMAIN shape = 1..N
  OBVIOUS
<1>2. CASE axis = Everything
  <2>1. [k \in 1..N |-> 1] \in Seq(Nat) /\ <<>> \in Seq(Nat)
    BY ONLY <1>1
  <2> QED
    BY <1>1, <1>2, <2>1 DEF ReductionShape
<1>3. CASE axis # Everything /\ axis \in 0..(N - 1)
  <2> PICK at : at = axis + 1
    OBVIOUS
  <2>1. at \in 1..N
    BY <1>1, <1>3
  <2>2. [shape EXCEPT ![at] = 1] \in Seq(Nat)
    BY ONLY shape \in Seq(Nat), N = Len(shape), <2>1
  <2>3. RemoveAt(shape, at) \in Seq(Nat)
    <3>1. SubSeq(shape, 1, at - 1) \in Seq(Nat)
      BY ONLY shape \in Seq(Nat), N = Len(shape), <2>1
    <3>2. SubSeq(shape, at + 1, Len(shape)) \in Seq(Nat)
      BY ONLY shape \in Seq(Nat), N = Len(shape), <2>1
    <3> QED
      BY ONLY <3>1, <3>2 DEF RemoveAt
  <2> QED
    BY <1>3, <2>2, <2>3 DEF ReductionShape
<1> QED
  BY <1>2, <1>3

\* A reduction whose operand, result type, further checks, result shape and
\* results are told.
Reducing(h, s, out, source, axis, keepdims, dtype, more, any, shape, results) ==
  When(h, <<InputsStatus(h, out, <<source>>), AllReal({s.dtype})>> \o more \o <<AxisStatus(Len(s.shape), axis)>>,
       When(h, <<any, AllocateStatus(shape)>>, CommitComputed(h, out, dtype, shape, results)))

\* As many results as the reduced shape has elements make an array.
LEMMA ReducedOutcome ==
    ASSUME NEW h, NEW adopted, NEW retained \in Seq(Nat), HeapSound(h, adopted, retained),
           NEW out \in DOMAIN h.arrays, NEW source \in DOMAIN h.arrays, NEW axis, NEW keepdims, NEW dtype,
           NEW s, s = h.arrays[source], NEW more, NEW S, more \in Seq(S), NEW any,
           NEW shape, shape = ReductionShape(s.shape, NormalAxis(Len(s.shape), axis), keepdims),
           NEW n, n = Product(shape), NEW results, results = [k \in 1..n |-> results[k]],
           NEW result,
           result = Reducing(h, s, out, source, axis, keepdims, dtype, more, any, shape, results)
    PROVE  Outcome(h, out, adopted, retained, result)
<1> PICK given : given = InputsStatus(h, out, <<source>>)
  OBVIOUS
<1> PICK real : real = AllReal({s.dtype})
  OBVIOUS
<1> PICK along : along = AxisStatus(Len(s.shape), axis)
  OBVIOUS
<1> PICK first : first = <<given, real>>
  OBVIOUS
<1> PICK last : last = <<along>>
  OBVIOUS
<1> PICK allocated : allocated = AllocateStatus(shape)
  OBVIOUS
<1> PICK made : made = CommitComputed(h, out, dtype, shape, results)
  OBVIOUS
<1>1. result = When(h, first \o more \o last, When(h, <<any, allocated>>, made))
  BY DEF Reducing
<1>2. ASSUME FirstStatus(first \o more \o last) = "ok", FirstStatus(<<any, allocated>>) = "ok"
      PROVE  Outcome(h, out, adopted, retained, made)
  <2> PICK T : T = S \cup {given, real, along}
    OBVIOUS
  <2>1. first \in Seq(T) /\ Len(first) = 2 /\ first[1] = given
    BY ONLY first = <<given, real>>, T = S \cup {given, real, along}
  <2>2. last \in Seq(T) /\ Len(last) = 1 /\ last[1] = along
    BY ONLY last = <<along>>, T = S \cup {given, real, along}
  <2>3. more \in Seq(T)
    <3>1. S \subseteq T
      OBVIOUS
    <3> QED
      BY ONLY <3>1, more \in Seq(S)
  <2> PICK both : both = first \o more
    OBVIOUS
  <2>4. both \in Seq(T)
    BY ONLY <2>1, <2>3, both = first \o more
  <2>5. (\A i \in 1..Len(both) : both[i] = "ok") /\ (\A i \in 1..Len(last) : last[i] = "ok")
    <3>1. FirstStatus(both \o last) = "ok"
      BY <1>2
    <3> QED
      BY ONLY <2>2, <2>4, <3>1, BothAreOk
  <2>6. along = "ok"
    BY <2>2, <2>5
  <2>7. FirstStatus(both) = "ok"
    BY <2>5, AllAreOk
  <2>8. given = "ok"
    <3>1. FirstStatus(first \o more) = "ok"
      BY <2>7
    <3>2. \A i \in 1..Len(first) : first[i] = "ok"
      BY ONLY <2>1, <2>3, <3>1, BothAreOk
    <3>3. 1 \in 1..Len(first)
      BY ONLY <2>1
    <3> QED
      BY ONLY <2>1, <3>2, <3>3
  <2>9. Fits(h.storages, s)
    <3> PICK inputs : inputs = <<source>>
      OBVIOUS
    <3>1. inputs \in Seq(DOMAIN h.arrays) /\ 1 \in 1..Len(inputs) /\ inputs[1] = source
      <4>1. ASSUME NEW D, NEW x \in D PROVE <<x>> \in Seq(D) /\ 1 \in 1..Len(<<x>>) /\ <<x>>[1] = x
        OBVIOUS
      <4> QED
        BY <4>1
    <3>2. InputsStatus(h, out, inputs) = "ok"
      BY <2>8
    <3>3. \A i \in 1..Len(inputs) : Fits(h.storages, h.arrays[inputs[i]])
      BY <3>1, <3>2, InputsAreThere
    <3> QED
      BY <3>1, <3>3
  <2>10. s.shape \in Seq(Nat)
    BY <2>9 DEF Fits, IsDescriptor
  <2> PICK normal : normal = NormalAxis(Len(s.shape), axis)
    OBVIOUS
  <2>11. normal = Everything \/ normal \in 0..(Len(s.shape) - 1)
    BY <2>6 DEF AxisStatus, Must, NormalAxis, Everything
  <2>12. shape \in Seq(Nat)
    <3>1. ReductionShape(s.shape, normal, keepdims) \in Seq(Nat)
      BY ONLY <2>10, <2>11, ReductionShapeType
    <3> QED
      BY <3>1
  <2>13. ShapeStatus(shape) = "ok"
    <3>1. allocated = "ok"
      BY <1>2, TwoAreOk
    <3> QED
      BY <3>1, AllocatedShape
  <2>14. n = Product(shape) /\ retained \in Seq(Nat) /\ HeapSound(h, adopted, retained)
           /\ out \in DOMAIN h.arrays /\ made = CommitComputed(h, out, dtype, shape, results)
           /\ results = [k \in 1..n |-> results[k]]
    OBVIOUS
  <2> QED
    BY ONLY <2>12, <2>13, <2>14, CommitComputedOutcome
<1>3. ASSUME FirstStatus(first \o more \o last) = "ok"
      PROVE  Outcome(h, out, adopted, retained, When(h, <<any, allocated>>, made))
  <2>1. FirstStatus(<<any, allocated>>) = "ok" => Outcome(h, out, adopted, retained, made)
    BY <1>2, <1>3
  <2> QED
    BY ONLY <2>1, WhenOutcome
<1> PICK inner : inner = When(h, <<any, allocated>>, made)
  OBVIOUS
<1> PICK statuses : statuses = first \o more \o last
  OBVIOUS
<1>4. FirstStatus(statuses) = "ok" => Outcome(h, out, adopted, retained, inner)
  BY <1>3
<1>5. Outcome(h, out, adopted, retained, When(h, statuses, inner))
  BY ONLY <1>4, WhenOutcome
<1> QED
  BY <1>1, <1>5

\* A sum makes an array.
LEMMA ArraySumOutcome ==
    ASSUME NEW h, NEW adopted, NEW retained \in Seq(Nat), HeapSound(h, adopted, retained),
           NEW out \in DOMAIN h.arrays, NEW source \in DOMAIN h.arrays, NEW axis, NEW keepdims
    PROVE  Outcome(h, out, adopted, retained, ArraySum(h, out, source, axis, keepdims))
<1> PICK s : s = h.arrays[source]
  OBVIOUS
<1> PICK normal : normal = NormalAxis(Len(s.shape), axis)
  OBVIOUS
<1> PICK shape : shape = ReductionShape(s.shape, normal, keepdims)
  OBVIOUS
<1> PICK n : n = Product(shape)
  OBVIOUS
<1> PICK dtype : dtype = Accumulator(s.dtype)
  OBVIOUS
<1> PICK results : results = [k \in 1..n |-> SumOf(dtype, Segment(h.storages, s, normal, keepdims, k - 1))]
  OBVIOUS
<1> PICK any : any = Must(TRUE \/ ReductionCount(s, normal) # 0, "argument")
  OBVIOUS
<1> PICK more : more = <<>>
  OBVIOUS
<1> PICK result : result = ArraySum(h, out, source, axis, keepdims)
  OBVIOUS
<1>1. result = Reducing(h, s, out, source, axis, keepdims, dtype, more, any, shape, results)
  BY DEF ArraySum, Additive, Reduce, Reducing
<1>2. results = [k \in 1..n |-> results[k]] /\ more \in Seq({})
  OBVIOUS
<1>3. shape = ReductionShape(s.shape, NormalAxis(Len(s.shape), axis), keepdims) /\ n = Product(shape)
        /\ s = h.arrays[source] /\ retained \in Seq(Nat) /\ HeapSound(h, adopted, retained)
        /\ out \in DOMAIN h.arrays /\ source \in DOMAIN h.arrays
  OBVIOUS
<1>4. Outcome(h, out, adopted, retained, result)
  BY ONLY <1>1, <1>2, <1>3, ReducedOutcome
<1> QED
  BY <1>4

\* So does a product.
LEMMA ArrayProductOutcome ==
    ASSUME NEW h, NEW adopted, NEW retained \in Seq(Nat), HeapSound(h, adopted, retained),
           NEW out \in DOMAIN h.arrays, NEW source \in DOMAIN h.arrays, NEW axis, NEW keepdims
    PROVE  Outcome(h, out, adopted, retained, ArrayProduct(h, out, source, axis, keepdims))
<1> PICK s : s = h.arrays[source]
  OBVIOUS
<1> PICK normal : normal = NormalAxis(Len(s.shape), axis)
  OBVIOUS
<1> PICK shape : shape = ReductionShape(s.shape, normal, keepdims)
  OBVIOUS
<1> PICK n : n = Product(shape)
  OBVIOUS
<1> PICK dtype : dtype = Accumulator(s.dtype)
  OBVIOUS
<1> PICK results : results = [k \in 1..n |-> ProductOf(dtype, Segment(h.storages, s, normal, keepdims, k - 1))]
  OBVIOUS
<1> PICK any : any = Must(TRUE \/ ReductionCount(s, normal) # 0, "argument")
  OBVIOUS
<1> PICK more : more = <<>>
  OBVIOUS
<1> PICK result : result = ArrayProduct(h, out, source, axis, keepdims)
  OBVIOUS
<1>1. result = Reducing(h, s, out, source, axis, keepdims, dtype, more, any, shape, results)
  BY DEF ArrayProduct, Additive, Reduce, Reducing
<1>2. results = [k \in 1..n |-> results[k]] /\ more \in Seq({})
  OBVIOUS
<1>3. shape = ReductionShape(s.shape, NormalAxis(Len(s.shape), axis), keepdims) /\ n = Product(shape)
        /\ s = h.arrays[source] /\ retained \in Seq(Nat) /\ HeapSound(h, adopted, retained)
        /\ out \in DOMAIN h.arrays /\ source \in DOMAIN h.arrays
  OBVIOUS
<1>4. Outcome(h, out, adopted, retained, result)
  BY ONLY <1>1, <1>2, <1>3, ReducedOutcome
<1> QED
  BY <1>4

\* And a statistic.
LEMMA ArrayStatisticOutcome ==
    ASSUME NEW h, NEW adopted, NEW retained \in Seq(Nat), HeapSound(h, adopted, retained),
           NEW out \in DOMAIN h.arrays, NEW source \in DOMAIN h.arrays, NEW axis, NEW keepdims, NEW statistic
    PROVE  Outcome(h, out, adopted, retained, ArrayStatistic(h, out, source, axis, keepdims, statistic))
<1> PICK s : s = h.arrays[source]
  OBVIOUS
<1> PICK normal : normal = NormalAxis(Len(s.shape), axis)
  OBVIOUS
<1> PICK shape : shape = ReductionShape(s.shape, normal, keepdims)
  OBVIOUS
<1> PICK n : n = Product(shape)
  OBVIOUS
<1> PICK dtype : dtype = "float64"
  OBVIOUS
<1> PICK results : results = [k \in 1..n |-> StatisticOf(Segment(h.storages, s, normal, keepdims, k - 1), statistic)]
  OBVIOUS
<1> PICK any : any = Must(FALSE \/ ReductionCount(s, normal) # 0, "argument")
  OBVIOUS
<1> PICK more : more = <<>>
  OBVIOUS
<1> PICK result : result = ArrayStatistic(h, out, source, axis, keepdims, statistic)
  OBVIOUS
<1>1. result = Reducing(h, s, out, source, axis, keepdims, dtype, more, any, shape, results)
  BY DEF ArrayStatistic, Reduce, Reducing
<1>2. results = [k \in 1..n |-> results[k]] /\ more \in Seq({})
  OBVIOUS
<1>3. shape = ReductionShape(s.shape, NormalAxis(Len(s.shape), axis), keepdims) /\ n = Product(shape)
        /\ s = h.arrays[source] /\ retained \in Seq(Nat) /\ HeapSound(h, adopted, retained)
        /\ out \in DOMAIN h.arrays /\ source \in DOMAIN h.arrays
  OBVIOUS
<1>4. Outcome(h, out, adopted, retained, result)
  BY ONLY <1>1, <1>2, <1>3, ReducedOutcome
<1> QED
  BY <1>4

\* And a percentile.
LEMMA ArrayPercentileOutcome ==
    ASSUME NEW h, NEW adopted, NEW retained \in Seq(Nat), HeapSound(h, adopted, retained),
           NEW out \in DOMAIN h.arrays, NEW source \in DOMAIN h.arrays, NEW axis, NEW keepdims, NEW percent
    PROVE  Outcome(h, out, adopted, retained, ArrayPercentile(h, out, source, axis, keepdims, percent))
<1> PICK s : s = h.arrays[source]
  OBVIOUS
<1> PICK normal : normal = NormalAxis(Len(s.shape), axis)
  OBVIOUS
<1> PICK shape : shape = ReductionShape(s.shape, normal, keepdims)
  OBVIOUS
<1> PICK n : n = Product(shape)
  OBVIOUS
<1> PICK dtype : dtype = "float64"
  OBVIOUS
<1> PICK results : results = [k \in 1..n |-> PercentileOf(Segment(h.storages, s, normal, keepdims, k - 1), percent)]
  OBVIOUS
<1> PICK any : any = Must(FALSE \/ ReductionCount(s, normal) # 0, "argument")
  OBVIOUS
<1> PICK more : more = <<Must(percent \in 0..100, "argument")>>
  OBVIOUS
<1> PICK result : result = ArrayPercentile(h, out, source, axis, keepdims, percent)
  OBVIOUS
<1>1. result = Reducing(h, s, out, source, axis, keepdims, dtype, more, any, shape, results)
  BY DEF ArrayPercentile, Reduce, Reducing
<1>2. results = [k \in 1..n |-> results[k]] /\ more \in Seq({Must(percent \in 0..100, "argument")})
  OBVIOUS
<1>3. shape = ReductionShape(s.shape, NormalAxis(Len(s.shape), axis), keepdims) /\ n = Product(shape)
        /\ s = h.arrays[source] /\ retained \in Seq(Nat) /\ HeapSound(h, adopted, retained)
        /\ out \in DOMAIN h.arrays /\ source \in DOMAIN h.arrays
  OBVIOUS
<1>4. Outcome(h, out, adopted, retained, result)
  BY ONLY <1>1, <1>2, <1>3, ReducedOutcome
<1> QED
  BY <1>4

\* The place of an extreme element is one number without an axis.
LEMMA PlaceOutcome ==
    ASSUME NEW h, NEW adopted, NEW retained \in Seq(Nat), HeapSound(h, adopted, retained),
           NEW out \in DOMAIN h.arrays, NEW statuses, NEW place
    PROVE  Outcome(h, out, adopted, retained, When(h, statuses, CommitOwned(h, out, "int64", <<>>, <<place>>)))
<1> PICK cells : cells = <<place>>
  OBVIOUS
<1> PICK shape : shape = <<>>
  OBVIOUS
<1>1. cells = [i \in 1..1 |-> cells[i]] /\ 1 \in Nat
  BY ONLY cells = <<place>>
<1>2. AreCells(cells) /\ Len(cells) = 1
  BY <1>1, CellsType
<1>3. shape \in Seq(Nat) /\ Product(shape) = 1 /\ ShapeStatus(shape) = "ok"
  BY ScalarShape
<1>4. Outcome(h, out, adopted, retained, CommitOwned(h, out, "int64", shape, cells))
  BY <1>2, <1>3, CommitOwnedOutcome
<1> QED
  BY <1>4, WhenOutcome

\* The place of a least element makes an array.
LEMMA ArgMinOutcome ==
    ASSUME NEW h, NEW adopted, NEW retained \in Seq(Nat), HeapSound(h, adopted, retained),
           NEW out \in DOMAIN h.arrays, NEW source \in DOMAIN h.arrays
    PROVE  Outcome(h, out, adopted, retained, ArgExtreme(h, out, source, <))
<1> PICK s : s = h.arrays[source]
  OBVIOUS
<1> PICK elements : elements = Elements(h.storages, s)
  OBVIOUS
<1> PICK place : place = PlaceOf(elements, <)
  OBVIOUS
<1> PICK statuses : statuses = <<AllReal({s.dtype}), Must(elements # <<>>, "argument"),
                                 Must(\A k \in DOMAIN elements : ~IsNaN(elements[k]), "argument")>>
  OBVIOUS
<1> PICK result : result = When(h, statuses, CommitOwned(h, out, "int64", <<>>, <<place>>))
  OBVIOUS
<1>1. ArgExtreme(h, out, source, <) = When(h, <<InputsStatus(h, out, <<source>>)>>, result)
  BY DEF ArgExtreme, Checked
<1>2. Outcome(h, out, adopted, retained, result)
  BY PlaceOutcome
<1> QED
  BY <1>1, <1>2, WhenOutcome

\* So does that of a greatest one.
LEMMA ArgMaxOutcome ==
    ASSUME NEW h, NEW adopted, NEW retained \in Seq(Nat), HeapSound(h, adopted, retained),
           NEW out \in DOMAIN h.arrays, NEW source \in DOMAIN h.arrays
    PROVE  Outcome(h, out, adopted, retained, ArgExtreme(h, out, source, >))
<1> PICK s : s = h.arrays[source]
  OBVIOUS
<1> PICK elements : elements = Elements(h.storages, s)
  OBVIOUS
<1> PICK place : place = PlaceOf(elements, >)
  OBVIOUS
<1> PICK statuses : statuses = <<AllReal({s.dtype}), Must(elements # <<>>, "argument"),
                                 Must(\A k \in DOMAIN elements : ~IsNaN(elements[k]), "argument")>>
  OBVIOUS
<1> PICK result : result = When(h, statuses, CommitOwned(h, out, "int64", <<>>, <<place>>))
  OBVIOUS
<1>1. ArgExtreme(h, out, source, >) = When(h, <<InputsStatus(h, out, <<source>>)>>, result)
  BY DEF ArgExtreme, Checked
<1>2. Outcome(h, out, adopted, retained, result)
  BY PlaceOutcome
<1> QED
  BY <1>1, <1>2, WhenOutcome

-----------------------------------------------------------------------------
(* The session.  Whatever was called, the heap is sound for the buffers that *)
(* were given and the storages that were retained, and the menu still makes  *)
(* sense in it, because no call adds or removes a descriptor or a buffer.    *)

CallsMakeSense(h) ==
  \A k \in DOMAIN menu : menu[k].op \in ArrayCallOps => ArrayCallMakesSense(menu[k], h)

SessionSound ==
  /\ answer = [call |-> answer.call, status |-> answer.status, left |-> answer.left,
               adopted |-> answer.adopted, retained |-> answer.retained, compiled |-> answer.compiled]
  /\ answer.retained \in Seq(Nat)
  /\ HeapSound(heap, answer.adopted, answer.retained)
  /\ CallsMakeSense(heap)

\* A call whose result is none or an array in its destination.
Lands(o) ==
  \E result : LandArray(o, result) /\ Outcome(heap, o.out, answer.adopted, answer.retained, result)

LandingOps == ArrayCallOps \ {"from_buffer", "write", "swap_arrays", "retain"}

\* What is asked of arrays makes sense.
LEMMA AskedMakesSense ==
    ASSUME SessionSound, NEW op \in ArrayCallOps, NEW o \in Asked(op)
    PROVE  o.op = op /\ ArrayCallMakesSense(o, heap)
BY DEF SessionSound, CallsMakeSense, Asked

\* What a view or a copy is made by lands.
LEMMA ViewsLand ==
    ASSUME SessionSound, ArrayFromValues \/ ArrayZeros \/ ArrayShare \/ ArrayReshapeView \/ ArraySlice \/ ArraySliceWithin \/ ArrayTranspose \/ ArrayBroadcast \/ ArrayReshapeCopy \/ ArrayBooleanMask \/ ArrayNonZero \/ ArrayWhere
    PROVE  \E o : o.op \in LandingOps /\ Lands(o)
<1>0. answer.retained \in Seq(Nat) /\ HeapSound(heap, answer.adopted, answer.retained)
  BY DEF SessionSound
<1>1. CASE ArrayFromValues
  <2>1. PICK o \in Asked("from_values") : LandArray(o, FromValues(heap, o.out, o.dtype, o.shape, o.cells))
    BY <1>1 DEF ArrayFromValues
  <2>2. o.op = "from_values" /\ ArrayCallMakesSense(o, heap)
    BY <2>1, AskedMakesSense DEF ArrayCallOps
  <2>3. o.out \in DOMAIN heap.arrays
          /\ o.shape \in Seq(Nat) /\ AreCells(o.cells) /\ Len(o.cells) = Product(o.shape)
    BY <2>2 DEF ArrayCallMakesSense
  <2>4. Outcome(heap, o.out, answer.adopted, answer.retained,
                FromValues(heap, o.out, o.dtype, o.shape, o.cells))
    BY ONLY <1>0, <2>3, FromValuesOutcome
  <2>5. Lands(o)
    BY <2>1, <2>4 DEF Lands
  <2> QED
    BY <2>2, <2>5 DEF LandingOps, ArrayCallOps
<1>2. CASE ArrayZeros
  <2>1. PICK o \in Asked("zeros") : LandArray(o, Zeros(heap, o.out, o.dtype, o.shape))
    BY <1>2 DEF ArrayZeros
  <2>2. o.op = "zeros" /\ ArrayCallMakesSense(o, heap)
    BY <2>1, AskedMakesSense DEF ArrayCallOps
  <2>3. o.out \in DOMAIN heap.arrays
          /\ o.shape \in Seq(Nat)
    BY <2>2 DEF ArrayCallMakesSense
  <2>4. Outcome(heap, o.out, answer.adopted, answer.retained,
                Zeros(heap, o.out, o.dtype, o.shape))
    BY ONLY <1>0, <2>3, ZerosOutcome
  <2>5. Lands(o)
    BY <2>1, <2>4 DEF Lands
  <2> QED
    BY <2>2, <2>5 DEF LandingOps, ArrayCallOps
<1>3. CASE ArrayShare
  <2>1. PICK o \in Asked("share") : LandArray(o, Share(heap, o.out, o.source))
    BY <1>3 DEF ArrayShare
  <2>2. o.op = "share" /\ ArrayCallMakesSense(o, heap)
    BY <2>1, AskedMakesSense DEF ArrayCallOps
  <2>3. o.out \in DOMAIN heap.arrays
          /\ o.source \in DOMAIN heap.arrays
    BY <2>2 DEF ArrayCallMakesSense
  <2>4. Outcome(heap, o.out, answer.adopted, answer.retained,
                Share(heap, o.out, o.source))
    BY ONLY <1>0, <2>3, ShareOutcome
  <2>5. Lands(o)
    BY <2>1, <2>4 DEF Lands
  <2> QED
    BY <2>2, <2>5 DEF LandingOps, ArrayCallOps
<1>4. CASE ArrayReshapeView
  <2>1. PICK o \in Asked("reshape_view") : LandArray(o, ReshapeView(heap, o.out, o.source, o.shape))
    BY <1>4 DEF ArrayReshapeView
  <2>2. o.op = "reshape_view" /\ ArrayCallMakesSense(o, heap)
    BY <2>1, AskedMakesSense DEF ArrayCallOps
  <2>3. o.out \in DOMAIN heap.arrays
          /\ o.source \in DOMAIN heap.arrays /\ o.shape \in Seq(Nat)
    BY <2>2 DEF ArrayCallMakesSense
  <2>4. Outcome(heap, o.out, answer.adopted, answer.retained,
                ReshapeView(heap, o.out, o.source, o.shape))
    BY ONLY <1>0, <2>3, ReshapeViewOutcome
  <2>5. Lands(o)
    BY <2>1, <2>4 DEF Lands
  <2> QED
    BY <2>2, <2>5 DEF LandingOps, ArrayCallOps
<1>5. CASE ArraySlice
  <2>1. PICK o \in Asked("slice") : LandArray(o, SliceView(heap, o.out, o.source, o.axis, o.slice))
    BY <1>5 DEF ArraySlice
  <2>2. o.op = "slice" /\ ArrayCallMakesSense(o, heap)
    BY <2>1, AskedMakesSense DEF ArrayCallOps
  <2>3. o.out \in DOMAIN heap.arrays
          /\ o.source \in DOMAIN heap.arrays /\ o.slice.step \in Int /\ IsBound(o.slice.start) /\ IsBound(o.slice.stop)
    BY <2>2 DEF ArrayCallMakesSense
  <2>4. Outcome(heap, o.out, answer.adopted, answer.retained,
                SliceView(heap, o.out, o.source, o.axis, o.slice))
    BY ONLY <1>0, <2>3, SliceViewOutcome
  <2>5. Lands(o)
    BY <2>1, <2>4 DEF Lands
  <2> QED
    BY <2>2, <2>5 DEF LandingOps, ArrayCallOps
<1>6. CASE ArraySliceWithin
  <2>1. PICK o \in Asked("slice_within") : LandArray(o, SliceWithin(heap, o.out, o.source, o.axis, o.slice.start[1], o.slice.stop[1], o.slice.step))
    BY <1>6 DEF ArraySliceWithin
  <2>2. o.op = "slice_within" /\ ArrayCallMakesSense(o, heap)
    BY <2>1, AskedMakesSense DEF ArrayCallOps
  <2>3. o.out \in DOMAIN heap.arrays
          /\ o.source \in DOMAIN heap.arrays /\ o.slice.start[1] \in Int /\ o.slice.stop[1] \in Int /\ o.slice.step \in Int
    BY <2>2 DEF ArrayCallMakesSense, IsBound
  <2>4. Outcome(heap, o.out, answer.adopted, answer.retained,
                SliceWithin(heap, o.out, o.source, o.axis, o.slice.start[1], o.slice.stop[1], o.slice.step))
    BY ONLY <1>0, <2>3, SliceWithinOutcome
  <2>5. Lands(o)
    BY <2>1, <2>4 DEF Lands
  <2> QED
    BY <2>2, <2>5 DEF LandingOps, ArrayCallOps
<1>7. CASE ArrayTranspose
  <2>1. PICK o \in Asked("transpose") : LandArray(o, TransposeView(heap, o.out, o.source, o.axes))
    BY <1>7 DEF ArrayTranspose
  <2>2. o.op = "transpose" /\ ArrayCallMakesSense(o, heap)
    BY <2>1, AskedMakesSense DEF ArrayCallOps
  <2>3. o.out \in DOMAIN heap.arrays
          /\ o.source \in DOMAIN heap.arrays /\ o.axes \in Seq(Int)
    BY <2>2 DEF ArrayCallMakesSense
  <2>4. Outcome(heap, o.out, answer.adopted, answer.retained,
                TransposeView(heap, o.out, o.source, o.axes))
    BY ONLY <1>0, <2>3, TransposeViewOutcome
  <2>5. Lands(o)
    BY <2>1, <2>4 DEF Lands
  <2> QED
    BY <2>2, <2>5 DEF LandingOps, ArrayCallOps
<1>8. CASE ArrayBroadcast
  <2>1. PICK o \in Asked("broadcast") : LandArray(o, BroadcastView(heap, o.out, o.source, o.shape))
    BY <1>8 DEF ArrayBroadcast
  <2>2. o.op = "broadcast" /\ ArrayCallMakesSense(o, heap)
    BY <2>1, AskedMakesSense DEF ArrayCallOps
  <2>3. o.out \in DOMAIN heap.arrays
          /\ o.source \in DOMAIN heap.arrays /\ o.shape \in Seq(Nat)
    BY <2>2 DEF ArrayCallMakesSense
  <2>4. Outcome(heap, o.out, answer.adopted, answer.retained,
                BroadcastView(heap, o.out, o.source, o.shape))
    BY ONLY <1>0, <2>3, BroadcastViewOutcome
  <2>5. Lands(o)
    BY <2>1, <2>4 DEF Lands
  <2> QED
    BY <2>2, <2>5 DEF LandingOps, ArrayCallOps
<1>9. CASE ArrayReshapeCopy
  <2>1. PICK o \in Asked("reshape_copy") : LandArray(o, ReshapeCopy(heap, o.out, o.source, o.shape))
    BY <1>9 DEF ArrayReshapeCopy
  <2>2. o.op = "reshape_copy" /\ ArrayCallMakesSense(o, heap)
    BY <2>1, AskedMakesSense DEF ArrayCallOps
  <2>3. o.out \in DOMAIN heap.arrays
          /\ o.source \in DOMAIN heap.arrays /\ o.shape \in Seq(Nat)
    BY <2>2 DEF ArrayCallMakesSense
  <2>4. Outcome(heap, o.out, answer.adopted, answer.retained,
                ReshapeCopy(heap, o.out, o.source, o.shape))
    BY ONLY <1>0, <2>3, ReshapeCopyOutcome
  <2>5. Lands(o)
    BY <2>1, <2>4 DEF Lands
  <2> QED
    BY <2>2, <2>5 DEF LandingOps, ArrayCallOps
<1>10. CASE ArrayBooleanMask
  <2>1. PICK o \in Asked("boolean_mask") : LandArray(o, BooleanMask(heap, o.out, o.source, o.other))
    BY <1>10 DEF ArrayBooleanMask
  <2>2. o.op = "boolean_mask" /\ ArrayCallMakesSense(o, heap)
    BY <2>1, AskedMakesSense DEF ArrayCallOps
  <2>3. o.out \in DOMAIN heap.arrays
          /\ o.source \in DOMAIN heap.arrays /\ o.other \in DOMAIN heap.arrays
    BY <2>2 DEF ArrayCallMakesSense
  <2>4. Outcome(heap, o.out, answer.adopted, answer.retained,
                BooleanMask(heap, o.out, o.source, o.other))
    BY ONLY <1>0, <2>3, BooleanMaskOutcome
  <2>5. Lands(o)
    BY <2>1, <2>4 DEF Lands
  <2> QED
    BY <2>2, <2>5 DEF LandingOps, ArrayCallOps
<1>11. CASE ArrayNonZero
  <2>1. PICK o \in Asked("nonzero") : LandArray(o, NonZero(heap, o.out, o.source))
    BY <1>11 DEF ArrayNonZero
  <2>2. o.op = "nonzero" /\ ArrayCallMakesSense(o, heap)
    BY <2>1, AskedMakesSense DEF ArrayCallOps
  <2>3. o.out \in DOMAIN heap.arrays
          /\ o.source \in DOMAIN heap.arrays
    BY <2>2 DEF ArrayCallMakesSense
  <2>4. Outcome(heap, o.out, answer.adopted, answer.retained,
                NonZero(heap, o.out, o.source))
    BY ONLY <1>0, <2>3, NonZeroOutcome
  <2>5. Lands(o)
    BY <2>1, <2>4 DEF Lands
  <2> QED
    BY <2>2, <2>5 DEF LandingOps, ArrayCallOps
<1>12. CASE ArrayWhere
  <2>1. PICK o \in Asked("where") : LandArray(o, Where(heap, o.out, o.condition, o.source, o.other))
    BY <1>12 DEF ArrayWhere
  <2>2. o.op = "where" /\ ArrayCallMakesSense(o, heap)
    BY <2>1, AskedMakesSense DEF ArrayCallOps
  <2>3. o.out \in DOMAIN heap.arrays
          /\ o.condition \in DOMAIN heap.arrays /\ o.source \in DOMAIN heap.arrays /\ o.other \in DOMAIN heap.arrays
    BY <2>2 DEF ArrayCallMakesSense
  <2>4. Outcome(heap, o.out, answer.adopted, answer.retained,
                Where(heap, o.out, o.condition, o.source, o.other))
    BY ONLY <1>0, <2>3, WhereOutcome
  <2>5. Lands(o)
    BY <2>1, <2>4 DEF Lands
  <2> QED
    BY <2>2, <2>5 DEF LandingOps, ArrayCallOps
<1> QED
  BY <1>1, <1>2, <1>3, <1>4, <1>5, <1>6, <1>7, <1>8, <1>9, <1>10, <1>11, <1>12

\* So does what is computed.
LEMMA NumbersLand ==
    ASSUME SessionSound, ArrayConvert \/ ArrayBinary \/ ArrayGreater \/ ArrayIsNaN \/ ArrayIsFinite \/ ArrayTotal \/ ArrayMultiplied \/ ArrayReduced \/ ArrayRanked \/ ArrayArgMin \/ ArrayArgMax
    PROVE  \E o : o.op \in LandingOps /\ Lands(o)
<1>0. answer.retained \in Seq(Nat) /\ HeapSound(heap, answer.adopted, answer.retained)
  BY DEF SessionSound
<1>1. CASE ArrayConvert
  <2>1. PICK o \in Asked("cast") : LandArray(o, ArrayCast(heap, o.out, o.source, o.dtype))
    BY <1>1 DEF ArrayConvert
  <2>2. o.op = "cast" /\ ArrayCallMakesSense(o, heap)
    BY <2>1, AskedMakesSense DEF ArrayCallOps
  <2>3. o.out \in DOMAIN heap.arrays
          /\ o.source \in DOMAIN heap.arrays
    BY <2>2 DEF ArrayCallMakesSense
  <2>4. Outcome(heap, o.out, answer.adopted, answer.retained,
                ArrayCast(heap, o.out, o.source, o.dtype))
    BY ONLY <1>0, <2>3, ArrayCastOutcome
  <2>5. Lands(o)
    BY <2>1, <2>4 DEF Lands
  <2> QED
    BY <2>2, <2>5 DEF LandingOps, ArrayCallOps
<1>2. CASE ArrayBinary
  <2>1. PICK o \in Asked("binary") : LandArray(o, BinaryOperation(heap, o.out, o.source, o.other, o.operator))
    BY <1>2 DEF ArrayBinary
  <2>2. o.op = "binary" /\ ArrayCallMakesSense(o, heap)
    BY <2>1, AskedMakesSense DEF ArrayCallOps
  <2>3. o.out \in DOMAIN heap.arrays
          /\ o.source \in DOMAIN heap.arrays /\ o.other \in DOMAIN heap.arrays
    BY <2>2 DEF ArrayCallMakesSense
  <2>4. Outcome(heap, o.out, answer.adopted, answer.retained,
                BinaryOperation(heap, o.out, o.source, o.other, o.operator))
    BY ONLY <1>0, <2>3, BinaryOutcome
  <2>5. Lands(o)
    BY <2>1, <2>4 DEF Lands
  <2> QED
    BY <2>2, <2>5 DEF LandingOps, ArrayCallOps
<1>3. CASE ArrayGreater
  <2>1. PICK o \in Asked("greater_f64") : LandArray(o, GreaterF64(heap, o.out, o.source, o.threshold))
    BY <1>3 DEF ArrayGreater
  <2>2. o.op = "greater_f64" /\ ArrayCallMakesSense(o, heap)
    BY <2>1, AskedMakesSense DEF ArrayCallOps
  <2>3. o.out \in DOMAIN heap.arrays
          /\ o.source \in DOMAIN heap.arrays
    BY <2>2 DEF ArrayCallMakesSense
  <2>4. Outcome(heap, o.out, answer.adopted, answer.retained,
                GreaterF64(heap, o.out, o.source, o.threshold))
    BY ONLY <1>0, <2>3, GreaterOutcome
  <2>5. Lands(o)
    BY <2>1, <2>4 DEF Lands
  <2> QED
    BY <2>2, <2>5 DEF LandingOps, ArrayCallOps
<1>4. CASE ArrayIsNaN
  <2>1. PICK o \in Asked("is_nan") : LandArray(o, UnaryPredicate(heap, o.out, o.source, IsNaN))
    BY <1>4 DEF ArrayIsNaN
  <2>2. o.op = "is_nan" /\ ArrayCallMakesSense(o, heap)
    BY <2>1, AskedMakesSense DEF ArrayCallOps
  <2>3. o.out \in DOMAIN heap.arrays
          /\ o.source \in DOMAIN heap.arrays
    BY <2>2 DEF ArrayCallMakesSense
  <2>4. Outcome(heap, o.out, answer.adopted, answer.retained,
                UnaryPredicate(heap, o.out, o.source, IsNaN))
    BY ONLY <1>0, <2>3, IsNaNOutcome
  <2>5. Lands(o)
    BY <2>1, <2>4 DEF Lands
  <2> QED
    BY <2>2, <2>5 DEF LandingOps, ArrayCallOps
<1>5. CASE ArrayIsFinite
  <2>1. PICK o \in Asked("is_finite") : LandArray(o, UnaryPredicate(heap, o.out, o.source, Finite))
    BY <1>5 DEF ArrayIsFinite
  <2>2. o.op = "is_finite" /\ ArrayCallMakesSense(o, heap)
    BY <2>1, AskedMakesSense DEF ArrayCallOps
  <2>3. o.out \in DOMAIN heap.arrays
          /\ o.source \in DOMAIN heap.arrays
    BY <2>2 DEF ArrayCallMakesSense
  <2>4. Outcome(heap, o.out, answer.adopted, answer.retained,
                UnaryPredicate(heap, o.out, o.source, Finite))
    BY ONLY <1>0, <2>3, IsFiniteOutcome
  <2>5. Lands(o)
    BY <2>1, <2>4 DEF Lands
  <2> QED
    BY <2>2, <2>5 DEF LandingOps, ArrayCallOps
<1>6. CASE ArrayTotal
  <2>1. PICK o \in Asked("sum") : LandArray(o, ArraySum(heap, o.out, o.source, o.along, o.keepdims))
    BY <1>6 DEF ArrayTotal
  <2>2. o.op = "sum" /\ ArrayCallMakesSense(o, heap)
    BY <2>1, AskedMakesSense DEF ArrayCallOps
  <2>3. o.out \in DOMAIN heap.arrays
          /\ o.source \in DOMAIN heap.arrays
    BY <2>2 DEF ArrayCallMakesSense
  <2>4. Outcome(heap, o.out, answer.adopted, answer.retained,
                ArraySum(heap, o.out, o.source, o.along, o.keepdims))
    BY ONLY <1>0, <2>3, ArraySumOutcome
  <2>5. Lands(o)
    BY <2>1, <2>4 DEF Lands
  <2> QED
    BY <2>2, <2>5 DEF LandingOps, ArrayCallOps
<1>7. CASE ArrayMultiplied
  <2>1. PICK o \in Asked("product") : LandArray(o, ArrayProduct(heap, o.out, o.source, o.along, o.keepdims))
    BY <1>7 DEF ArrayMultiplied
  <2>2. o.op = "product" /\ ArrayCallMakesSense(o, heap)
    BY <2>1, AskedMakesSense DEF ArrayCallOps
  <2>3. o.out \in DOMAIN heap.arrays
          /\ o.source \in DOMAIN heap.arrays
    BY <2>2 DEF ArrayCallMakesSense
  <2>4. Outcome(heap, o.out, answer.adopted, answer.retained,
                ArrayProduct(heap, o.out, o.source, o.along, o.keepdims))
    BY ONLY <1>0, <2>3, ArrayProductOutcome
  <2>5. Lands(o)
    BY <2>1, <2>4 DEF Lands
  <2> QED
    BY <2>2, <2>5 DEF LandingOps, ArrayCallOps
<1>8. CASE ArrayReduced
  <2>1. PICK o \in Asked("statistic") : LandArray(o, ArrayStatistic(heap, o.out, o.source, o.along, o.keepdims, o.kind))
    BY <1>8 DEF ArrayReduced
  <2>2. o.op = "statistic" /\ ArrayCallMakesSense(o, heap)
    BY <2>1, AskedMakesSense DEF ArrayCallOps
  <2>3. o.out \in DOMAIN heap.arrays
          /\ o.source \in DOMAIN heap.arrays
    BY <2>2 DEF ArrayCallMakesSense
  <2>4. Outcome(heap, o.out, answer.adopted, answer.retained,
                ArrayStatistic(heap, o.out, o.source, o.along, o.keepdims, o.kind))
    BY ONLY <1>0, <2>3, ArrayStatisticOutcome
  <2>5. Lands(o)
    BY <2>1, <2>4 DEF Lands
  <2> QED
    BY <2>2, <2>5 DEF LandingOps, ArrayCallOps
<1>9. CASE ArrayRanked
  <2>1. PICK o \in Asked("percentile") : LandArray(o, ArrayPercentile(heap, o.out, o.source, o.along, o.keepdims, o.percent))
    BY <1>9 DEF ArrayRanked
  <2>2. o.op = "percentile" /\ ArrayCallMakesSense(o, heap)
    BY <2>1, AskedMakesSense DEF ArrayCallOps
  <2>3. o.out \in DOMAIN heap.arrays
          /\ o.source \in DOMAIN heap.arrays
    BY <2>2 DEF ArrayCallMakesSense
  <2>4. Outcome(heap, o.out, answer.adopted, answer.retained,
                ArrayPercentile(heap, o.out, o.source, o.along, o.keepdims, o.percent))
    BY ONLY <1>0, <2>3, ArrayPercentileOutcome
  <2>5. Lands(o)
    BY <2>1, <2>4 DEF Lands
  <2> QED
    BY <2>2, <2>5 DEF LandingOps, ArrayCallOps
<1>10. CASE ArrayArgMin
  <2>1. PICK o \in Asked("argmin") : LandArray(o, ArgExtreme(heap, o.out, o.source, <))
    BY <1>10 DEF ArrayArgMin
  <2>2. o.op = "argmin" /\ ArrayCallMakesSense(o, heap)
    BY <2>1, AskedMakesSense DEF ArrayCallOps
  <2>3. o.out \in DOMAIN heap.arrays
          /\ o.source \in DOMAIN heap.arrays
    BY <2>2 DEF ArrayCallMakesSense
  <2>4. Outcome(heap, o.out, answer.adopted, answer.retained,
                ArgExtreme(heap, o.out, o.source, <))
    BY ONLY <1>0, <2>3, ArgMinOutcome
  <2>5. Lands(o)
    BY <2>1, <2>4 DEF Lands
  <2> QED
    BY <2>2, <2>5 DEF LandingOps, ArrayCallOps
<1>11. CASE ArrayArgMax
  <2>1. PICK o \in Asked("argmax") : LandArray(o, ArgExtreme(heap, o.out, o.source, >))
    BY <1>11 DEF ArrayArgMax
  <2>2. o.op = "argmax" /\ ArrayCallMakesSense(o, heap)
    BY <2>1, AskedMakesSense DEF ArrayCallOps
  <2>3. o.out \in DOMAIN heap.arrays
          /\ o.source \in DOMAIN heap.arrays
    BY <2>2 DEF ArrayCallMakesSense
  <2>4. Outcome(heap, o.out, answer.adopted, answer.retained,
                ArgExtreme(heap, o.out, o.source, >))
    BY ONLY <1>0, <2>3, ArgMaxOutcome
  <2>5. Lands(o)
    BY <2>1, <2>4 DEF Lands
  <2> QED
    BY <2>2, <2>5 DEF LandingOps, ArrayCallOps
<1> QED
  BY <1>1, <1>2, <1>3, <1>4, <1>5, <1>6, <1>7, <1>8, <1>9, <1>10, <1>11

\* What makes sense of a heap makes sense of one with the same names.
LEMMA SenseKept ==
    ASSUME NEW o, NEW h, NEW h2, SameNames(h, h2), ArrayCallMakesSense(o, h)
    PROVE  ArrayCallMakesSense(o, h2)
BY DEF SameNames, ArrayCallMakesSense

\* The calls on arrays are none of the others.
LEMMA OpsApart ==
    \A op \in ArrayCallOps : op \notin TableCallsOn \cup DatasetCalls \cup ProgramCalls
BY DEF ArrayCallOps, TableCallsOn, TableCalls, DatasetCalls, ProgramCalls

\* A session stays sound when its heap stays sound and keeps its names.
LEMMA SoundAgain ==
    ASSUME SessionSound, menu' = menu, SameNames(heap, heap'),
           HeapSound(heap', answer'.adopted, answer'.retained), answer'.retained \in Seq(Nat),
           answer' = [call |-> answer'.call, status |-> answer'.status, left |-> answer'.left,
                      adopted |-> answer'.adopted, retained |-> answer'.retained, compiled |-> answer'.compiled]
    PROVE  SessionSound'
<1>1. ASSUME NEW k \in DOMAIN menu, menu[k].op \in ArrayCallOps
      PROVE  ArrayCallMakesSense(menu[k], heap')
  <2>1. ArrayCallMakesSense(menu[k], heap)
    BY <1>1 DEF SessionSound, CallsMakeSense
  <2> QED
    BY <2>1, SenseKept
<1>2. CallsMakeSense(heap)'
  BY <1>1 DEF CallsMakeSense
<1> QED
  BY <1>2 DEF SessionSound

\* An array whose storage keeps its cells keeps its elements.
LEMMA KeptStays ==
    ASSUME NEW o, NEW names, Keeps(heap, heap', names), answer'.status # "ok" \/ o.op # "write",
           NEW name \in Live \ names
    PROVE  ArrayStays(o, name)
<1> PICK d : d = heap.arrays[name]
  OBVIOUS
<1>1. heap'.arrays[name] = d /\ heap'.storages[d.storage].cells = heap.storages[d.storage].cells
  BY DEF Keeps, Live
<1>2. Elements(heap'.storages, d) = Elements(heap.storages, d)
  BY <1>1 DEF Elements
<1>3. \A k : ~(answer'.status = "ok" /\ Written(o, name, k))
  BY DEF Written
<1> QED
  BY <1>1, <1>2, <1>3 DEF ArrayStays

\* A heap that is what it was keeps everything.
LEMMA UnchangedKeeps ==
    ASSUME SessionSound, heap' = heap
    PROVE  Keeps(heap, heap', {}) /\ SameNames(heap, heap')
<1>1. \A name \in LiveIn(heap) : heap.arrays[name].storage \in DOMAIN heap.storages
  BY DEF SessionSound, HeapSound, Readable
<1> QED
  BY <1>1 DEF Keeps, SameNames

\* The arrays stay, but for the destinations of a call that succeeds.
LEMMA OthersStay ==
    ASSUME NEW o, o.op \in ArrayCallOps \ {"write"}, NEW names, names \subseteq Destinations(o),
           Keeps(heap, heap', names), names # {} => answer'.status = "ok"
    PROVE  OtherArraysStay(o)
<1>1. o.op \notin TableCallsOn \cup DatasetCalls \cup ProgramCalls \cup {"write"}
  BY OpsApart
<1>2. ASSUME NEW name \in Live
      PROVE  (answer'.status = "ok" /\ name \in Destinations(o)) \/ ArrayStays(o, name)
  <2>1. CASE name \in names
    BY <2>1
  <2>2. CASE name \notin names
    BY <2>2, KeptStays
  <2> QED
    BY <2>1, <2>2
<1> QED
  BY <1>1, <1>2 DEF OtherArraysStay

\* What an array step does: the session stays sound, the tables and data sets
\* are not touched, nor are the arrays that are not destinations.
Behaves == 
  /\ SessionSound'
  /\ tables' = tables /\ datasets' = datasets
  /\ answer'.call.op \in ArrayCallOps /\ OtherArraysStay(answer'.call)

\* A call that lands behaves.
LEMMA LandsBehaves ==
    ASSUME SessionSound, NEW o, o.op \in LandingOps, Lands(o)
    PROVE  Behaves
<1>1. PICK result : LandArray(o, result) /\ Outcome(heap, o.out, answer.adopted, answer.retained, result)
  BY DEF Lands
<1>2. heap' = result.heap /\ tables' = tables /\ datasets' = datasets /\ menu' = menu
        /\ answer' = [answer EXCEPT !.call = o, !.status = result.status, !.left = @ - 1]
  BY <1>1 DEF LandArray, Replied
<1>3. /\ answer' = [call |-> answer'.call, status |-> answer'.status, left |-> answer'.left,
                    adopted |-> answer'.adopted, retained |-> answer'.retained, compiled |-> answer'.compiled]
      /\ answer'.call = o /\ answer'.status = result.status
      /\ answer'.adopted = answer.adopted /\ answer'.retained = answer.retained
  BY <1>2 DEF SessionSound
<1>4. o.op \in ArrayCallOps \ {"write"} /\ o.op # "swap_arrays"
  BY DEF LandingOps
<1>5. \/ heap' = heap
      \/ /\ answer'.status = "ok" /\ HeapSound(heap', answer.adopted, answer.retained)
         /\ SameNames(heap, heap') /\ Keeps(heap, heap', {o.out})
  BY <1>1, <1>2, <1>3 DEF Outcome
<1>6. HeapSound(heap', answer.adopted, answer.retained) /\ SameNames(heap, heap')
  BY <1>5, UnchangedKeeps DEF SessionSound
<1>7. SessionSound'
  <2>1. HeapSound(heap', answer'.adopted, answer'.retained) /\ answer'.retained \in Seq(Nat)
    BY <1>3, <1>6 DEF SessionSound
  <2> QED
    BY <1>2, <1>3, <1>6, <2>1, SoundAgain
<1>8. OtherArraysStay(o)
  <2>1. CASE heap' = heap
    BY <2>1, <1>4, UnchangedKeeps, OthersStay
  <2>2. CASE answer'.status = "ok" /\ Keeps(heap, heap', {o.out})
    <3>1. {o.out} \subseteq Destinations(o)
      BY <1>4 DEF Destinations
    <3> QED
      BY <2>2, <3>1, <1>4, OthersStay
  <2> QED
    BY <2>1, <2>2, <1>5
<1> QED
  BY <1>2, <1>3, <1>4, <1>7, <1>8 DEF Behaves

\* A release lands.
LEMMA ReleaseLands ==
    ASSUME SessionSound, ArrayRelease
    PROVE  \E o : o.op \in LandingOps /\ Lands(o)
<1>1. PICK o \in Asked("release") : LandArray(o, Done(Release(heap, o.out)))
  BY DEF ArrayRelease
<1>2. o.op = "release" /\ ArrayCallMakesSense(o, heap)
  BY <1>1, AskedMakesSense DEF ArrayCallOps
<1>3. o.out \in DOMAIN heap.arrays
  BY <1>2 DEF ArrayCallMakesSense
<1> PICK h2 : h2 = Release(heap, o.out)
  OBVIOUS
<1>4. HeapSound(h2, answer.adopted, answer.retained) /\ SameNames(heap, h2) /\ Keeps(heap, h2, {o.out})
  BY <1>3, ReleaseSound DEF SessionSound
<1>5. Outcome(heap, o.out, answer.adopted, answer.retained, Done(h2))
  BY <1>4 DEF Outcome, Done
<1>6. Lands(o)
  BY <1>1, <1>5 DEF Lands
<1> QED
  BY <1>2, <1>6 DEF LandingOps, ArrayCallOps

\* Two arrays swapped behave.
LEMMA SwapBehaves ==
    ASSUME SessionSound, ArraySwap
    PROVE  Behaves
<1>1. PICK o \in Asked("swap_arrays") :
        LandArray(o, Done([heap EXCEPT !.arrays[o.out] = heap.arrays[o.other],
                                       !.arrays[o.other] = heap.arrays[o.out]]))
  BY DEF ArraySwap
<1>2. o.op = "swap_arrays" /\ ArrayCallMakesSense(o, heap)
  BY <1>1, AskedMakesSense DEF ArrayCallOps
<1>3. o.out \in DOMAIN heap.arrays /\ o.other \in DOMAIN heap.arrays
  BY <1>2 DEF ArrayCallMakesSense
<1>4. /\ heap' = [heap EXCEPT !.arrays[o.out] = heap.arrays[o.other], !.arrays[o.other] = heap.arrays[o.out]]
      /\ tables' = tables /\ datasets' = datasets /\ menu' = menu
      /\ answer' = [answer EXCEPT !.call = o, !.status = "ok", !.left = @ - 1]
  BY <1>1 DEF LandArray, Replied, Done
<1>5. /\ answer' = [call |-> answer'.call, status |-> answer'.status, left |-> answer'.left,
                    adopted |-> answer'.adopted, retained |-> answer'.retained, compiled |-> answer'.compiled]
      /\ answer'.call = o /\ answer'.status = "ok"
      /\ answer'.adopted = answer.adopted /\ answer'.retained = answer.retained
  BY <1>4 DEF SessionSound
<1>6. /\ HeapSound(heap', answer.adopted, answer.retained) /\ SameNames(heap, heap')
      /\ Keeps(heap, heap', {o.out, o.other})
  BY <1>3, <1>4, SwapSound DEF SessionSound
<1>7. SessionSound'
  BY <1>4, <1>5, <1>6, SoundAgain DEF SessionSound
<1>8. OtherArraysStay(o)
  <2>1. {o.out, o.other} \subseteq Destinations(o)
    BY <1>2 DEF Destinations
  <2>2. o.op \in ArrayCallOps \ {"write"}
    BY <1>2 DEF ArrayCallOps
  <2> QED
    BY <1>5, <1>6, <2>1, <2>2, OthersStay
<1> QED
  BY <1>2, <1>4, <1>5, <1>7, <1>8 DEF Behaves, ArrayCallOps

\* A storage retained behaves.
LEMMA RetainBehaves ==
    ASSUME SessionSound, ArrayRetain
    PROVE  Behaves
<1>1. PICK o \in Asked("retain") :
        LET storage == heap.arrays[o.out].storage
            counted == storage # NoStorage /\ heap.storages[storage].references < MaxSize
        IN /\ heap' = IF counted THEN StorageRetain(heap, storage) ELSE heap
           /\ answer' = [answer EXCEPT !.call = o, !.status = "ok", !.left = @ - 1,
                           !.retained = IF counted THEN Append(@, storage) ELSE @]
           /\ UNCHANGED <<tables, datasets, canonical, menu, reportVars>>
  BY DEF ArrayRetain
<1>2. o.op = "retain" /\ ArrayCallMakesSense(o, heap)
  BY <1>1, AskedMakesSense DEF ArrayCallOps
<1>3. o.out \in DOMAIN heap.arrays
  BY <1>2 DEF ArrayCallMakesSense
<1> PICK storage : storage = heap.arrays[o.out].storage
  OBVIOUS
<1>4. storage # NoStorage => storage \in DOMAIN heap.storages
  BY <1>3 DEF SessionSound, HeapSound, Readable, LiveIn, NoArray
<1>5. /\ answer' = [call |-> answer'.call, status |-> answer'.status, left |-> answer'.left,
                    adopted |-> answer'.adopted, retained |-> answer'.retained, compiled |-> answer'.compiled]
      /\ answer'.call = o /\ answer'.status = "ok" /\ answer'.adopted = answer.adopted
      /\ tables' = tables /\ datasets' = datasets /\ menu' = menu
  BY <1>1 DEF SessionSound
<1>6. \/ heap' = heap /\ answer'.retained = answer.retained
      \/ /\ storage \in DOMAIN heap.storages /\ heap' = StorageRetain(heap, storage)
         /\ answer'.retained = Append(answer.retained, storage)
  BY <1>1, <1>4 DEF SessionSound
<1>7. /\ HeapSound(heap', answer'.adopted, answer'.retained) /\ answer'.retained \in Seq(Nat)
      /\ SameNames(heap, heap') /\ Keeps(heap, heap', {})
  <2>1. CASE heap' = heap /\ answer'.retained = answer.retained
    BY <2>1, <1>5, UnchangedKeeps DEF SessionSound
  <2>2. CASE /\ storage \in DOMAIN heap.storages /\ heap' = StorageRetain(heap, storage)
             /\ answer'.retained = Append(answer.retained, storage)
    <3>1. answer.retained \in Seq(Nat) /\ HeapSound(heap, answer.adopted, answer.retained)
      BY DEF SessionSound
    <3>2. storage \in Nat
      BY <2>2, <3>1 DEF HeapSound, HeapTyped
    <3>3. answer'.retained \in Seq(Nat)
      <4>1. ASSUME NEW s \in Seq(Nat), NEW n \in Nat PROVE Append(s, n) \in Seq(Nat)
        OBVIOUS
      <4> QED
        BY <4>1, <3>1, <3>2, <2>2
    <3> QED
      BY <2>2, <3>1, <3>3, <1>5, StorageRetainSound
  <2> QED
    BY <2>1, <2>2, <1>6
<1>8. SessionSound'
  BY <1>5, <1>7, SoundAgain
<1>9. OtherArraysStay(o)
  BY <1>2, <1>5, <1>7, OthersStay DEF ArrayCallOps
<1> QED
  BY <1>2, <1>5, <1>8, <1>9 DEF Behaves, ArrayCallOps

\* A buffer that is given behaves.
LEMMA BufferBehaves ==
    ASSUME SessionSound, ArrayFromBuffer
    PROVE  Behaves
<1>1. PICK o \in Asked("from_buffer") :
        LET result == FromBuffer(heap, o.out, o.buffer, o.dtype, o.cells, o.view) IN
        /\ o.buffer \notin answer.adopted
        /\ heap' = result.heap
        /\ answer' = [answer EXCEPT !.call = o, !.status = result.status, !.left = @ - 1,
                        !.adopted = @ \cup (IF result.status = "ok" THEN {o.buffer} ELSE {})]
        /\ UNCHANGED <<tables, datasets, canonical, menu, reportVars>>
  BY DEF ArrayFromBuffer
<1>2. o.op = "from_buffer" /\ ArrayCallMakesSense(o, heap)
  BY <1>1, AskedMakesSense DEF ArrayCallOps
<1>3. /\ o.out \in DOMAIN heap.arrays /\ o.buffer \in DOMAIN heap.deleted \ {Internal} /\ AreCells(o.cells)
      /\ o.view.shape \in Seq(Nat) /\ o.view.strides \in Seq(Int) /\ o.view.offset \in Nat
      /\ o.view.strides # <<>> => Len(o.view.strides) = Len(o.view.shape)
  BY <1>2 DEF ArrayCallMakesSense
<1> PICK result : result = FromBuffer(heap, o.out, o.buffer, o.dtype, o.cells, o.view)
  OBVIOUS
<1>4. /\ answer' = [call |-> answer'.call, status |-> answer'.status, left |-> answer'.left,
                    adopted |-> answer'.adopted, retained |-> answer'.retained, compiled |-> answer'.compiled]
      /\ answer'.call = o /\ answer'.status = result.status
      /\ answer'.adopted = answer.adopted \cup (IF result.status = "ok" THEN {o.buffer} ELSE {})
      /\ answer'.retained = answer.retained /\ o.buffer \notin answer.adopted
      /\ heap' = result.heap /\ tables' = tables /\ datasets' = datasets /\ menu' = menu
  BY <1>1 DEF SessionSound
<1>5. \/ result.heap = heap /\ result.status # "ok"
      \/ /\ result.status = "ok" /\ HeapSound(result.heap, answer.adopted \cup {o.buffer}, answer.retained)
         /\ SameNames(heap, result.heap) /\ Keeps(heap, result.heap, {o.out})
  <2>1. answer.retained \in Seq(Nat) /\ HeapSound(heap, answer.adopted, answer.retained)
    BY DEF SessionSound
  <2> PICK out : out = o.out
    OBVIOUS
  <2> PICK buffer : buffer = o.buffer
    OBVIOUS
  <2> PICK cells : cells = o.cells
    OBVIOUS
  <2> PICK view : view = o.view
    OBVIOUS
  <2> PICK dtype : dtype = o.dtype
    OBVIOUS
  <2> PICK adopted : adopted = answer.adopted
    OBVIOUS
  <2> PICK retained : retained = answer.retained
    OBVIOUS
  <2>2. /\ retained \in Seq(Nat) /\ HeapSound(heap, adopted, retained)
        /\ out \in DOMAIN heap.arrays /\ buffer \in DOMAIN heap.deleted \ {Internal} /\ AreCells(cells)
        /\ view.shape \in Seq(Nat) /\ view.strides \in Seq(Int) /\ view.offset \in Nat
        /\ (view.strides # <<>> => Len(view.strides) = Len(view.shape))
        /\ buffer \notin adopted /\ result = FromBuffer(heap, out, buffer, dtype, cells, view)
    BY <1>3, <1>4, <2>1
  <2>3. Adopts(heap, out, buffer, adopted, retained, result)
    BY ONLY <2>2, FromBufferOutcome
  <2> QED
    BY <2>3 DEF Adopts
<1>6. /\ HeapSound(heap', answer'.adopted, answer'.retained) /\ answer'.retained \in Seq(Nat)
      /\ SameNames(heap, heap')
  <2>1. CASE result.heap = heap /\ result.status # "ok"
    <3>1. answer'.adopted = answer.adopted
      BY <2>1, <1>4
    <3> QED
      BY <2>1, <3>1, <1>4, UnchangedKeeps DEF SessionSound
  <2>2. CASE result.status = "ok"
    BY <2>2, <1>4, <1>5 DEF SessionSound
  <2> QED
    BY <2>1, <2>2, <1>5
<1>7. SessionSound'
  BY <1>4, <1>6, SoundAgain
<1>8. OtherArraysStay(o)
  <2>1. o.op \in ArrayCallOps \ {"write"} /\ {o.out} \subseteq Destinations(o)
    BY <1>2 DEF ArrayCallOps, Destinations
  <2>2. CASE heap' = heap
    BY <2>1, <2>2, UnchangedKeeps, OthersStay
  <2>3. CASE answer'.status = "ok" /\ Keeps(heap, heap', {o.out})
    BY <2>1, <2>3, OthersStay
  <2> QED
    BY <2>2, <2>3, <1>4, <1>5
<1> QED
  BY <1>2, <1>4, <1>7, <1>8 DEF Behaves, ArrayCallOps

\* An element that is written changes in every array that looks at it, and
\* nothing else does.
LEMMA WrittenStays ==
    ASSUME SessionSound, NEW o, o.op = "write", answer'.status = "ok", o.index < Size(heap.arrays[o.out]),
           o.index \in Nat, o.out \in LiveIn(heap), WritesOnly(heap, o.out, o.index, o.cell, heap'),
           NEW name \in Live
    PROVE  ArrayStays(o, name)
<1> PICK d : d = heap.arrays[name]
  OBVIOUS
<1> PICK to : to = heap.arrays[o.out]
  OBVIOUS
<1>1. /\ heap'.arrays = heap.arrays
      /\ \A other \in DOMAIN heap.storages : other # to.storage => heap'.storages[other] = heap.storages[other]
      /\ heap'.storages[to.storage].cells =
           [heap.storages[to.storage].cells EXCEPT ![LinearOffset(to, o.index) + 1] = o.cell]
  <2>1. /\ heap'.arrays = heap.arrays
        /\ \A other \in DOMAIN heap.storages : other # to.storage => heap'.storages[other] = heap.storages[other]
        /\ heap'.storages[to.storage] =
             [cells |-> [heap.storages[to.storage].cells EXCEPT ![LinearOffset(to, o.index) + 1] = o.cell],
              references |-> heap.storages[to.storage].references,
              buffer |-> heap.storages[to.storage].buffer]
    BY Zenon DEF WritesOnly
  <2>2. ASSUME NEW a, NEW b, NEW c, NEW r, r = [cells |-> a, references |-> b, buffer |-> c]
        PROVE  r.cells = a
    BY <2>2
  <2>3. heap'.storages[to.storage].cells =
          [heap.storages[to.storage].cells EXCEPT ![LinearOffset(to, o.index) + 1] = o.cell]
    BY ONLY <2>1, <2>2
  <2> QED
    BY ONLY <2>1, <2>3
<1>2. IsDescriptor(d) /\ IsDescriptor(to) /\ d.storage \in DOMAIN heap.storages
      /\ IsStorage(heap.storages[d.storage])
  BY DEF SessionSound, HeapSound, HeapTyped, Readable, Live, LiveIn
<1>3. /\ \A k \in 0..(Size(d) - 1) : LinearOffset(d, k) \in 0..(Len(heap.storages[d.storage].cells) - 1)
      /\ \A k \in 0..(Size(to) - 1) : LinearOffset(to, k) \in 0..(Len(heap.storages[to.storage].cells) - 1)
  BY DEF SessionSound, HeapSound, Readable, Live
<1>4. Size(d) \in Nat /\ Size(to) \in Nat /\ DOMAIN Elements(heap.storages, d) = 1..Size(d)
  BY <1>2, ElementsType
<1> PICK old : old = heap.storages[d.storage].cells
  OBVIOUS
<1> PICK new : new = heap'.storages[d.storage].cells
  OBVIOUS
<1> PICK q : q = LinearOffset(to, o.index)
  OBVIOUS
<1>5. q \in Int
  <2>1. o.index \in 0..(Size(to) - 1)
    BY ONLY <1>4, o.index \in Nat, o.index < Size(heap.arrays[o.out]), to = heap.arrays[o.out]
  <2>2. q \in 0..(Len(heap.storages[to.storage].cells) - 1)
    BY <2>1, <1>3
  <2> QED
    BY ONLY <2>2
<1>6. Len(old) \in Nat /\ DOMAIN old = 1..Len(old)
  <2>1. AreCells(old)
    BY <1>2 DEF IsStorage
  <2> QED
    BY <2>1 DEF AreCells
<1>7. ASSUME NEW k \in 1..Size(d)
      PROVE  /\ Elements(heap'.storages, d)[k] = new[LinearOffset(d, k - 1) + 1]
             /\ Elements(heap.storages, d)[k] = old[LinearOffset(d, k - 1) + 1]
  BY <1>7 DEF Elements
<1>8. ASSUME NEW k \in 1..Size(d)
      PROVE  Elements(heap'.storages, d)[k] =
               IF answer'.status = "ok" /\ Written(o, name, k) THEN o.cell ELSE Elements(heap.storages, d)[k]
  <2> PICK p : p = LinearOffset(d, k - 1)
    OBVIOUS
  <2>1. p \in 0..(Len(old) - 1)
    <3>1. k - 1 \in 0..(Size(d) - 1)
      BY ONLY k \in 1..Size(d), <1>4
    <3> QED
      BY <3>1, <1>3
  <2>2. p + 1 \in DOMAIN old /\ p \in Int
    BY ONLY <2>1, <1>6
  <2>3. Written(o, name, k) <=> (d.storage = to.storage /\ p = q)
    BY DEF Written
  <2>4. CASE d.storage # to.storage
    <3>1. new = old
      BY <2>4, <1>1, <1>2
    <3> QED
      BY <2>4, <3>1, <2>3, <1>7
  <2>5. CASE d.storage = to.storage
    <3>1. new = [old EXCEPT ![q + 1] = o.cell]
      BY <2>5, <1>1
    <3>2. new[p + 1] = IF p = q THEN o.cell ELSE old[p + 1]
      <4>1. p + 1 = q + 1 <=> p = q
        BY ONLY <2>2, <1>5
      <4> QED
        BY ONLY <3>1, <2>2, <4>1
    <3> QED
      BY <3>2, <2>3, <2>5, <1>7
  <2> QED
    BY <2>4, <2>5
<1> QED
  BY <1>1, <1>4, <1>8 DEF ArrayStays

\* A write behaves.
LEMMA WriteBehaves ==
    ASSUME SessionSound, ArrayWrite
    PROVE  Behaves
<1>1. PICK o \in Asked("write") : LandArray(o, Write(heap, o.out, o.index, o.cell))
  BY DEF ArrayWrite
<1>2. o.op = "write" /\ ArrayCallMakesSense(o, heap)
  BY <1>1, AskedMakesSense DEF ArrayCallOps
<1>3. o.out \in DOMAIN heap.arrays /\ o.index \in Nat
  BY <1>2 DEF ArrayCallMakesSense
<1> PICK result : result = Write(heap, o.out, o.index, o.cell)
  OBVIOUS
<1>4. heap' = result.heap /\ tables' = tables /\ datasets' = datasets /\ menu' = menu
        /\ answer' = [answer EXCEPT !.call = o, !.status = result.status, !.left = @ - 1]
  BY <1>1 DEF LandArray, Replied
<1>5. /\ answer' = [call |-> answer'.call, status |-> answer'.status, left |-> answer'.left,
                    adopted |-> answer'.adopted, retained |-> answer'.retained, compiled |-> answer'.compiled]
      /\ answer'.call = o /\ answer'.status = result.status
      /\ answer'.adopted = answer.adopted /\ answer'.retained = answer.retained
  BY <1>4 DEF SessionSound
<1>6. \/ heap' = heap /\ (answer'.status = "ok" => o.index >= Size(heap.arrays[o.out]))
      \/ /\ answer'.status = "ok" /\ o.index < Size(heap.arrays[o.out]) /\ o.out \in LiveIn(heap)
         /\ HeapSound(heap', answer.adopted, answer.retained)
         /\ WritesOnly(heap, o.out, o.index, o.cell, heap')
  <2>1. answer.retained \in Seq(Nat) /\ HeapSound(heap, answer.adopted, answer.retained)
    BY DEF SessionSound
  <2>2. \/ result.heap = heap /\ (result.status = "ok" => o.index >= Size(heap.arrays[o.out]))
        \/ /\ result.status = "ok" /\ o.index < Size(heap.arrays[o.out]) /\ o.out \in LiveIn(heap)
           /\ HeapSound(result.heap, answer.adopted, answer.retained)
           /\ WritesOnly(heap, o.out, o.index, o.cell, result.heap)
    BY ONLY <1>3, <2>1, result = Write(heap, o.out, o.index, o.cell), WriteSound
  <2> QED
    BY <2>2, <1>4, <1>5
<1>7. HeapSound(heap', answer'.adopted, answer'.retained) /\ SameNames(heap, heap')
  <2>1. CASE heap' = heap
    BY <2>1, <1>5, UnchangedKeeps DEF SessionSound
  <2>2. CASE /\ HeapSound(heap', answer.adopted, answer.retained)
             /\ WritesOnly(heap, o.out, o.index, o.cell, heap')
    BY <2>2, <1>5 DEF WritesOnly, SameNames
  <2> QED
    BY <2>1, <2>2, <1>6
<1>8. SessionSound'
  BY <1>4, <1>5, <1>7, SoundAgain DEF SessionSound
<1>9. ASSUME NEW name \in Live
      PROVE  ArrayStays(o, name)
  <2>1. CASE heap' = heap /\ (answer'.status = "ok" => o.index >= Size(heap.arrays[o.out]))
    <3>1. \A k : ~(answer'.status = "ok" /\ Written(o, name, k))
      <4>1. Size(heap.arrays[o.out]) \in Nat
        BY <1>3, ElementsType DEF SessionSound, HeapSound, HeapTyped
      <4>2. answer'.status = "ok" => ~(o.index < Size(heap.arrays[o.out]))
        BY ONLY <4>1, <2>1, <1>3
      <4> QED
        BY <4>2 DEF Written
    <3> QED
      BY <2>1, <3>1 DEF ArrayStays
  <2>2. CASE /\ answer'.status = "ok" /\ o.index < Size(heap.arrays[o.out]) /\ o.out \in LiveIn(heap)
             /\ WritesOnly(heap, o.out, o.index, o.cell, heap')
    BY <2>2, <1>2, <1>3, WrittenStays
  <2> QED
    BY <2>1, <2>2, <1>6
<1>10. OtherArraysStay(o)
  BY <1>9 DEF OtherArraysStay
<1> QED
  BY <1>2, <1>4, <1>5, <1>8, <1>10 DEF Behaves, ArrayCallOps

\* Every call on arrays behaves.
LEMMA ArrayStepBehaves ==
    ASSUME SessionSound, ViewStep \/ NumberStep
    PROVE  Behaves
<1>1. CASE ArrayFromBuffer
  BY <1>1, BufferBehaves
<1>2. CASE ArrayWrite
  BY <1>2, WriteBehaves
<1>3. CASE ArraySwap
  BY <1>3, SwapBehaves
<1>4. CASE ArrayRetain
  BY <1>4, RetainBehaves
<1>5. CASE ArrayRelease
  BY <1>5, ReleaseLands, LandsBehaves
<1>6. CASE \/ ArrayFromValues \/ ArrayZeros \/ ArrayShare \/ ArrayReshapeView \/ ArraySlice \/ ArraySliceWithin
           \/ ArrayTranspose \/ ArrayBroadcast \/ ArrayReshapeCopy \/ ArrayBooleanMask \/ ArrayNonZero
           \/ ArrayWhere
  BY <1>6, ViewsLand, LandsBehaves
<1>7. CASE \/ ArrayConvert \/ ArrayBinary \/ ArrayGreater \/ ArrayIsNaN \/ ArrayIsFinite \/ ArrayTotal
           \/ ArrayMultiplied \/ ArrayReduced \/ ArrayRanked \/ ArrayArgMin \/ ArrayArgMax
  BY <1>7, NumbersLand, LandsBehaves
<1> QED
  BY <1>1, <1>2, <1>3, <1>4, <1>5, <1>6, <1>7 DEF ViewStep, NumberStep


\* What is made for a table, wherever it was made, lands in it, or in a table
\* that is there even when nothing was made.
OnTables(o) ==
  /\ o.op \in TableCallsOn
  /\ \E built : LandTable(o, built) \/ LandColumn(o, built)

\* Every call on tables but the swap, and the run of a bound program, lands so.
LEMMA TablesLand ==
    ASSUME TableStep \/ ProgramExecute, ~TableSwap
    PROVE  \E o : OnTables(o)
<1>1. ASSUME NEW o, NEW built PROVE LandTable(o, built) => \E b : LandTable(o, b) \/ LandColumn(o, b)
  OBVIOUS
<1>2. ASSUME NEW o, NEW built PROVE LandColumn(o, built) => \E b : LandTable(o, b) \/ LandColumn(o, b)
  OBVIOUS
<1>3. ASSUME NEW o, NEW sources, NEW built
      PROVE  LandApart(o, sources, built) => \E b : LandTable(o, b) \/ LandColumn(o, b)
  BY <1>1 DEF LandApart
<1>4. ASSUME NEW o, NEW built PROVE LandKept(o, built) => \E b : LandTable(o, b) \/ LandColumn(o, b)
  BY <1>1 DEF LandKept
<1>5. ASSUME NEW op \in TableCallsOn, NEW o \in Asked(op), \E b : LandTable(o, b) \/ LandColumn(o, b)
      PROVE  OnTables(o)
  BY <1>5 DEF OnTables, Asked
<1>6. CASE TableClone
  <2>1. \E o \in Asked("clone") : \E b : LandTable(o, b) \/ LandColumn(o, b)
    BY <1>1, <1>2, <1>3, <1>4, <1>6 DEF TableClone
  <2>2. "clone" \in TableCallsOn
    BY DEF TableCallsOn, TableCalls
  <2> QED
    BY <2>1, <2>2, <1>5
<1>7. CASE TableFilter
  <2>1. \E o \in Asked("filter") : \E b : LandTable(o, b) \/ LandColumn(o, b)
    BY <1>1, <1>2, <1>3, <1>4, <1>7 DEF TableFilter
  <2>2. "filter" \in TableCallsOn
    BY DEF TableCallsOn, TableCalls
  <2> QED
    BY <2>1, <2>2, <1>5
<1>8. CASE TableSelect
  <2>1. \E o \in Asked("select") : \E b : LandTable(o, b) \/ LandColumn(o, b)
    BY <1>1, <1>2, <1>3, <1>4, <1>8 DEF TableSelect
  <2>2. "select" \in TableCallsOn
    BY DEF TableCallsOn, TableCalls
  <2> QED
    BY <2>1, <2>2, <1>5
<1>9. CASE TableDropNulls
  <2>1. \E o \in Asked("drop_nulls") : \E b : LandTable(o, b) \/ LandColumn(o, b)
    BY <1>1, <1>2, <1>3, <1>4, <1>9 DEF TableDropNulls
  <2>2. "drop_nulls" \in TableCallsOn
    BY DEF TableCallsOn, TableCalls
  <2> QED
    BY <2>1, <2>2, <1>5
<1>10. CASE TableSort
  <2>1. \E o \in Asked("sort") : \E b : LandTable(o, b) \/ LandColumn(o, b)
    BY <1>1, <1>2, <1>3, <1>4, <1>10 DEF TableSort
  <2>2. "sort" \in TableCallsOn
    BY DEF TableCallsOn, TableCalls
  <2> QED
    BY <2>1, <2>2, <1>5
<1>11. CASE TableGroupBy
  <2>1. \E o \in Asked("group_by") : \E b : LandTable(o, b) \/ LandColumn(o, b)
    BY <1>1, <1>2, <1>3, <1>4, <1>11 DEF TableGroupBy
  <2>2. "group_by" \in TableCallsOn
    BY DEF TableCallsOn, TableCalls
  <2> QED
    BY <2>1, <2>2, <1>5
<1>12. CASE TableJoin
  <2>1. \E o \in Asked("join") : \E b : LandTable(o, b) \/ LandColumn(o, b)
    BY <1>1, <1>2, <1>3, <1>4, <1>12 DEF TableJoin
  <2>2. "join" \in TableCallsOn
    BY DEF TableCallsOn, TableCalls
  <2> QED
    BY <2>1, <2>2, <1>5
<1>13. CASE TableUnpivot
  <2>1. \E o \in Asked("unpivot") : \E b : LandTable(o, b) \/ LandColumn(o, b)
    BY <1>1, <1>2, <1>3, <1>4, <1>13 DEF TableUnpivot
  <2>2. "unpivot" \in TableCallsOn
    BY DEF TableCallsOn, TableCalls
  <2> QED
    BY <2>1, <2>2, <1>5
<1>14. CASE TableDropDuplicates
  <2>1. \E o \in Asked("drop_duplicates") : \E b : LandTable(o, b) \/ LandColumn(o, b)
    BY <1>1, <1>2, <1>3, <1>4, <1>14 DEF TableDropDuplicates
  <2>2. "drop_duplicates" \in TableCallsOn
    BY DEF TableCallsOn, TableCalls
  <2> QED
    BY <2>1, <2>2, <1>5
<1>15. CASE TableFilterNumeric
  <2>1. \E o \in Asked("filter_numeric") : \E b : LandTable(o, b) \/ LandColumn(o, b)
    BY <1>1, <1>2, <1>3, <1>4, <1>15 DEF TableFilterNumeric
  <2>2. "filter_numeric" \in TableCallsOn
    BY DEF TableCallsOn, TableCalls
  <2> QED
    BY <2>1, <2>2, <1>5
<1>16. CASE TableFromDataset
  <2>1. \E o \in Asked("from_dataset") : \E b : LandTable(o, b) \/ LandColumn(o, b)
    BY <1>1, <1>2, <1>3, <1>4, <1>16 DEF TableFromDataset
  <2>2. "from_dataset" \in TableCallsOn
    BY DEF TableCallsOn, TableCalls
  <2> QED
    BY <2>1, <2>2, <1>5
<1>17. CASE TableDestroy
  <2>1. \E o \in Asked("destroy") : \E b : LandTable(o, b) \/ LandColumn(o, b)
    BY <1>1, <1>2, <1>3, <1>4, <1>17 DEF TableDestroy
  <2>2. "destroy" \in TableCallsOn
    BY DEF TableCallsOn, TableCalls
  <2> QED
    BY <2>1, <2>2, <1>5
<1>18. CASE TableFillNull
  <2>1. \E o \in Asked("fill_null") : \E b : LandTable(o, b) \/ LandColumn(o, b)
    BY <1>1, <1>2, <1>3, <1>4, <1>18 DEF TableFillNull
  <2>2. "fill_null" \in TableCallsOn
    BY DEF TableCallsOn, TableCalls
  <2> QED
    BY <2>1, <2>2, <1>5
<1>19. CASE TableAddProduct
  <2>1. \E o \in Asked("add_product") : \E b : LandTable(o, b) \/ LandColumn(o, b)
    BY <1>1, <1>2, <1>3, <1>4, <1>19 DEF TableAddProduct
  <2>2. "add_product" \in TableCallsOn
    BY DEF TableCallsOn, TableCalls
  <2> QED
    BY <2>1, <2>2, <1>5
<1>20. CASE TableAddMonth
  <2>1. \E o \in Asked("add_month") : \E b : LandTable(o, b) \/ LandColumn(o, b)
    BY <1>1, <1>2, <1>3, <1>4, <1>20 DEF TableAddMonth
  <2>2. "add_month" \in TableCallsOn
    BY DEF TableCallsOn, TableCalls
  <2> QED
    BY <2>1, <2>2, <1>5
<1>21. CASE TableAddStatistic
  <2>1. \E o \in Asked("add_statistic") : \E b : LandTable(o, b) \/ LandColumn(o, b)
    BY <1>1, <1>2, <1>3, <1>4, <1>21 DEF TableAddStatistic
  <2>2. "add_statistic" \in TableCallsOn
    BY DEF TableCallsOn, TableCalls
  <2> QED
    BY <2>1, <2>2, <1>5
<1>22. CASE TableAddArray
  <2>1. \E o \in Asked("add_array") : \E b : LandTable(o, b) \/ LandColumn(o, b)
    BY <1>1, <1>2, <1>3, <1>4, <1>22 DEF TableAddArray
  <2>2. "add_array" \in TableCallsOn
    BY DEF TableCallsOn, TableCalls
  <2> QED
    BY <2>1, <2>2, <1>5
<1>23. CASE TableAddString
  <2>1. \E o \in Asked("add_string") : \E b : LandTable(o, b) \/ LandColumn(o, b)
    BY <1>1, <1>2, <1>3, <1>4, <1>23 DEF TableAddString
  <2>2. "add_string" \in TableCallsOn
    BY DEF TableCallsOn, TableCalls
  <2> QED
    BY <2>1, <2>2, <1>5
<1>24. CASE TableAddCategorical
  <2>1. \E o \in Asked("add_categorical") : \E b : LandTable(o, b) \/ LandColumn(o, b)
    BY <1>1, <1>2, <1>3, <1>4, <1>24 DEF TableAddCategorical
  <2>2. "add_categorical" \in TableCallsOn
    BY DEF TableCallsOn, TableCalls
  <2> QED
    BY <2>1, <2>2, <1>5
<1>25. CASE TableSetMetadata
  <2>1. \E o \in Asked("set_metadata") : \E b : LandTable(o, b) \/ LandColumn(o, b)
    BY <1>1, <1>2, <1>3, <1>4, <1>25 DEF TableSetMetadata
  <2>2. "set_metadata" \in TableCallsOn
    BY DEF TableCallsOn, TableCalls
  <2> QED
    BY <2>1, <2>2, <1>5
<1>26. CASE TableOwnMetadata
  <2>1. \E o \in Asked("own_metadata") : \E b : LandTable(o, b) \/ LandColumn(o, b)
    BY <1>1, <1>2, <1>3, <1>4, <1>26 DEF TableOwnMetadata
  <2>2. "own_metadata" \in TableCallsOn
    BY DEF TableCallsOn, TableCalls
  <2> QED
    BY <2>1, <2>2, <1>5
<1>27. CASE ProgramExecute
  <2>1. \E o \in Asked("execute") : \E b : LandTable(o, b) \/ LandColumn(o, b)
    BY <1>1, <1>2, <1>3, <1>4, <1>27 DEF ProgramExecute
  <2>2. "execute" \in TableCallsOn
    BY DEF TableCallsOn, TableCalls
  <2> QED
    BY <2>1, <2>2, <1>5
<1> QED
  BY <1>6, <1>7, <1>8, <1>9, <1>10, <1>11, <1>12, <1>13, <1>14, <1>15, <1>16, <1>17, <1>18, <1>19, <1>20, <1>21, <1>22, <1>23, <1>24, <1>25, <1>26, <1>27 DEF TableStep


\* What every other step leaves alone.
ArraysAside(o) ==
  /\ heap' = heap /\ menu' = menu /\ answer'.call = o /\ o.op # "write"
  /\ answer'.adopted = answer.adopted /\ answer'.retained = answer.retained
  /\ answer' = [call |-> answer'.call, status |-> answer'.status, left |-> answer'.left,
                adopted |-> answer'.adopted, retained |-> answer'.retained, compiled |-> answer'.compiled]

\* Then the session stays sound and the arrays stay.
LEMMA AsideBehaves ==
    ASSUME SessionSound, NEW o, ArraysAside(o)
    PROVE  SessionSound' /\ answer'.call = o /\ OtherArraysStay(o)
<1>1. Keeps(heap, heap', {}) /\ SameNames(heap, heap')
  BY UnchangedKeeps DEF ArraysAside
<1>2. SessionSound'
  BY <1>1, SoundAgain DEF ArraysAside, SessionSound
<1>3. OtherArraysStay(o)
  BY <1>1, KeptStays DEF OtherArraysStay, ArraysAside
<1> QED
  BY <1>2, <1>3 DEF ArraysAside

\* A table that is there is as ready as it can be.
LEMMA ReadyOnce ==
    ASSUME NEW t
    PROVE  AsReady(AsReady(t)) = AsReady(t)
BY DEF AsReady

\* What a call may change beside the arrays.
Elsewhere(o) ==
  /\ SessionSound'
  /\ answer'.call = o /\ OtherTablesStay(o) /\ OtherDatasetsStay(o) /\ OtherArraysStay(o)

\* A call that replies leaves the arrays aside.
LEMMA RepliedAside ==
    ASSUME SessionSound, NEW o, o.op # "write", NEW status, Replied(o, status), heap' = heap
    PROVE  ArraysAside(o) /\ answer'.status = status
BY DEF Replied, ArraysAside, SessionSound

\* Only the destination of what lands in a table changes, and only if it was made.
LEMMA OnTablesBehaves ==
    ASSUME SessionSound, NEW o, OnTables(o)
    PROVE  Elsewhere(o)
<1>1. PICK built : LandTable(o, built) \/ LandColumn(o, built)
  BY DEF OnTables
<1>2. o.op \in TableCallsOn /\ o.op # "write"
  BY DEF OnTables, TableCallsOn, TableCalls
<1>3. heap' = heap /\ datasets' = datasets /\ Replied(o, built.status)
  BY <1>1 DEF LandTable, LandColumn
<1>4. answer'.status = built.status /\ SessionSound' /\ answer'.call = o /\ OtherArraysStay(o)
  BY <1>2, <1>3, RepliedAside, AsideBehaves
<1>5. OtherDatasetsStay(o)
  BY <1>3 DEF OtherDatasetsStay
<1>6. ASSUME NEW name \in DOMAIN tables, ~(answer'.status = "ok" /\ name \in Destinations(o))
      PROVE  AsReady(tables'[name]) = AsReady(tables[name])
  <2>1. o.out \in Destinations(o)
    BY DEF Destinations
  <2>2. CASE LandTable(o, built)
    <3>1. tables' = [tables EXCEPT ![o.out] = Landed(tables[o.out], built)]
      BY <2>2 DEF LandTable
    <3>2. CASE name = o.out
      <4>1. built.status # "ok"
        BY <3>2, <2>1, <1>4, <1>6
      <4> QED
        BY <3>1, <3>2, <4>1 DEF Landed
    <3>3. CASE name # o.out
      BY <3>1, <3>3
    <3> QED
      BY <3>2, <3>3
  <2>3. CASE LandColumn(o, built)
    <3>1. tables' = [tables EXCEPT ![o.out] = Landed(AsReady(tables[o.out]), built)]
      BY <2>3 DEF LandColumn, AsReady
    <3>2. CASE name = o.out
      <4>1. built.status # "ok"
        BY <3>2, <2>1, <1>4, <1>6
      <4>2. tables'[name] = AsReady(tables[name])
        BY <3>1, <3>2, <4>1 DEF Landed
      <4> QED
        BY <4>2, ReadyOnce
    <3>3. CASE name # o.out
      BY <3>1, <3>3
    <3> QED
      BY <3>2, <3>3
  <2> QED
    BY <2>2, <2>3, <1>1
<1>7. OtherTablesStay(o)
  BY <1>2, <1>6 DEF OtherTablesStay
<1> QED
  BY <1>4, <1>5, <1>7 DEF Elsewhere

\* Two tables swapped are the only ones.
LEMMA TableSwapBehaves ==
    ASSUME SessionSound, TableSwap
    PROVE  \E o : Elsewhere(o)
<1>1. PICK o \in Asked("swap_tables") :
        /\ tables' = [tables EXCEPT ![o.out] = tables[o.other], ![o.other] = tables[o.out]]
        /\ Replied(o, "ok")
        /\ UNCHANGED <<datasets, heap, canonical>>
  BY DEF TableSwap
<1>2. o.op = "swap_tables"
  BY DEF Asked
<1>3. answer'.status = "ok" /\ SessionSound' /\ answer'.call = o /\ OtherArraysStay(o)
  BY <1>1, <1>2, RepliedAside, AsideBehaves
<1>4. o.op \in TableCallsOn /\ Destinations(o) = {o.out, o.other}
  BY <1>2 DEF TableCallsOn, Destinations
<1>5. \A name \in DOMAIN tables : name \in Destinations(o) \/ tables'[name] = tables[name]
  BY <1>1, <1>4
<1>6. OtherTablesStay(o)
  BY <1>3, <1>4, <1>5 DEF OtherTablesStay
<1>7. OtherDatasetsStay(o)
  BY <1>1 DEF OtherDatasetsStay
<1> QED
  BY <1>3, <1>6, <1>7 DEF Elsewhere


\* What is made for a data set lands in it.
OnDatasets(o) == o.op \in DatasetCalls /\ \E made : LandDataset(o, made)

\* Every call on data sets does.
LEMMA DatasetsLand ==
    ASSUME DatasetStep
    PROVE  \E o : OnDatasets(o)
<1>1. ASSUME NEW op \in DatasetCalls, NEW o \in Asked(op), \E made : LandDataset(o, made)
      PROVE  OnDatasets(o)
  BY <1>1 DEF OnDatasets, Asked
<1>2. CASE DatasetLoad
  <2>1. \E o \in Asked("load") : \E made : LandDataset(o, made)
    BY <1>2 DEF DatasetLoad
  <2>2. "load" \in DatasetCalls
    BY DEF DatasetCalls
  <2> QED
    BY <2>1, <2>2, <1>1
<1>3. CASE DatasetAddProduct
  <2>1. \E o \in Asked("dataset_product") : \E made : LandDataset(o, made)
    BY <1>3 DEF DatasetAddProduct
  <2>2. "dataset_product" \in DatasetCalls
    BY DEF DatasetCalls
  <2> QED
    BY <2>1, <2>2, <1>1
<1>4. CASE DatasetAddMonth
  <2>1. \E o \in Asked("dataset_month") : \E made : LandDataset(o, made)
    BY <1>4 DEF DatasetAddMonth
  <2>2. "dataset_month" \in DatasetCalls
    BY DEF DatasetCalls
  <2> QED
    BY <2>1, <2>2, <1>1
<1>5. CASE DatasetRemoveNulls
  <2>1. \E o \in Asked("remove_nulls") : \E made : LandDataset(o, made)
    BY <1>5 DEF DatasetRemoveNulls
  <2>2. "remove_nulls" \in DatasetCalls
    BY DEF DatasetCalls
  <2> QED
    BY <2>1, <2>2, <1>1
<1>6. CASE DatasetRemoveDuplicates
  <2>1. \E o \in Asked("remove_duplicates") : \E made : LandDataset(o, made)
    BY <1>6 DEF DatasetRemoveDuplicates
  <2>2. "remove_duplicates" \in DatasetCalls
    BY DEF DatasetCalls
  <2> QED
    BY <2>1, <2>2, <1>1
<1>7. CASE DatasetOfTable
  <2>1. \E o \in Asked("to_dataset") : \E made : LandDataset(o, made)
    BY <1>7 DEF DatasetOfTable
  <2>2. "to_dataset" \in DatasetCalls
    BY DEF DatasetCalls
  <2> QED
    BY <2>1, <2>2, <1>1
<1> QED
  BY <1>2, <1>3, <1>4, <1>5, <1>6, <1>7 DEF DatasetStep


\* Only the destination of what lands in a data set changes, if it was made.
LEMMA OnDatasetsBehaves ==
    ASSUME SessionSound, NEW o, OnDatasets(o)
    PROVE  Elsewhere(o)
<1>1. PICK made : LandDataset(o, made)
  BY DEF OnDatasets
<1>2. o.op \in DatasetCalls /\ o.op # "write"
  BY DEF OnDatasets, DatasetCalls
<1>3. heap' = heap /\ tables' = tables /\ Replied(o, made.status)
        /\ datasets' = [datasets EXCEPT ![o.out] = IF made.status = "ok" THEN made.dataset ELSE datasets[o.out]]
  BY <1>1 DEF LandDataset
<1>4. answer'.status = made.status /\ SessionSound' /\ answer'.call = o /\ OtherArraysStay(o)
  BY <1>2, <1>3, RepliedAside, AsideBehaves
<1>5. OtherTablesStay(o)
  BY <1>3 DEF OtherTablesStay
<1>6. ASSUME NEW name \in DOMAIN datasets
      PROVE  (answer'.status = "ok" /\ name = o.out) \/ datasets'[name] = datasets[name]
  <2>1. CASE made.status = "ok"
    BY <2>1, <1>3, <1>4
  <2>2. CASE made.status # "ok"
    BY <2>2, <1>3
  <2> QED
    BY <2>1, <2>2
<1>7. OtherDatasetsStay(o)
  BY <1>2, <1>6 DEF OtherDatasetsStay
<1> QED
  BY <1>4, <1>5, <1>7 DEF Elsewhere

\* A call that lands in a program, compiles or begins a report touches no table,
\* no data set and no array.
OnPrograms(o) ==
  /\ o.op \in ProgramCalls
  /\ tables' = tables /\ datasets' = datasets /\ heap' = heap /\ menu' = menu
  /\ \E status, left, compiled :
       answer' = [answer EXCEPT !.call = o, !.status = status, !.left = left, !.compiled = compiled]

\* Every call on programs and plans, but the run of a bound program, is one.
LEMMA ProgramsLand ==
    ASSUME SessionSound, ProgramStep \/ PlanStep, ~ProgramExecute
    PROVE  \E o : OnPrograms(o)
<1>1. ASSUME NEW op \in ProgramCalls, NEW o \in Asked(op), \E program, status : LandProgram(o, program, status)
      PROVE  OnPrograms(o)
  <2>1. PICK program, status : LandProgram(o, program, status)
    BY <1>1
  <2>2. /\ tables' = tables /\ datasets' = datasets /\ heap' = heap /\ menu' = menu
        /\ answer' = [answer EXCEPT !.call = o, !.status = status, !.left = answer.left - 1]
    BY <2>1 DEF LandProgram, Replied
  <2>3. answer' = [answer EXCEPT !.call = o, !.status = status, !.left = answer.left - 1,
                                 !.compiled = answer.compiled]
    BY <2>2 DEF SessionSound
  <2> QED
    BY <1>1, <2>2, <2>3 DEF OnPrograms, Asked
<1>2. ASSUME NEW op \in ProgramCalls, NEW o \in Asked(op), \E made : Compiled(o, made)
      PROVE  OnPrograms(o)
  <2>1. PICK made : Compiled(o, made)
    BY <1>2
  <2>2. /\ tables' = tables /\ datasets' = datasets /\ heap' = heap /\ menu' = menu
        /\ answer' = [answer EXCEPT !.call = o, !.status = made.status, !.left = answer.left - 1,
                                    !.compiled = answer.compiled \cup made.blocks]
    BY <2>1 DEF Compiled, state
  <2> QED
    BY <1>2, <2>2 DEF OnPrograms, Asked
<1>3. ASSUME NEW op \in ProgramCalls, NEW o \in Asked(op), \E block : Begun(o, block)
      PROVE  OnPrograms(o)
  <2>1. PICK block : Begun(o, block)
    BY <1>3
  <2>2. /\ tables' = tables /\ datasets' = datasets /\ heap' = heap /\ menu' = menu
        /\ answer' = [answer EXCEPT !.call = o, !.left = answer.left - 1]
    BY <2>1 DEF Begun, state
  <2>3. answer' = [answer EXCEPT !.call = o, !.status = answer.status, !.left = answer.left - 1,
                                 !.compiled = answer.compiled]
    BY <2>2 DEF SessionSound
  <2> QED
    BY <1>3, <2>2, <2>3 DEF OnPrograms, Asked
<1>4. {"parse", "release_program", "bind", "compiler_input", "compile", "compile_program", "run_data",
       "run_compiled"} \subseteq ProgramCalls
  BY DEF ProgramCalls
<1>5. CASE ProgramParse
  <2>1. \E o \in Asked("parse") : \E program, status : LandProgram(o, program, status)
    BY <1>5 DEF ProgramParse
  <2> QED
    BY <2>1, <1>1, <1>4
<1>6. CASE ProgramRelease
  <2>1. \E o \in Asked("release_program") : \E program, status : LandProgram(o, program, status)
    BY <1>6 DEF ProgramRelease
  <2> QED
    BY <2>1, <1>1, <1>4
<1>7. CASE ProgramBind
  <2>1. \E o \in Asked("bind") : \E program, status : LandProgram(o, program, status)
    BY <1>7 DEF ProgramBind, LandBinding
  <2> QED
    BY <2>1, <1>1, <1>4
<1>8. CASE ProgramInput
  <2>1. \E o \in Asked("compiler_input") : \E program, status : LandProgram(o, program, status)
    BY <1>8 DEF ProgramInput
  <2> QED
    BY <2>1, <1>1, <1>4
<1>9. CASE CompileData
  <2>1. \E o \in Asked("compile") : \E made : Compiled(o, made)
    BY <1>9 DEF CompileData
  <2> QED
    BY <2>1, <1>2, <1>4
<1>10. CASE CompileProgram
  <2>1. \E o \in Asked("compile_program") : \E made : Compiled(o, made)
    BY <1>10 DEF CompileProgram
  <2> QED
    BY <2>1, <1>2, <1>4
<1>11. CASE RunData
  <2>1. \E o \in Asked("run_data") : \E block : Begun(o, block)
    BY <1>11 DEF RunData
  <2> QED
    BY <2>1, <1>3, <1>4
<1>12. CASE RunCompiled
  <2>1. \E o \in Asked("run_compiled") : \E block : Begun(o, block)
    BY <1>12 DEF RunCompiled
  <2> QED
    BY <2>1, <1>3, <1>4
<1> QED
  BY <1>5, <1>6, <1>7, <1>8, <1>9, <1>10, <1>11, <1>12 DEF ProgramStep, PlanStep


\* Programs leave everything else as it was.
LEMMA OnProgramsBehaves ==
    ASSUME SessionSound, NEW o, OnPrograms(o)
    PROVE  Elsewhere(o)
<1>1. o.op # "write"
  BY DEF OnPrograms, ProgramCalls
<1>2. ArraysAside(o)
  BY <1>1 DEF OnPrograms, ArraysAside, SessionSound
<1>3. OtherTablesStay(o) /\ OtherDatasetsStay(o)
  BY DEF OnPrograms, OtherTablesStay, OtherDatasetsStay
<1> QED
  BY <1>2, <1>3, AsideBehaves DEF Elsewhere

\* So do calls on arrays.
LEMMA OnArraysBehaves ==
    ASSUME SessionSound, ViewStep \/ NumberStep
    PROVE  \E o : Elsewhere(o)
<1>1. Behaves
  BY ArrayStepBehaves
<1>2. OtherTablesStay(answer'.call) /\ OtherDatasetsStay(answer'.call)
  BY <1>1 DEF Behaves, OtherTablesStay, OtherDatasetsStay
<1>3. Elsewhere(answer'.call)
  BY <1>1, <1>2 DEF Behaves, Elsewhere
<1> QED
  BY <1>3

\* Whatever is called, the session stays sound and nothing but the destination
\* changes.
LEMMA StepBehaves ==
    ASSUME SessionSound, [Next]_vars
    PROVE  SessionSound' /\ (Called => \E o : Elsewhere(o))
<1>1. CASE TableSwap
  BY <1>1, TableSwapBehaves DEF Elsewhere
<1>2. CASE (TableStep \/ ProgramExecute) /\ ~TableSwap
  BY <1>2, TablesLand, OnTablesBehaves DEF Elsewhere
<1>3. CASE DatasetStep
  BY <1>3, DatasetsLand, OnDatasetsBehaves DEF Elsewhere
<1>4. CASE ViewStep \/ NumberStep
  BY <1>4, OnArraysBehaves DEF Elsewhere
<1>5. CASE (ProgramStep \/ PlanStep) /\ ~ProgramExecute
  BY <1>5, ProgramsLand, OnProgramsBehaves DEF Elsewhere
<1>6. CASE RunStep \/ UNCHANGED vars
  <2>1. heap' = heap /\ menu' = menu /\ answer' = answer
    BY <1>6 DEF RunStep, vars, state
  <2>2. SessionSound'
    BY <2>1 DEF SessionSound, CallsMakeSense
  <2> QED
    BY <2>1, <2>2 DEF Called
<1> QED
  BY <1>1, <1>2, <1>3, <1>4, <1>5, <1>6 DEF Next

\* A session starts sound.
LEMMA InitSound == Init => SessionSound
<1> SUFFICES ASSUME Init PROVE SessionSound
  OBVIOUS
<1>1. PICK n \in DOMAIN Sessions :
        /\ heap = Sessions[n].heap /\ menu = Sessions[n].menu
        /\ answer = [call |-> NoCall, status |-> "ok", left |-> Sessions[n].calls,
                     adopted |-> Sessions[n].adopted, retained |-> <<>>, compiled |-> {}]
  BY DEF Init
<1>2. answer.retained = <<>> /\ answer.retained \in Seq(Nat) /\ answer.adopted = Sessions[n].adopted
  BY <1>1
<1>3. HeapSound(heap, answer.adopted, answer.retained) /\ CallsMakeSense(heap)
  BY <1>1, <1>2, SessionsMakeSense DEF CallsMakeSense
<1> QED
  BY <1>1, <1>2, <1>3 DEF SessionSound

\* The inductive invariant of a session: what holds a storage is counted, what
\* is counted is held, and what a descriptor says can be read.
THEOREM AlwaysSound == Spec => []SessionSound
<1>1. SessionSound /\ [Next]_vars => SessionSound'
  BY StepBehaves
<1> QED
  BY InitSound, <1>1, PTL DEF Spec

\* In every session, whatever arrays it starts with and whatever is called in
\* whatever order: every live descriptor can be read through, every storage
\* counts its holders exactly and is there only while there are some, and a
\* buffer is deleted once, when nothing holds it any more.
THEOREM ArraysAlwaysSound == Spec => []ArraysSound
<1>1. SessionSound => ArraysSound
  BY DEF SessionSound, ArraysSound, HeapSound
<1> QED
  BY AlwaysSound, <1>1, PTL

\* In every session, a call that fails changes no table, data set or array, and
\* one that succeeds changes its destination only, or, when it writes an
\* element, that element in every array that looks at it.
THEOREM DestinationsOnly == Spec => OnlyTheDestinationChanges
<1> DEFINE Settled == Called => /\ OtherTablesStay(answer'.call)
                                /\ OtherDatasetsStay(answer'.call)
                                /\ OtherArraysStay(answer'.call)
<1>1. SessionSound /\ [Next]_vars => [Settled]_vars
  BY StepBehaves DEF Elsewhere
<1>2. Spec => [][Settled]_vars
  BY AlwaysSound, <1>1, PTL DEF Spec
<1> QED
  BY <1>2 DEF OnlyTheDestinationChanges


-----------------------------------------------------------------------------
(* Plans: what the encoder makes, the verifier accepts.                      *)

\* The first of some statuses is one of them, or ok.
LEMMA FirstStatusIsOne ==
    ASSUME NEW statuses, Len(statuses) \in Nat
    PROVE  FirstStatus(statuses) = "ok" \/ \E i \in 1..Len(statuses) : FirstStatus(statuses) = statuses[i]
<1> DEFINE Bad == {i \in 1..Len(statuses) : statuses[i] # "ok"}
<1>1. CASE Bad = {}
  BY <1>1, AllAreOk
<1>2. CASE Bad # {}
  <2>1. PICK x \in Bad : \A y \in Bad : x <= y
    <3>1. Bad \subseteq Nat
      OBVIOUS
    <3> HIDE DEF Bad
    <3> QED
      BY <1>2, <3>1, LeastElement
  <2>2. Min(Bad) \in Bad
    <3> HIDE DEF Bad
    <3> QED
      BY <2>1 DEF Min
  <2>3. SelectInSeq(statuses, LAMBDA s : s # "ok") = Min(Bad)
    BY <1>2 DEF SelectInSeq
  <2>4. FirstStatus(statuses) = statuses[Min(Bad)]
    <3>1. Min(Bad) \in 1..Len(statuses)
      BY <2>2
    <3>2. Min(Bad) # 0
      BY ONLY <3>1
    <3> HIDE DEF Bad
    <3> QED
      BY <2>3, <3>2 DEF FirstStatus
  <2> QED
    BY <2>2, <2>4
<1> QED
  BY <1>1, <1>2

\* Sizes add up to a size.
LEMMA TotalOfSizes ==
    ASSUME NEW terms \in Seq(Nat)
    PROVE  TotalOf(0, terms) \in Nat
<1> PICK N \in Nat : N = Len(terms)
  OBVIOUS
<1> PICK T : T = Totals(0, terms)
  OBVIOUS
<1>1. terms \in Seq(Int) /\ \A n \in 1..N : terms[n] \in Nat
  OBVIOUS
<1>2. T[0] = 0 /\ \A n \in 1..N : T[n] = T[n - 1] + terms[n]
  BY <1>1, TotalsDefined
<1> DEFINE good == {n \in 0..N : T[n] \in Nat}
<1>3. 0 \in good
  BY <1>2
<1>4. ASSUME NEW n \in 1..N, n - 1 \in good PROVE n \in good
  BY <1>1, <1>2, <1>4
<1>5. \A n \in 0..N : n \in good
  <2> HIDE DEF good
  <2> QED
    BY <1>3, <1>4, UptoTheLast
<1>6. T[N] \in Nat
  BY <1>5
<1> QED
  BY <1>6 DEF TotalOf

\* The strings of a block have a size.
LEMMA FourStrings ==
    ASSUME NEW a, NEW b, NEW c, NEW d, Len(a) \in Nat, Len(b) \in Nat, Len(c) \in Nat, Len(d) \in Nat,
           NEW strings, strings = <<a, b, c, d>>
    PROVE  TableBytes(strings) \in Nat
<1> PICK terms : terms = [n \in DOMAIN strings |-> Len(strings[n])]
  OBVIOUS
<1>1. DOMAIN strings = 1..4 /\ Len(strings) = 4
  OBVIOUS
<1>2. \A n \in 1..4 : Len(strings[n]) \in Nat
  OBVIOUS
<1>3. terms = [n \in 1..4 |-> terms[n]] /\ \A n \in 1..4 : terms[n] \in Nat
  BY <1>1, <1>2
<1>4. terms \in Seq(Nat)
  BY ONLY <1>3, IsShape
<1>5. TotalBytes(strings) \in Nat
  BY <1>4, TotalOfSizes DEF TotalBytes
<1> QED
  BY <1>1, <1>5 DEF TableBytes

\* A column's name with its suffix is a name, if it is not too long.
LEMMA SuffixedName ==
    ASSUME NEW S, NEW column \in Seq(S), ValidIdentifier(column), NEW operation,
           NEW name, name = column \o Suffix(operation), Len(name) =< MaxName, Len(name) =< MaxString
    PROVE  ValidIdentifier(name) /\ Len(name) \in Nat
<1> PICK suffix : suffix = Suffix(operation)
  OBVIOUS
<1> PICK Marks : Marks = Punctuation
  OBVIOUS
<1> PICK Letters : Letters = {"_", "s", "u", "m", "a", "c", "o", "n", "t", "e"}
  OBVIOUS
<1>1. suffix \in Seq(Letters) /\ \A i \in 1..Len(suffix) : suffix[i] \notin Punctuation
  <2>1. \A letter \in Letters : letter \notin Punctuation
    BY DEF Punctuation, Comma, Quote, Newline, Return, Blank, Nul, BrokenByte
  <2>2. ASSUME NEW C, NEW a \in C, NEW b \in C, NEW c \in C, NEW d \in C, NEW e \in C,
               NEW f \in C, NEW g \in C
        PROVE  <<a, b, c, d, e>> \in Seq(C) /\ <<a, b, c, d, e, f, g>> \in Seq(C)
    BY ONLY a \in C, b \in C, c \in C, d \in C, e \in C, f \in C, g \in C
  <2>3. {"_", "s", "u", "m", "a", "c", "o", "n", "t", "e"} \subseteq Letters
    OBVIOUS
  <2>4. suffix \in Seq(Letters)
    <3>1. <<"_", "s", "u", "m", "a">> \in Seq(Letters) /\ <<"_", "c", "o", "n", "t", "e", "o">> \in Seq(Letters)
      BY ONLY <2>2, <2>3
    <3> QED
      BY ONLY <3>1, suffix = Suffix(operation) DEF Suffix
  <2>5. \A i \in 1..Len(suffix) : suffix[i] \in Letters
    BY ONLY <2>4
  <2> QED
    BY ONLY <2>1, <2>4, <2>5
<1>2. {BrokenByte, Nul} \subseteq Marks
  BY DEF Punctuation
<1>3. /\ Len(column) \in 1..MaxString /\ column[1] \notin Digits
      /\ \A i \in 1..Len(column) : column[i] \notin Marks
  <2>1. DOMAIN column = 1..Len(column)
    BY ONLY column \in Seq(S)
  <2>2. ToSet(column) \cap Marks = {} /\ Len(column) \in 1..MaxString /\ column[1] \notin Digits
    BY DEF ValidIdentifier, ValidString
  <2>3. \A i \in DOMAIN column : column[i] \in ToSet(column)
    BY ONLY TRUE DEF ToSet
  <2> QED
    BY ONLY <2>1, <2>2, <2>3
<1>4. /\ Len(name) = Len(column) + Len(suffix) /\ Len(column) \in Nat /\ Len(suffix) \in Nat
      /\ \A i \in 1..Len(column) : name[i] = column[i]
      /\ \A i \in 1..Len(suffix) : name[Len(column) + i] = suffix[i]
      /\ DOMAIN name = 1..Len(name)
  <2>1. ASSUME NEW A, NEW B, NEW x \in Seq(A), NEW y \in Seq(B), NEW z, z = x \o y
        PROVE  /\ Len(z) = Len(x) + Len(y) /\ Len(x) \in Nat /\ Len(y) \in Nat
               /\ \A i \in 1..Len(x) : z[i] = x[i]
               /\ \A i \in 1..Len(y) : z[Len(x) + i] = y[i]
               /\ DOMAIN z = 1..Len(z)
    <3>1. Len(x) \in Nat /\ Len(y) \in Nat /\ Len(z) = Len(x) + Len(y) /\ DOMAIN z = 1..Len(z)
      BY ONLY x \in Seq(A), y \in Seq(B), <2>1
    <3>2. \A i \in 1..Len(x) : z[i] = x[i]
      BY ONLY x \in Seq(A), y \in Seq(B), <2>1
    <3>3. \A i \in 1..Len(y) : z[Len(x) + i] = y[i]
      BY ONLY x \in Seq(A), y \in Seq(B), <2>1
    <3> QED
      BY ONLY <3>1, <3>2, <3>3
  <2>2. name = column \o suffix
    OBVIOUS
  <2> QED
    BY ONLY <1>1, <2>1, <2>2, column \in Seq(S)
<1>5. Len(name) \in 1..MaxString /\ Len(name) \in Nat /\ 1 \in 1..Len(column)
  BY ONLY <1>3, <1>4, Len(name) =< MaxString
<1>6. ASSUME NEW i \in 1..Len(name) PROVE name[i] \notin Marks
  <2>1. CASE i \in 1..Len(column)
    BY <2>1, <1>3, <1>4
  <2>2. CASE i \notin 1..Len(column)
    <3>1. i - Len(column) \in 1..Len(suffix) /\ Len(column) + (i - Len(column)) = i
      BY ONLY <2>2, <1>4, i \in 1..Len(name)
    <3> QED
      BY <3>1, <1>1, <1>4
  <2> QED
    BY <2>1, <2>2
<1>7. ToSet(name) \cap Marks = {}
  BY <1>4, <1>6 DEF ToSet
<1>8. name[1] \notin Digits
  BY <1>3, <1>4, <1>5
<1> QED
  BY <1>2, <1>5, <1>7, <1>8 DEF ValidIdentifier, ValidString

\* What the verifier asks of a block, all of it.
Accepted(block) ==
  /\ block.length >= HeaderSize /\ block.length =< MaxModule
  /\ block.magic = "MLBC" /\ block.version = <<1, 3>> /\ block.header = <<0, 1, 0>>
  /\ block.length >= HeaderSize + FixedSize
  /\ block.section = "DPLN" /\ block.revision = 1 /\ block.flags = 0
  /\ LengthsMatch(block)
  /\ block.counts = <<1, 1, 1, 1, 4>> /\ block.reserved = 0
  /\ ValidCaps(block.caps)
  /\ block.column = <<2, 1, 0, 0>> /\ block.operation \in {"sum", "count"}
  /\ block.inputType = 1 /\ block.operationFlags \in 0..1
  /\ block.references = <<2, 3>> /\ block.operationReserved = 0
  /\ SpanMatches(block.operationFlags = 1, block.span)
  /\ StringsRead(block) /\ TableBytes(block.strings) = block.tableBytes
  /\ ValidIdentifier(block.strings[3]) /\ ValidIdentifier(block.strings[4])
  /\ block.strings[4] = block.strings[3] \o Suffix(block.operation)

\* It accepts a block of which all that is true.
LEMMA AcceptedVerifies ==
    ASSUME NEW block, Accepted(block)
    PROVE  VerifyData(block) = "ok"
<1> PICK statuses : statuses = <<"ok", "ok", "ok", "ok", "ok", "ok", "ok", "ok", "ok", "ok", "ok",
                                 "ok", "ok", "ok", "ok", "ok", "ok", "ok", "ok", "ok", "ok", "ok">>
  OBVIOUS
<1>1. VerifyData(block) = FirstStatus(statuses)
  BY DEF VerifyData, Accepted, Must
<1>2. Len(statuses) = 22 /\ statuses \in Seq({"ok"})
  OBVIOUS
<1>3. ASSUME NEW A, NEW s \in Seq(A) PROVE \A i \in 1..Len(s) : s[i] \in A
  BY ONLY s \in Seq(A)
<1>4. \A i \in 1..Len(statuses) : statuses[i] \in {"ok"}
  BY ONLY <1>2, <1>3
<1>5. \A i \in 1..Len(statuses) : statuses[i] = "ok"
  BY ONLY <1>4
<1> QED
  BY ONLY <1>1, <1>5, AllAreOk

\* The block of a valid plan is one of them.
LEMMA BlocksAreAccepted ==
    ASSUME NEW plan, PlanValid(plan), plan.present \in BOOLEAN, NEW S, plan.column \in Seq(S)
    PROVE  Accepted(Block(plan)) /\ EncodedSize(plan) \in Int
<1> PICK name : name = ResultName(plan)
  OBVIOUS
<1> PICK strings : strings = PlanStrings(plan)
  OBVIOUS
<1>1. /\ plan.operation \in {"sum", "count"} /\ ValidString(plan.source) /\ ValidString(plan.export)
      /\ ValidIdentifier(plan.column) /\ ValidCaps(plan.caps) /\ SpanMatches(plan.present, plan.span)
      /\ Len(name) =< MaxName /\ Len(name) =< MaxString /\ TotalBytes(strings) =< MaxTotalStrings
      /\ EncodedSize(plan) =< MaxModule
  BY DEF PlanValid
<1>2. ValidIdentifier(name) /\ Len(name) \in Nat
  BY <1>1, SuffixedName DEF ResultName
<1>3. Len(plan.source) \in Nat /\ Len(plan.export) \in Nat /\ Len(plan.column) \in Nat
  <2>1. ASSUME NEW n, n \in 1..MaxString PROVE n \in Nat
    BY <2>1
  <2> QED
    BY ONLY <1>1, <2>1 DEF ValidString, ValidIdentifier
<1>4. strings = <<plan.source, plan.export, plan.column, name>>
  BY DEF PlanStrings
<1>5. TableBytes(strings) \in Nat
  BY ONLY <1>2, <1>3, <1>4, FourStrings
<1> PICK bytes \in Nat : bytes = TableBytes(strings)
  BY <1>5
<1> PICK size : size = EncodedSize(plan)
  OBVIOUS
<1>6. size = 16 + 88 + bytes
  BY DEF EncodedSize, HeaderSize, FixedSize
<1> PICK block : block = Block(plan)
  OBVIOUS
<1>7. /\ block.length = size /\ block.magic = "MLBC" /\ block.version = <<1, 3>> /\ block.header = <<0, 1, 0>>
      /\ block.section = "DPLN" /\ block.revision = 1 /\ block.flags = 0
      /\ block.sectionBytes = size - HeaderSize /\ block.counts = <<1, 1, 1, 1, 4>>
      /\ block.caps = plan.caps /\ block.tableBytes = bytes /\ block.reserved = 0
      /\ block.column = <<2, 1, 0, 0>> /\ block.operation = plan.operation /\ block.inputType = 1
      /\ block.operationFlags = (IF plan.present THEN 1 ELSE 0) /\ block.references = <<2, 3>>
      /\ block.span = plan.span /\ block.operationReserved = 0 /\ block.strings = strings
  BY DEF Block
<1>8. size >= 16 /\ size >= 16 + 88 /\ size \in Int
  BY ONLY <1>6, bytes \in Nat
<1>9. LengthsMatch(block)
  BY ONLY <1>6, <1>7, bytes \in Nat DEF LengthsMatch, HeaderSize, FixedSize
<1>10. block.operationFlags \in 0..1 /\ (block.operationFlags = 1 <=> plan.present)
  <2>1. CASE plan.present
    BY ONLY <1>7, <2>1
  <2>2. CASE ~plan.present
    BY ONLY <1>7, <2>2
  <2> QED
    BY <2>1, <2>2
<1>11. SpanMatches(block.operationFlags = 1, block.span)
  BY ONLY <1>1, <1>7, <1>10 DEF SpanMatches
<1>12. strings[3] = plan.column /\ strings[4] = name /\ DOMAIN strings = 1..4
         /\ strings[1] = plan.source /\ strings[2] = plan.export
  BY ONLY <1>4
<1>13. \A n \in DOMAIN strings : ValidString(strings[n])
  <2>1. ValidString(plan.column) /\ ValidString(name)
    BY <1>1, <1>2 DEF ValidIdentifier
  <2>2. \A n \in 1..4 : n = 1 \/ n = 2 \/ n = 3 \/ n = 4
    OBVIOUS
  <2> QED
    BY ONLY <1>1, <1>12, <2>1, <2>2
<1>14. StringsRead(block)
  <2>1. TableBytes(strings) =< bytes
    BY ONLY bytes \in Nat, bytes = TableBytes(strings)
  <2> QED
    BY ONLY <1>1, <1>7, <1>13, <2>1 DEF StringsRead
<1>15. block.strings[4] = block.strings[3] \o Suffix(block.operation)
  BY <1>7, <1>12 DEF ResultName
<1>16. Accepted(block)
  BY ONLY <1>1, <1>2, <1>7, <1>8, <1>9, <1>10, <1>11, <1>12, <1>14, <1>15,
          bytes = TableBytes(strings), size = EncodedSize(plan)
     DEF Accepted, HeaderSize, FixedSize
<1> QED
  BY <1>8, <1>16

\* A program is refused, but not as a mistake of the compiler.
LEMMA RefusedWithReason ==
    ASSUME NEW program
    PROVE  /\ ProgramStatus(program) # "internal"
           /\ ProgramStatus(program) = "ok" => Len(program.declared) = 1
<1> DEFINE Reasons == {"ok", "unsupported", "type"}
<1>1. SourceStatus(program) \in Reasons /\ (SourceStatus(program) = "ok" => Len(program.declared) = 1)
  BY DEF SourceStatus, Must
<1>2. DeclarationStatus(program) \in Reasons
  <2> PICK a : a = Must(program.declared[1].declaredType = "numeric"
                          /\ program.declared[1].type \in {"unknown", "numeric"}, "type")
    OBVIOUS
  <2> PICK b : b = Must(Bounded(program.source.path) /\ Bounded(program.export), "unsupported")
    OBVIOUS
  <2> PICK c : c = Must(Bounded(program.declared[1].name), "type")
    OBVIOUS
  <2> PICK d : d = Must(Len(program.operations) = 1, "unsupported")
    OBVIOUS
  <2>1. a \in Reasons /\ b \in Reasons /\ c \in Reasons /\ d \in Reasons
    BY DEF Must
  <2> PICK statuses : statuses = <<a, b, c, d>>
    OBVIOUS
  <2>2. DeclarationStatus(program) = FirstStatus(statuses)
    BY DEF DeclarationStatus
  <2>3. statuses \in Seq(Reasons) /\ "ok" \in Reasons
    <3> HIDE DEF Reasons
    <3>1. statuses \in Seq(Reasons)
      BY ONLY <2>1, statuses = <<a, b, c, d>>
    <3> QED
      BY <3>1 DEF Reasons
  <2> HIDE DEF Reasons
  <2>4. Len(statuses) \in Nat /\ \A i \in 1..Len(statuses) : statuses[i] \in Reasons
    BY ONLY <2>3
  <2> QED
    BY ONLY <2>2, <2>3, <2>4, FirstStatusIsOne
<1>3. ASSUME NEW operation PROVE OperationStatus(operation) \in Reasons
  BY DEF OperationStatus, Must
<1>4. ASSUME NEW aggregate, NEW input PROVE AggregateRefusal(program, aggregate, input) \in Reasons
  <2> PICK a : a = Must(aggregate.operation \in {"sum", "count"}, "unsupported")
    OBVIOUS
  <2> PICK b : b = Must(input.name = program.declared[1].name, "type")
    OBVIOUS
  <2> PICK c : c = Must({input.type, input.declaredType} \subseteq {"unknown", "numeric"}, "type")
    OBVIOUS
  <2> PICK d : d = Must(/\ Len(aggregate.output) =< MaxString
                        /\ aggregate.output = program.declared[1].name \o Suffix(aggregate.operation), "type")
    OBVIOUS
  <2> PICK e : e = Must(aggregate.percentile = 0 /\ program.policy = {} /\ SpanFits(SpanOf(aggregate, input)),
                        "unsupported")
    OBVIOUS
  <2>1. a \in Reasons /\ b \in Reasons /\ c \in Reasons /\ d \in Reasons /\ e \in Reasons
    BY DEF Must
  <2> PICK statuses : statuses = <<a, b, c, d, e>>
    OBVIOUS
  <2>2. AggregateRefusal(program, aggregate, input) = FirstStatus(statuses)
    BY DEF AggregateRefusal
  <2>3. statuses \in Seq(Reasons) /\ "ok" \in Reasons
    <3> HIDE DEF Reasons
    <3>1. statuses \in Seq(Reasons)
      BY ONLY <2>1, statuses = <<a, b, c, d, e>>
    <3> QED
      BY <3>1 DEF Reasons
  <2> HIDE DEF Reasons
  <2>4. Len(statuses) \in Nat /\ \A i \in 1..Len(statuses) : statuses[i] \in Reasons
    BY ONLY <2>3
  <2> QED
    BY ONLY <2>2, <2>3, <2>4, FirstStatusIsOne
<1>5. ProgramStatus(program) \in Reasons
  BY <1>1, <1>2, <1>3, <1>4 DEF ProgramStatus
<1>6. ProgramStatus(program) = "ok" => SourceStatus(program) = "ok"
  BY DEF ProgramStatus
<1> QED
  BY <1>1, <1>5, <1>6

\* What is compiled can be run; and there is always a reason for what is not.
LEMMA CompiledVerifies ==
    ASSUME NEW program
    PROVE  /\ \A block \in CompileDataHIR(program).blocks : VerifyData(block) = "ok"
           /\ CompileMakesSense(program) => CompileDataHIR(program).status # "internal"
<1> PICK plan : plan = PlanOf(program)
  OBVIOUS
<1> PICK status : status = IF ProgramStatus(program) # "ok" THEN ProgramStatus(program) ELSE EncodedStatus(plan)
  OBVIOUS
<1>1. CompileDataHIR(program) = [status |-> status, blocks |-> IF status = "ok" THEN {Block(plan)} ELSE {}]
  BY DEF CompileDataHIR
<1>2. status = "ok" => VerifyData(Block(plan)) = "ok"
  BY DEF EncodedStatus, Must
<1>3. ASSUME CompileMakesSense(program), ProgramStatus(program) = "ok", PlanValid(plan)
      PROVE  EncodedStatus(plan) = "ok"
  <2>1. Len(program.declared) = 1
    BY <1>3, RefusedWithReason
  <2>2. plan.present \in BOOLEAN /\ plan.column = program.declared[1].name
    BY DEF PlanOf
  <2>3. PICK S : plan.column \in Seq(S)
    BY <1>3, <2>1, <2>2 DEF CompileMakesSense
  <2>4. Accepted(Block(plan)) /\ EncodedSize(plan) \in Int
    BY <1>3, <2>2, <2>3, BlocksAreAccepted
  <2>5. VerifyData(Block(plan)) = "ok"
    BY <2>4, AcceptedVerifies
  <2>6. Encode(plan, EncodedSize(plan)) = [status |-> "ok", written |-> EncodedSize(plan)]
    BY <1>3, <2>4 DEF Encode, Must
  <2> QED
    BY <1>3, <2>5, <2>6 DEF EncodedStatus, Must
<1>4. ~PlanValid(plan) => EncodedStatus(plan) = "unsupported"
  BY DEF EncodedStatus
<1>5. CompileMakesSense(program) => status # "internal"
  BY <1>3, <1>4, RefusedWithReason
<1> QED
  BY <1>1, <1>2, <1>5


\* What a call leaves that compiles nothing: the plans there are, and no status
\* of a compilation.
PlansAside ==
  menu' = menu /\ answer'.compiled = answer.compiled /\ answer'.call.op # "compile"

\* A reply to another call is one.
LEMMA ReplyLeavesPlans ==
    ASSUME SessionSound, NEW o, o.op # "compile", NEW status, Replied(o, status)
    PROVE  PlansAside
BY DEF Replied, PlansAside, SessionSound

\* Calls on arrays leave the plans.
LEMMA ArraysLeavePlans ==
    ASSUME SessionSound, ViewStep \/ NumberStep
    PROVE  PlansAside
<1>1. ASSUME NEW o, o.op \in LandingOps, Lands(o) PROVE PlansAside
  <2>1. PICK result : LandArray(o, result)
    BY <1>1 DEF Lands
  <2>2. Replied(o, result.status)
    BY <2>1 DEF LandArray
  <2>3. o.op # "compile"
    BY <1>1 DEF LandingOps, ArrayCallOps
  <2> QED
    BY <2>2, <2>3, ReplyLeavesPlans
<1>2. CASE ArrayFromBuffer
  <2>1. PICK o \in Asked("from_buffer") : \E status, adopted :
          /\ answer' = [answer EXCEPT !.call = o, !.status = status, !.left = answer.left - 1, !.adopted = adopted]
          /\ menu' = menu
    BY <1>2 DEF ArrayFromBuffer
  <2>2. o.op # "compile"
    BY DEF Asked
  <2> QED
    BY <2>1, <2>2 DEF PlansAside, SessionSound
<1>3. CASE ArrayWrite
  <2>1. PICK o \in Asked("write") : \E status : Replied(o, status)
    BY <1>3 DEF ArrayWrite, LandArray
  <2>2. o.op # "compile"
    BY DEF Asked
  <2> QED
    BY <2>1, <2>2, ReplyLeavesPlans
<1>4. CASE ArraySwap
  <2>1. PICK o \in Asked("swap_arrays") : \E status : Replied(o, status)
    BY <1>4 DEF ArraySwap, LandArray
  <2>2. o.op # "compile"
    BY DEF Asked
  <2> QED
    BY <2>1, <2>2, ReplyLeavesPlans
<1>5. CASE ArrayRetain
  <2>1. PICK o \in Asked("retain") : \E retained :
          /\ answer' = [answer EXCEPT !.call = o, !.status = "ok", !.left = answer.left - 1, !.retained = retained]
          /\ menu' = menu
    BY <1>5 DEF ArrayRetain
  <2>2. o.op # "compile"
    BY DEF Asked
  <2> QED
    BY <2>1, <2>2 DEF PlansAside, SessionSound
<1>6. CASE ArrayRelease
  BY <1>1, <1>6, ReleaseLands
<1>7. CASE \/ ArrayFromValues \/ ArrayZeros \/ ArrayShare \/ ArrayReshapeView \/ ArraySlice \/ ArraySliceWithin
           \/ ArrayTranspose \/ ArrayBroadcast \/ ArrayReshapeCopy \/ ArrayBooleanMask \/ ArrayNonZero
           \/ ArrayWhere
  BY <1>1, <1>7, ViewsLand
<1>8. CASE NumberStep
  BY <1>1, <1>8, NumbersLand DEF NumberStep
<1> QED
  BY <1>2, <1>3, <1>4, <1>5, <1>6, <1>7, <1>8 DEF ViewStep

\* Calls on tables and data sets leave them.
LEMMA TablesLeavePlans ==
    ASSUME SessionSound, TableStep \/ ProgramExecute \/ DatasetStep
    PROVE  PlansAside
<1>1. ASSUME NEW o, o.op \in TableCallsOn \cup DatasetCalls, NEW status, Replied(o, status) PROVE PlansAside
  <2>1. o.op # "compile"
    BY <1>1 DEF TableCallsOn, TableCalls, DatasetCalls
  <2> QED
    BY <1>1, <2>1, ReplyLeavesPlans
<1>2. CASE TableSwap
  <2>1. PICK o \in Asked("swap_tables") : Replied(o, "ok")
    BY <1>2 DEF TableSwap
  <2>2. o.op \in TableCallsOn
    BY DEF Asked, TableCallsOn
  <2> QED
    BY <1>1, <2>1, <2>2
<1>3. CASE (TableStep \/ ProgramExecute) /\ ~TableSwap
  <2>1. PICK o : OnTables(o)
    BY <1>3, TablesLand
  <2>2. PICK built : LandTable(o, built) \/ LandColumn(o, built)
    BY <2>1 DEF OnTables
  <2>3. Replied(o, built.status)
    BY <2>2 DEF LandTable, LandColumn
  <2> QED
    BY <1>1, <2>1, <2>3 DEF OnTables
<1>4. CASE DatasetStep
  <2>1. PICK o : OnDatasets(o)
    BY <1>4, DatasetsLand
  <2>2. PICK made : LandDataset(o, made)
    BY <2>1 DEF OnDatasets
  <2>3. Replied(o, made.status)
    BY <2>2 DEF LandDataset
  <2> QED
    BY <1>1, <2>1, <2>3 DEF OnDatasets
<1> QED
  BY <1>2, <1>3, <1>4

\* So do the calls on programs, and the reports that are begun.
LEMMA ProgramsLeavePlans ==
    ASSUME SessionSound, \/ ProgramParse \/ ProgramRelease \/ ProgramBind \/ ProgramInput
                         \/ RunData \/ RunCompiled
    PROVE  PlansAside
<1>1. ASSUME NEW op, op # "compile", NEW o \in Asked(op), NEW program, NEW status, LandProgram(o, program, status)
      PROVE  PlansAside
  <2>1. o.op # "compile"
    BY <1>1 DEF Asked
  <2>2. Replied(o, status)
    BY <1>1 DEF LandProgram
  <2> QED
    BY <2>1, <2>2, ReplyLeavesPlans
<1>2. ASSUME NEW op, op # "compile", NEW o \in Asked(op), NEW block, Begun(o, block)
      PROVE  PlansAside
  <2>1. o.op # "compile"
    BY <1>2 DEF Asked
  <2>2. answer' = [answer EXCEPT !.call = o, !.left = answer.left - 1] /\ menu' = menu
    BY <1>2 DEF Begun
  <2> QED
    BY <2>1, <2>2 DEF PlansAside, SessionSound
<1>3. CASE ProgramParse
  <2>1. \E o \in Asked("parse") : \E program, status : LandProgram(o, program, status)
    BY <1>3 DEF ProgramParse
  <2> QED
    BY <1>1, <2>1
<1>4. CASE ProgramRelease
  <2>1. \E o \in Asked("release_program") : \E program, status : LandProgram(o, program, status)
    BY <1>4 DEF ProgramRelease
  <2> QED
    BY <1>1, <2>1
<1>5. CASE ProgramBind
  <2>1. \E o \in Asked("bind") : \E program, status : LandProgram(o, program, status)
    BY <1>5 DEF ProgramBind, LandBinding
  <2> QED
    BY <1>1, <2>1
<1>6. CASE ProgramInput
  <2>1. \E o \in Asked("compiler_input") : \E program, status : LandProgram(o, program, status)
    BY <1>6 DEF ProgramInput
  <2> QED
    BY <1>1, <2>1
<1>7. CASE RunData
  <2>1. \E o \in Asked("run_data") : \E block : Begun(o, block)
    BY <1>7 DEF RunData
  <2> QED
    BY <1>2, <2>1
<1>8. CASE RunCompiled
  <2>1. \E o \in Asked("run_compiled") : \E block : Begun(o, block)
    BY <1>8 DEF RunCompiled
  <2> QED
    BY <1>2, <2>1
<1> QED
  BY <1>3, <1>4, <1>5, <1>6, <1>7, <1>8

\* The invariant of the plans: what was compiled verifies, and what may still be
\* compiled is a program.
PlansSound ==
  /\ SessionSound
  /\ CompilerSound
  /\ \A k \in DOMAIN menu : menu[k].op = "compile" => CompileMakesSense(menu[k].program)

\* Blocks that verify are added to blocks that verify.
LEMMA CompiledPlans ==
    ASSUME PlansSound, SessionSound', NEW o, NEW made, Compiled(o, made),
           \A block \in made.blocks : VerifyData(block) = "ok",
           o.op = "compile" => made.status # "internal"
    PROVE  PlansSound'
<1>1. /\ menu' = menu /\ answer'.compiled = answer.compiled \cup made.blocks
      /\ answer'.call = o /\ answer'.status = made.status
  BY DEF Compiled, PlansSound, SessionSound
<1>2. \A block \in answer'.compiled : VerifyData(block) = "ok"
  BY <1>1 DEF PlansSound, CompilerSound
<1> QED
  BY <1>1, <1>2 DEF PlansSound, CompilerSound

\* Every step keeps it.
LEMMA PlansStep ==
    ASSUME PlansSound, [Next]_vars
    PROVE  PlansSound'
<1>1. SessionSound /\ SessionSound'
  BY StepBehaves DEF PlansSound
<1>2. ASSUME PlansAside PROVE PlansSound'
  BY <1>1, <1>2 DEF PlansAside, PlansSound, CompilerSound
<1>3. CASE CompileData
  <2>1. PICK o \in Asked("compile") : Compiled(o, CompileDataHIR(o.program))
    BY <1>3 DEF CompileData
  <2>2. CompileMakesSense(o.program)
    BY DEF Asked, PlansSound
  <2> QED
    BY <1>1, <2>1, <2>2, CompiledVerifies, CompiledPlans
<1>4. CASE CompileProgram
  <2>1. PICK o \in Asked("compile_program") : Compiled(o, CompiledSource(o))
    BY <1>4 DEF CompileProgram
  <2>2. o.op # "compile"
    BY DEF Asked
  <2>3. \A block \in CompiledSource(o).blocks : VerifyData(block) = "ok"
    BY CompiledVerifies DEF CompiledSource
  <2> QED
    BY <1>1, <2>1, <2>2, <2>3, CompiledPlans
<1>5. CASE RunStep \/ UNCHANGED vars
  <2>1. answer' = answer /\ menu' = menu
    BY <1>5 DEF RunStep, vars
  <2> QED
    BY <1>1, <2>1 DEF PlansSound, CompilerSound
<1>6. CASE ViewStep \/ NumberStep
  BY <1>1, <1>2, <1>6, ArraysLeavePlans
<1>7. CASE TableStep \/ DatasetStep
  BY <1>1, <1>2, <1>7, TablesLeavePlans
<1>8. CASE ProgramStep
  BY <1>1, <1>2, <1>8, TablesLeavePlans, ProgramsLeavePlans DEF ProgramStep
<1>9. CASE RunData \/ RunCompiled
  BY <1>1, <1>2, <1>9, ProgramsLeavePlans
<1> QED
  BY <1>3, <1>4, <1>5, <1>6, <1>7, <1>8, <1>9 DEF Next, PlanStep

\* A session starts with no plan.
LEMMA InitPlans == Init => PlansSound
<1> SUFFICES ASSUME Init PROVE PlansSound
  OBVIOUS
<1>1. PICK n \in DOMAIN Sessions :
        /\ menu = Sessions[n].menu
        /\ answer = [call |-> NoCall, status |-> "ok", left |-> Sessions[n].calls,
                     adopted |-> Sessions[n].adopted, retained |-> <<>>, compiled |-> {}]
  BY DEF Init
<1>2. CompilerSound
  BY <1>1 DEF CompilerSound
<1>3. \A k \in DOMAIN menu : menu[k].op = "compile" => CompileMakesSense(menu[k].program)
  BY <1>1, SessionsMakeSense
<1> QED
  BY <1>2, <1>3, InitSound DEF PlansSound

\* In every session, whatever programs are compiled: what the lowerer of plans
\* lets through, the encoder encodes and the verifier accepts, so that no
\* program is given up as a mistake of the compiler and every block that was
\* compiled can be run.
THEOREM PlansCompileSoundly == Spec => []CompilerSound
<1>1. PlansSound /\ [Next]_vars => PlansSound'
  BY PlansStep
<1>2. PlansSound => CompilerSound
  BY DEF PlansSound
<1> QED
  BY InitPlans, <1>1, <1>2, PTL DEF Spec

=============================================================================
