------------------------- MODULE ExternalSortProofs -------------------------
(***************************************************************************)
(* Proofs about ExternalSort, for every capacity of a run, fan-in, quotas, *)
(* values and files of others: the scratch stays within its quotas, the    *)
(* clean-up is complete, and the output is every value in order.           *)
(***************************************************************************)
EXTENDS ExternalSort, FiniteSetTheorems, LeastElements

-----------------------------------------------------------------------------
(* Counting the records of files *)

\* Two finite sets that share nothing have their members together.
LEMMA DisjointUnion ==
    ASSUME NEW S, NEW T, IsFiniteSet(S), IsFiniteSet(T), S \cap T = {}
    PROVE  /\ IsFiniteSet(S \cup T)
           /\ Cardinality(S \cup T) = Cardinality(S) + Cardinality(T)
<1>1. Cardinality(S \cap T) = 0
  BY FS_EmptySet
<1>2. Cardinality(S) \in Nat /\ Cardinality(T) \in Nat
  BY FS_CardinalityType
<1>3. /\ IsFiniteSet(S \cup T)
      /\ Cardinality(S \cup T) = Cardinality(S) + Cardinality(T) - Cardinality(S \cap T)
  BY FS_Union
<1> QED
  BY <1>1, <1>2, <1>3

\* The places of s that hold a value of V, and the records of some files that do.
In(s, V) == {i \in 1..Len(s) : s[i] \in V}
Holding(f, names, V) == UNION {{<<n, i>> : i \in In(f[n], V)} : n \in names}

\* A place is found by its file and its number.
LEMMA HoldingMember ==
    ASSUME NEW f, NEW names, NEW V, NEW x
    PROVE  x \in Holding(f, names, V) <=>
            \E n \in names : \E i \in In(f[n], V) : x = <<n, i>>
  BY DEF Holding

\* The places of a sequence are finitely many.
LEMMA InFinite ==
    ASSUME NEW X, NEW s \in Seq(X), NEW V
    PROVE  IsFiniteSet(In(s, V)) /\ Cardinality(In(s, V)) \in Nat
<1>1. IsFiniteSet(1..Len(s))
  BY FS_Interval
<1>2. In(s, V) \in SUBSET (1..Len(s))
  BY DEF In
<1> QED
  BY <1>1, <1>2, FS_Subset, FS_CardinalityType

\* A file has as many records as its sequence has places.
LEMMA OneFile ==
    ASSUME NEW n, NEW X, NEW s \in Seq(X), NEW V
    PROVE  LET T == {<<n, i>> : i \in In(s, V)}
           IN  IsFiniteSet(T) /\ Cardinality(T) = Cardinality(In(s, V))
<1> DEFINE T == {<<n, i>> : i \in In(s, V)}
           f == [i \in In(s, V) |-> <<n, i>>]
<1>1. f \in Bijection(In(s, V), T)
  BY DEF Bijection, Injection, Surjection, IsInjective
<1> HIDE DEF f
<1>2. ExistsBijection(In(s, V), T)
  BY <1>1 DEF ExistsBijection
<1> QED
  BY <1>2, InFinite, FS_Bijection

\* One more file adds its records.
LEMMA HoldingAdd ==
    ASSUME NEW f, NEW names, NEW V, NEW n, n \notin names, NEW X, f[n] \in Seq(X),
           IsFiniteSet(Holding(f, names, V))
    PROVE  /\ IsFiniteSet(Holding(f, names \cup {n}, V))
           /\ Cardinality(Holding(f, names \cup {n}, V)) =
                Cardinality(Holding(f, names, V)) + Cardinality(In(f[n], V))
<1> DEFINE T == {<<n, i>> : i \in In(f[n], V)}
<1>1. Holding(f, names \cup {n}, V) = Holding(f, names, V) \cup T
  BY DEF Holding
<1>2. Holding(f, names, V) \cap T = {}
  BY DEF Holding
<1>3. IsFiniteSet(T) /\ Cardinality(T) = Cardinality(In(f[n], V))
  BY OneFile
<1> HIDE DEF T
<1> QED
  BY <1>1, <1>2, <1>3, DisjointUnion

\* The records of finitely many files are finitely many.
LEMMA HoldingFinite ==
    ASSUME NEW f, NEW names, IsFiniteSet(names), NEW V, NEW X, \A n \in names : f[n] \in Seq(X)
    PROVE  /\ IsFiniteSet(Holding(f, names, V))
           /\ Cardinality(Holding(f, names, V)) \in Nat
<1> DEFINE g == [n \in names |-> {<<n, i>> : i \in In(f[n], V)}]
           S == {{<<n, i>> : i \in In(f[n], V)} : n \in names}
<1>1. g \in Surjection(names, S)
  BY DEF Surjection
<1>2. IsFiniteSet(S)
  <2> HIDE DEF g, S
  <2> QED
    BY <1>1, FS_Surjection
<1>3. ASSUME NEW T \in S PROVE IsFiniteSet(T)
  <2>1. PICK n \in names : T = {<<n, i>> : i \in In(f[n], V)}
    OBVIOUS
  <2> HIDE DEF S
  <2> QED
    BY <2>1, OneFile
<1>4. Holding(f, names, V) = UNION S
  BY DEF Holding
<1>5. IsFiniteSet(Holding(f, names, V))
  <2> HIDE DEF S
  <2> QED
    BY <1>2, <1>3, <1>4, FS_UNION
<1> QED
  BY <1>5, FS_CardinalityType

\* Files of two sets of names that share none.
LEMMA HoldingUnion ==
    ASSUME NEW f, NEW V, NEW A, NEW B, A \cap B = {},
           IsFiniteSet(Holding(f, A, V)), IsFiniteSet(Holding(f, B, V))
    PROVE  /\ IsFiniteSet(Holding(f, A \cup B, V))
           /\ Cardinality(Holding(f, A \cup B, V)) =
                Cardinality(Holding(f, A, V)) + Cardinality(Holding(f, B, V))
<1>1. Holding(f, A \cup B, V) = Holding(f, A, V) \cup Holding(f, B, V)
  BY DEF Holding
<1>2. Holding(f, A, V) \cap Holding(f, B, V) = {}
  BY DEF Holding
<1> QED
  BY <1>1, <1>2, DisjointUnion

\* Files that did not change hold what they held.
LEMMA HoldingSame ==
    ASSUME NEW f, NEW g, NEW names, NEW V, \A n \in names : f[n] = g[n]
    PROVE  Holding(f, names, V) = Holding(g, names, V)
  BY DEF Holding

\* No file holds nothing.
LEMMA HoldingNone ==
    ASSUME NEW f, NEW V
    PROVE  IsFiniteSet(Holding(f, {}, V)) /\ Cardinality(Holding(f, {}, V)) = 0
<1>1. Holding(f, {}, V) = {}
  BY DEF Holding
<1> QED
  BY <1>1, FS_EmptySet

\* An appended value is counted where it belongs.
LEMMA InAppend ==
    ASSUME NEW X, NEW s \in Seq(X), NEW v \in X, NEW V
    PROVE  Cardinality(In(Append(s, v), V)) =
            Cardinality(In(s, V)) + (IF v \in V THEN 1 ELSE 0)
<1>1. In(Append(s, v), V) = IF v \in V THEN In(s, V) \cup {Len(s) + 1} ELSE In(s, V)
  <2>1. Len(Append(s, v)) = Len(s) + 1 /\ Len(s) \in Nat
    OBVIOUS
  <2>2. \A i \in 1..Len(s) : Append(s, v)[i] = s[i]
    OBVIOUS
  <2>3. Append(s, v)[Len(s) + 1] = v
    OBVIOUS
  <2> QED
    BY <2>1, <2>2, <2>3 DEF In
<1>2. Len(s) + 1 \notin In(s, V)
  BY DEF In
<1>3. IsFiniteSet(In(s, V)) /\ Cardinality(In(s, V)) \in Nat
  BY InFinite
<1>4. Cardinality(In(s, V) \cup {Len(s) + 1}) = Cardinality(In(s, V)) + 1
  BY <1>2, <1>3, FS_AddElement
<1> QED
  BY <1>1, <1>3, <1>4

\* The values of a sequence are all its values.
LEMMA InAll ==
    ASSUME NEW X, NEW s \in Seq(X)
    PROVE  Cardinality(In(s, X)) = Len(s)
<1>1. In(s, X) = 1..Len(s)
  BY DEF In
<1> QED
  BY <1>1, FS_Interval

\* An empty sequence holds nothing.
LEMMA InEmpty == ASSUME NEW V PROVE Cardinality(In(<< >>, V)) = 0
<1>1. In(<< >>, V) = {}
  BY DEF In
<1> QED
  BY <1>1, FS_EmptySet

-----------------------------------------------------------------------------
(* Sorting a chunk *)

\* What is assumed of the constants, one by one.
LEMMA Constants ==
    /\ Values \subseteq Nat
    /\ RecordBytes \in Nat /\ RecordBytes > 0
    /\ FanIn \in Nat /\ FanIn >= 2
    /\ PerFile \in Nat /\ Total \in Nat
    /\ PerFile >= RecordBytes /\ Total >= RecordBytes
  BY SortAssumption

Ascending(s) == \A i, j \in 1..Len(s) : i < j => s[i] <= s[j]

\* The values of a sequence are naturals, and so is their number.
LEMMA ValuesOf ==
    ASSUME NEW s \in Seq(Values)
    PROVE  /\ Len(s) \in Nat
           /\ \A i \in 1..Len(s) : s[i] \in Values /\ s[i] \in Nat
           /\ IsFiniteSet(1..Len(s)) /\ Cardinality(1..Len(s)) = Len(s)
<1>1. Len(s) \in Nat /\ \A i \in 1..Len(s) : s[i] \in Values
  OBVIOUS
<1>2. \A i \in 1..Len(s) : s[i] \in Nat
  BY <1>1, Constants
<1>3. IsFiniteSet(1..Len(s)) /\ Cardinality(1..Len(s)) = Len(s)
  BY <1>1, FS_Interval
<1> QED
  BY <1>1, <1>2, <1>3

\* A value stands behind those that come before it, at a place of its own.
LEMMA PlacesDiffer ==
    ASSUME NEW s \in Seq(Values)
    PROVE  /\ \A i \in 1..Len(s) : Cardinality(UpTo(s, i)) \in 1..Len(s)
           /\ \A i, j \in 1..Len(s) :
                i # j /\ (s[i] < s[j] \/ (s[i] = s[j] /\ i <= j)) =>
                    Cardinality(UpTo(s, i)) < Cardinality(UpTo(s, j))
<1>1. Len(s) \in Nat /\ \A i \in 1..Len(s) : s[i] \in Nat
  BY ValuesOf
<1>2. IsFiniteSet(1..Len(s)) /\ Cardinality(1..Len(s)) = Len(s)
  BY ValuesOf
<1>3. ASSUME NEW i \in 1..Len(s)
      PROVE  /\ IsFiniteSet(UpTo(s, i))
             /\ Cardinality(UpTo(s, i)) \in 1..Len(s)
  <2>1. UpTo(s, i) \in SUBSET (1..Len(s)) /\ i \in UpTo(s, i)
    BY <1>1 DEF UpTo
  <2>2. IsFiniteSet(UpTo(s, i)) /\ Cardinality(UpTo(s, i)) <= Len(s)
    BY <1>2, <2>1, FS_Subset
  <2>3. Cardinality(UpTo(s, i)) \in Nat
    BY <2>2, FS_CardinalityType
  <2>4. Cardinality(UpTo(s, i)) # 0
    BY <2>1, <2>2, FS_EmptySet
  <2> QED
    BY <1>1, <2>2, <2>3, <2>4
<1>4. ASSUME NEW i \in 1..Len(s), NEW j \in 1..Len(s), i # j,
             s[i] < s[j] \/ (s[i] = s[j] /\ i <= j)
      PROVE  Cardinality(UpTo(s, i)) < Cardinality(UpTo(s, j))
  <2>1. UpTo(s, i) \in SUBSET UpTo(s, j)
    BY <1>1, <1>4 DEF UpTo
  <2>2. j \in UpTo(s, j) /\ j \notin UpTo(s, i)
    BY <1>1, <1>4 DEF UpTo
  <2>3. /\ Cardinality(UpTo(s, i)) <= Cardinality(UpTo(s, j))
        /\ Cardinality(UpTo(s, j)) = Cardinality(UpTo(s, i)) => UpTo(s, j) = UpTo(s, i)
    BY <1>3, <2>1, FS_Subset
  <2> QED
    BY <1>3, <2>2, <2>3
<1> QED
  BY <1>3, <1>4

\* Sorting keeps every value as often as it was there and puts them in order.
LEMMA SortedChunk ==
    ASSUME NEW s \in Seq(Values)
    PROVE  /\ Sorted(s) \in Seq(Values)
           /\ Len(Sorted(s)) = Len(s)
           /\ Ascending(Sorted(s))
           /\ \A V : Cardinality(In(Sorted(s), V)) = Cardinality(In(s, V))
<1> DEFINE n == Len(s)
           R == [i \in 1..n |-> Cardinality(UpTo(s, i))]
           At(k) == CHOOSE i \in 1..Len(s) : Cardinality(UpTo(s, i)) = k
<1>1. n \in Nat /\ \A i \in 1..n : s[i] \in Values /\ s[i] \in Nat
  BY ValuesOf
<1>2. IsFiniteSet(1..n) /\ Cardinality(1..n) = n
  BY ValuesOf
<1>3. /\ R \in [1..n -> 1..n]
      /\ \A i, j \in 1..n :
            i # j /\ (s[i] < s[j] \/ (s[i] = s[j] /\ i <= j)) => R[i] < R[j]
  BY PlacesDiffer
<1>4. Sorted(s) = [k \in 1..n |-> s[At(k)]]
  BY DEF Sorted
<1>5a. \A k : At(k) = CHOOSE i \in 1..n : Cardinality(UpTo(s, i)) = k
  OBVIOUS
<1>5b. \A i \in 1..n : R[i] = Cardinality(UpTo(s, i))
  OBVIOUS
<1> HIDE DEF R, n, At
<1>5. R \in Injection(1..n, 1..n)
  <2>1. ASSUME NEW i \in 1..n, NEW j \in 1..n, R[i] = R[j], i # j PROVE FALSE
    <3>1. R[i] \in Nat /\ R[j] \in Nat /\ i \in Nat /\ j \in Nat
      BY <1>1, <1>3
    <3>2. \/ s[i] < s[j] \/ (s[i] = s[j] /\ i <= j)
          \/ s[j] < s[i] \/ (s[j] = s[i] /\ j <= i)
      BY <1>1, <3>1
    <3>3. R[i] < R[j] \/ R[j] < R[i]
      BY <1>3, <2>1, <3>2
    <3> QED
      BY <2>1, <3>1, <3>3
  <2> QED
    BY <1>3, <2>1 DEF Injection, IsInjective
<1>6. \A k \in 1..n : \E i \in 1..n : R[i] = k
  BY <1>2, <1>5, FS_Injection DEF Surjection
<1>7. \A k \in 1..n : At(k) \in 1..n /\ R[At(k)] = k
  BY <1>6, <1>5a, <1>5b
<1>8. Sorted(s) \in Seq(Values) /\ Len(Sorted(s)) = n
  BY <1>1, <1>4, <1>7
<1>9. Ascending(Sorted(s))
  <2> SUFFICES ASSUME NEW k \in 1..n, NEW l \in 1..n, k < l
               PROVE  s[At(k)] <= s[At(l)]
    BY <1>4, <1>8 DEF Ascending
  <2>1. s[At(k)] \in Nat /\ s[At(l)] \in Nat /\ At(k) # At(l)
    <3>1. At(k) \in 1..n /\ At(l) \in 1..n /\ R[At(k)] = k /\ R[At(l)] = l /\ k # l
      BY <1>1, <1>7
    <3> QED
      BY <1>1, <3>1
  <2>2. ~(s[At(l)] < s[At(k)])
    <3> SUFFICES ASSUME s[At(l)] < s[At(k)] PROVE FALSE
      OBVIOUS
    <3>1. R[At(l)] < R[At(k)]
      BY <1>3, <1>7, <2>1
    <3> QED
      BY <1>1, <1>7, <3>1
  <2> QED
    BY <2>1, <2>2
<1>10. ASSUME NEW V
       PROVE  Cardinality(In(Sorted(s), V)) = Cardinality(In(s, V))
  <2> DEFINE f == [k \in In(Sorted(s), V) |-> At(k)]
  <2>1. In(Sorted(s), V) = {k \in 1..n : s[At(k)] \in V}
    BY <1>4, <1>8 DEF In
  <2>2. In(s, V) = {i \in 1..n : s[i] \in V}
    BY DEF In, n
  <2>3. f \in [In(Sorted(s), V) -> In(s, V)]
    BY <1>7, <2>1, <2>2
  <2>4. \A k, l \in In(Sorted(s), V) : f[k] = f[l] => k = l
    BY <1>7, <2>1
  <2>5. ASSUME NEW i \in In(s, V) PROVE \E k \in In(Sorted(s), V) : f[k] = i
    <3>1. i \in 1..n /\ s[i] \in V /\ R[i] \in 1..n
      BY <1>3, <2>2
    <3>2. At(R[i]) = i
      BY <1>5, <1>7, <3>1 DEF Injection, IsInjective
    <3>3. R[i] \in In(Sorted(s), V)
      BY <2>1, <3>1, <3>2
    <3> QED
      BY <3>2, <3>3
  <2> HIDE DEF f
  <2>6. f \in Bijection(In(Sorted(s), V), In(s, V))
    BY <2>3, <2>4, <2>5 DEF Bijection, Injection, Surjection, IsInjective
  <2>7. ExistsBijection(In(Sorted(s), V), In(s, V))
    BY <2>6 DEF ExistsBijection
  <2>8. IsFiniteSet(In(Sorted(s), V))
    BY <1>8, InFinite
  <2> QED
    BY <2>7, <2>8, FS_Bijection
<1> QED
  BY <1>8, <1>9, <1>10 DEF n

-----------------------------------------------------------------------------
(* The inductive invariant *)

Busy == pc \in {"reading", "merging", "copying", "published"}

\* The runs of this pass and those it has written for the next one.
Working == RunsOf(pass, runCount) \cup RunsOf(pass + 1, group)

\* The values are spread over the runs no merge has read and the runs of the next pass.
Rest(g) == {RunName(pass, r) : r \in {k \in 0..(runCount - 1) : k >= g * FanIn}}
Live == Rest(group) \cup RunsOf(pass + 1, group)

InputNames == {RunName(pass, r) : r \in Inputs}
Merged == files[Partial(Target)]

\* The records the merge under way has still to copy.
Pending(V) ==
    {x \in Holding(files, InputNames, V) :
        \E node \in heap : x[1] = RunName(pass, node.run) /\ x[2] >= node.pos}

Typed ==
    /\ pc \in {"start", "reading", "merging", "copying", "published", "returned", "dead"}
    /\ taken \in Seq(Values) /\ chunk \in Seq(Values)
    /\ pass \in Nat /\ runCount \in Nat /\ group \in Nat
    /\ scratchUsed \in Nat /\ nextBytes \in Nat
    /\ \A n \in Own : files[n] \in Seq(Values)

Counters ==
    /\ pc = "start" => runCount = 0 /\ scratchUsed = 0 /\ taken = << >> /\ chunk = << >>
    /\ pc \in {"start", "reading"} => pass = 0 /\ group = 0 /\ nextBytes = 0
    /\ pc \in {"merging", "copying", "published"} =>
        /\ chunk = << >>
        /\ LastMerge => group = 0
        /\ ~LastMerge => group <= NextCount
    /\ pc = "copying" => runCount > 0 /\ (~LastMerge => group < NextCount)
    /\ pc = "published" => LastMerge

Placed ==
    /\ \A n \in DOMAIN others : Exists(n) /\ files[n] = others[n]
    /\ Busy => Output \notin DOMAIN others
    /\ pc = "start" => Own = {}
    /\ pc \in {"reading", "merging"} => Own = Working
    /\ pc = "copying" => Own = Working \cup {Partial(Target)} /\ ~Exists(Target)
    /\ pc = "published" => Own = Working \cup {Output}
    /\ pc = "returned" =>
        Own \subseteq CASE status = "ok"     -> {Output}
                        [] status = "memory" -> {n \in Own : files[n] = << >> /\ n.pass = 0}
                        [] OTHER             -> {}

RunsFine == Busy => \A n \in Working : files[n] # << >> /\ Ascending(files[n])

Account ==
    /\ RecordBytes * Cardinality(Holding(files, Own, Values)) <= Total
    /\ \A n \in Own : Bytes(files[n]) <= PerFile
    /\ Busy =>
        /\ scratchUsed = RecordBytes * Cardinality(Holding(files, Working, Values))
        /\ nextBytes = RecordBytes * Cardinality(Holding(files, RunsOf(pass + 1, group), Values))
        /\ scratchUsed <= Total
    /\ pc = "copying" => quota = QuotaLeft /\ Bytes(Merged) <= quota

Merging ==
    pc = "copying" =>
        /\ \A node \in heap :
            /\ node.run \in Inputs
            /\ node.pos \in 1..Len(Content(node.run))
            /\ node.value = Content(node.run)[node.pos]
        /\ \A a, b \in heap : a.run = b.run => a = b
        /\ Ascending(Merged)
        /\ \A node \in heap : \A i \in 1..Len(Merged) : Merged[i] <= node.value
        /\ \A V \in SUBSET Values :
            Cardinality(In(Merged, V)) + Cardinality(Pending(V)) =
                Cardinality(Holding(files, InputNames, V))

Counted ==
    /\ pc \in {"reading", "merging", "copying"} =>
        \A V \in SUBSET Values :
            Cardinality(Holding(files, Live, V)) + Cardinality(In(chunk, V)) =
                Cardinality(In(taken, V))
    /\ pc = "published" =>
        /\ Ascending(files[Output])
        /\ \A V \in SUBSET Values :
            Cardinality(In(files[Output], V)) = Cardinality(In(taken, V))

Inv ==
    /\ Typed
    /\ Counters
    /\ Placed
    /\ RunsFine
    /\ Account
    /\ Merging
    /\ Counted

-----------------------------------------------------------------------------
(* Names *)

\* Two names are the same only for the same run of the same pass, and none has the
\* end of a file being written.
LEMMA Names ==
    /\ \A p, r, q, t : RunName(p, r) = RunName(q, t) => p = q /\ r = t
    /\ \A p, r, q, t : Partial(RunName(p, r)) # RunName(q, t)
    /\ \A p, r : RunName(p, r).pass = p
  BY DEF RunName, Partial

\* The runs of a pass are finitely many, and the output is none of them.
LEMMA RunNames ==
    ASSUME NEW p \in Nat, NEW c \in Nat
    PROVE  /\ \A n : n \in RunsOf(p, c) <=> \E r \in 0..(c - 1) : n = RunName(p, r)
           /\ IsFiniteSet(RunsOf(p, c))
           /\ Output \notin RunsOf(p, c)
           /\ \A q, r : Partial(RunName(q, r)) \notin RunsOf(p, c)
           /\ \A q, d : q # p => RunsOf(p, c) \cap RunsOf(q, d) = {}
           /\ RunsOf(p, 0) = {}
           /\ RunsOf(p, c + 1) = RunsOf(p, c) \cup {RunName(p, c)}
           /\ RunName(p, c) \notin RunsOf(p, c)
<1>1. \A n : n \in RunsOf(p, c) <=> \E r \in 0..(c - 1) : n = RunName(p, r)
  BY DEF RunsOf
<1>2. IsFiniteSet(RunsOf(p, c))
  <2> DEFINE f == [r \in 0..(c - 1) |-> RunName(p, r)]
  <2>1. f \in Surjection(0..(c - 1), RunsOf(p, c))
    BY DEF RunsOf, Surjection
  <2>2. IsFiniteSet(0..(c - 1))
    BY FS_Interval
  <2> HIDE DEF f
  <2> QED
    BY <2>1, <2>2, FS_Surjection
<1>3. Output \notin RunsOf(p, c)
  BY <1>1, Names DEF Output
<1>4. \A q, r : Partial(RunName(q, r)) \notin RunsOf(p, c)
  BY <1>1, Names
<1>5. \A q, d : q # p => RunsOf(p, c) \cap RunsOf(q, d) = {}
  BY Names DEF RunsOf
<1>6. RunsOf(p, 0) = {}
  BY DEF RunsOf
<1>7. RunsOf(p, c + 1) = RunsOf(p, c) \cup {RunName(p, c)}
  <2>1. 0..((c + 1) - 1) = (0..(c - 1)) \cup {c}
    OBVIOUS
  <2> QED
    BY <2>1 DEF RunsOf
<1>8. RunName(p, c) \notin RunsOf(p, c)
  <2>1. c \notin 0..(c - 1)
    OBVIOUS
  <2> QED
    BY <1>1, <2>1, Names
<1> QED
  BY <1>1, <1>2, <1>3, <1>4, <1>5, <1>6, <1>7, <1>8

\* What the files of this call hold can be counted.
LEMMA OwnFinite ==
    ASSUME Inv, Busy
    PROVE  /\ IsFiniteSet(Working) /\ IsFiniteSet(Own)
           /\ Working \subseteq Own
           /\ \A V : /\ IsFiniteSet(Holding(files, Working, V))
                     /\ IsFiniteSet(Holding(files, Own, V))
                     /\ Cardinality(Holding(files, Working, V)) \in Nat
                     /\ Cardinality(Holding(files, Own, V)) \in Nat
<1>1. pass \in Nat /\ pass + 1 \in Nat /\ runCount \in Nat /\ group \in Nat
  BY DEF Inv, Typed
<1>2. IsFiniteSet(Working)
  BY <1>1, RunNames, FS_Union DEF Working
<1>3. /\ Working \subseteq Own
      /\ \E x : Own = Working \cup {x} \/ Own = Working
  BY DEF Inv, Placed, Busy
<1>4. IsFiniteSet(Own)
  BY <1>2, <1>3, FS_AddElement
<1>5. \A n \in Own : files[n] \in Seq(Values)
  BY DEF Inv, Typed
<1> QED
  BY <1>2, <1>3, <1>4, <1>5, HoldingFinite

\* So can the runs no merge has read yet, and the inputs of a merge.
LEMMA LiveFinite ==
    ASSUME Inv, Busy
    PROVE  /\ Live \subseteq Working
           /\ \A names \in SUBSET Own : \A V :
                /\ IsFiniteSet(names) /\ IsFiniteSet(Holding(files, names, V))
                /\ Cardinality(Holding(files, names, V)) \in Nat
           /\ \A V : /\ IsFiniteSet(Holding(files, Live, V))
                     /\ Cardinality(Holding(files, Live, V)) \in Nat
<1>1. Rest(group) \subseteq RunsOf(pass, runCount)
  BY DEF Rest, RunsOf
<1>2. Live \subseteq Working
  BY <1>1 DEF Live, Working
<1>3. IsFiniteSet(Own) /\ Working \subseteq Own /\ \A n \in Own : files[n] \in Seq(Values)
  BY OwnFinite DEF Inv, Typed
<1>4. ASSUME NEW names \in SUBSET Own, NEW V
      PROVE  /\ IsFiniteSet(names) /\ IsFiniteSet(Holding(files, names, V))
             /\ Cardinality(Holding(files, names, V)) \in Nat
  BY <1>3, FS_Subset, HoldingFinite
<1> QED
  BY <1>2, <1>3, <1>4

-----------------------------------------------------------------------------
(* Returning *)

\* A return that leaves the files of others and no more of its own than the status
\* allows.
LEMMA ReturnStep ==
    ASSUME NEW s, NEW rest, Return(s, rest), Inv,
           s \in {"ok", "error", "memory"},
           \A n \in DOMAIN others : n \in DOMAIN rest /\ rest[n] = files[n],
           \A n \in DOMAIN rest \ DOMAIN others :
                /\ rest[n] \in Seq(Values)
                /\ Bytes(rest[n]) <= PerFile
                /\ s = "ok" => n = Output
                /\ s = "memory" => rest[n] = << >> /\ n.pass = 0
                /\ s # "error",
           RecordBytes * Cardinality(Holding(rest, DOMAIN rest \ DOMAIN others, Values)) <= Total
    PROVE  Inv'
<1>1. /\ pc' = "returned" /\ status' = s /\ files' = rest /\ others' = others
      /\ taken' = taken /\ chunk' = << >>
      /\ pass' = 0 /\ runCount' = 0 /\ group' = 0
      /\ scratchUsed' = 0 /\ nextBytes' = 0
  BY DEF Return
<1>2. Own' = DOMAIN rest \ DOMAIN others
  BY <1>1 DEF Own
<1>3. Typed'
  BY <1>1, <1>2 DEF Typed, Inv
<1>4. Placed'
  <2>1. \A n \in DOMAIN others' : Exists(n)' /\ files'[n] = others'[n]
    BY <1>1 DEF Inv, Placed, Exists
  <2>2. CASE s = "ok"
    BY <1>1, <1>2, <2>1, <2>2 DEF Placed, Busy
  <2>3. CASE s = "memory"
    BY <1>1, <1>2, <2>1, <2>3 DEF Placed, Busy
  <2>4. CASE s = "error"
    BY <1>1, <1>2, <2>1, <2>4 DEF Placed, Busy
  <2> QED
    BY <2>2, <2>3, <2>4
<1>5. Account'
  BY <1>1, <1>2 DEF Account, Busy, Bytes
<1> QED
  BY <1>1, <1>3, <1>4, <1>5 DEF Inv, Counters, RunsFine, Merging, Counted, Busy

\* Files that are removed by name.
LEMMA Removed ==
    ASSUME NEW names
    PROVE  /\ DOMAIN Without(names) = DOMAIN files \ names
           /\ \A n \in DOMAIN files \ names : Without(names)[n] = files[n]
  BY DEF Without, Restrict

\* An error that removes every file of its own and no other.
LEMMA CleanReturn ==
    ASSUME NEW names, Return("error", Without(names)), Inv,
           Own \subseteq names, names \cap DOMAIN others = {}
    PROVE  Inv'
<1>1. DOMAIN Without(names) \ DOMAIN others = {}
  BY Removed DEF Own
<1>2. \A n \in DOMAIN others : n \in DOMAIN Without(names) /\ Without(names)[n] = files[n]
  BY Removed DEF Inv, Placed, Exists
<1>3. RecordBytes * Cardinality(Holding(Without(names), {}, Values)) <= Total
  BY HoldingNone, Constants
<1> QED
  BY <1>1, <1>2, <1>3, ReturnStep

-----------------------------------------------------------------------------
(* Reading and writing the runs of pass 0 *)

LEMMA InitInv == ASSUME Init PROVE Inv
<1>1. Own = {}
  BY DEF Init, Own
<1>2. Typed
  BY <1>1 DEF Init, Typed
<1>3. Placed
  BY <1>1 DEF Init, Placed, Exists, Busy
<1>4. Account
  <2>1. Cardinality(Holding(files, {}, Values)) = 0
    BY HoldingNone
  <2> QED
    BY <1>1, <2>1, Constants DEF Init, Account, Busy
<1> QED
  BY <1>2, <1>3, <1>4 DEF Init, Inv, Counters, RunsFine, Merging, Counted, Busy

\* Before the first chunk there is no run.
LEMMA NoRunsYet ==
    ASSUME pass = 0, runCount = 0, group = 0
    PROVE  Working = {} /\ Live = {} /\ RunsOf(pass + 1, group) = {}
<1>1. RunsOf(0, 0) = {} /\ RunsOf(1, 0) = {}
  BY RunNames
<1>2. Rest(0) = {}
  BY DEF Rest
<1> QED
  BY <1>1, <1>2 DEF Working, Live

LEMMA StartInv == ASSUME Inv, Start PROVE Inv'
<1>1. /\ pc = "start" /\ pc' = "reading"
      /\ UNCHANGED <<status, taken, chunk, files, others, pass, runCount, group,
                     scratchUsed, nextBytes, heap, quota>>
  BY DEF Start
<1>2. /\ pass = 0 /\ runCount = 0 /\ group = 0 /\ scratchUsed = 0 /\ nextBytes = 0
      /\ taken = << >> /\ chunk = << >> /\ Own = {}
  BY <1>1 DEF Inv, Counters, Placed
<1>3. Own' = {}
  BY <1>1, <1>2 DEF Own
<1>4. Working' = {} /\ Live' = {} /\ RunsOf(pass + 1, group)' = {}
  <2>1. Working = {} /\ Live = {} /\ RunsOf(pass + 1, group) = {}
    BY <1>2, NoRunsYet
  <2> QED
    BY <1>1, <2>1 DEF Working, Live, Rest
<1>5. Typed'
  BY <1>1, <1>3 DEF Inv, Typed
<1>6. Placed'
  <2>1. Output \notin DOMAIN others'
    BY <1>1 DEF Start, Inv, Placed, Exists
  <2> QED
    BY <1>1, <1>3, <1>4, <2>1 DEF Inv, Placed, Exists
<1>7. \A V : Cardinality(Holding(files', {}, V)) = 0 /\ Cardinality(In(<< >>, V)) = 0
  BY HoldingNone, InEmpty
<1>8. Account'
  <2>1. RecordBytes * Cardinality(Holding(files', {}, Values)) = 0
    BY <1>7, Constants
  <2>2. RecordBytes * Cardinality(Holding(files', Own', Values)) <= Total
    BY <1>3, <2>1, Constants
  <2>3. /\ scratchUsed' = RecordBytes * Cardinality(Holding(files', Working', Values))
        /\ nextBytes' = RecordBytes * Cardinality(Holding(files', RunsOf(pass + 1, group)', Values))
        /\ scratchUsed' <= Total
    <3>1. scratchUsed' = 0 /\ nextBytes' = 0 /\ 0 <= Total
      BY <1>1, <1>2, Constants
    <3> QED
      BY <1>4, <2>1, <3>1
  <2> QED
    BY <1>1, <1>3, <2>2, <2>3 DEF Account, Bytes
<1>9. Counted'
  BY <1>1, <1>2, <1>4, <1>7 DEF Counted
<1> QED
  BY <1>1, <1>2, <1>4, <1>5, <1>6, <1>8, <1>9 DEF Inv, Counters, RunsFine, Merging, Busy

LEMMA StartRefusedInv == ASSUME Inv, StartRefused PROVE Inv'
<1>1. Own = {} /\ Return("error", files)
  BY DEF StartRefused, Inv, Placed
<1>2. RecordBytes * Cardinality(Holding(files, {}, Values)) <= Total
  BY HoldingNone, Constants
<1>3. \A n \in DOMAIN others : n \in DOMAIN files /\ files[n] = files[n]
  BY DEF Inv, Placed, Exists
<1> QED
  BY <1>1, <1>2, <1>3, ReturnStep DEF Own

\* Only the local variables of the reading change.
LEMMA SameFiles ==
    ASSUME UNCHANGED <<files, others, pass, runCount, group>>
    PROVE  /\ Own' = Own /\ Working' = Working /\ Live' = Live
           /\ RunsOf(pass + 1, group)' = RunsOf(pass + 1, group)
           /\ \A g : Rest(g)' = Rest(g)
           /\ LastMerge' = LastMerge /\ NextCount' = NextCount
           /\ Inputs' = Inputs /\ Target' = Target /\ InputNames' = InputNames
           /\ Partial(Target)' = Partial(Target) /\ Merged' = Merged
           /\ \A r : Content(r)' = Content(r)
  BY DEF Own, Working, Live, Rest, RunsOf, LastMerge, NextCount, Inputs, Target,
         InputNames, Merged, Content, Partial, Output, RunName

\* The account of files that do not change.
LEMMA SameAccount ==
    ASSUME Account, UNCHANGED <<files, others, pass, runCount, group, scratchUsed, nextBytes>>,
           Busy' => Busy, pc' # "copying"
    PROVE  Account'
<1>1. /\ Own' = Own /\ Working' = Working
      /\ RunsOf(pass + 1, group)' = RunsOf(pass + 1, group)
  BY SameFiles
<1>2. RecordBytes * Cardinality(Holding(files', Own', Values)) <= Total
  BY <1>1 DEF Account
<1>3. \A n \in Own' : Bytes(files'[n]) <= PerFile
  BY <1>1 DEF Account, Bytes
<1>4. Busy' =>
        /\ scratchUsed' = RecordBytes * Cardinality(Holding(files', Working', Values))
        /\ nextBytes' = RecordBytes * Cardinality(Holding(files', RunsOf(pass + 1, group)', Values))
        /\ scratchUsed' <= Total
  BY <1>1 DEF Account
<1> QED
  BY <1>2, <1>3, <1>4 DEF Account, Bytes

LEMMA ReadInv == ASSUME Inv, NEW v \in Values, Read(v) PROVE Inv'
<1>1. /\ pc = "reading" /\ pc' = pc
      /\ chunk' = Append(chunk, v) /\ taken' = Append(taken, v)
      /\ UNCHANGED <<status, files, others, pass, runCount, group, scratchUsed, nextBytes,
                     heap, quota>>
  BY DEF Read
<1>2. /\ Own' = Own /\ Working' = Working /\ Live' = Live
      /\ RunsOf(pass + 1, group)' = RunsOf(pass + 1, group)
  BY <1>1, SameFiles
<1>3. chunk \in Seq(Values) /\ taken \in Seq(Values)
  BY DEF Inv, Typed
<1>4. Typed'
  BY <1>1, <1>2, <1>3 DEF Inv, Typed
<1>5. Placed'
  BY <1>1, <1>2 DEF Inv, Placed, Exists, Busy
<1>6. Account'
  BY <1>1, SameAccount DEF Inv, Busy
<1>7. Counted'
  <2> SUFFICES ASSUME NEW V \in SUBSET Values
               PROVE  Cardinality(Holding(files, Live, V)) + Cardinality(In(chunk', V)) =
                        Cardinality(In(taken', V))
    BY <1>1, <1>2 DEF Counted
  <2>1. Cardinality(Holding(files, Live, V)) + Cardinality(In(chunk, V)) =
            Cardinality(In(taken, V))
    BY <1>1 DEF Inv, Counted
  <2>2. /\ Cardinality(In(chunk', V)) = Cardinality(In(chunk, V)) + (IF v \in V THEN 1 ELSE 0)
        /\ Cardinality(In(taken', V)) = Cardinality(In(taken, V)) + (IF v \in V THEN 1 ELSE 0)
    BY <1>1, <1>3, InAppend
  <2>3. Cardinality(In(chunk, V)) \in Nat /\ Cardinality(In(taken, V)) \in Nat
    BY <1>3, InFinite
  <2>4. Cardinality(Holding(files, Live, V)) \in Nat
    BY <1>1, LiveFinite DEF Busy
  <2> QED
    BY <2>1, <2>2, <2>3, <2>4
<1>8. RunsFine'
  BY <1>1, <1>2 DEF Inv, RunsFine, Busy
<1> QED
  BY <1>1, <1>4, <1>5, <1>6, <1>7, <1>8 DEF Inv, Counters, Merging

\* The number of runs of the next pass is one.
LEMMA NextCountType == ASSUME runCount' \in Nat PROVE NextCount' \in Nat
<1>1. ASSUME NEW n \in Nat PROVE n \div FanIn \in Nat
  BY Constants
<1>2. runCount' \div FanIn \in Nat
  BY <1>1
<1> QED
  BY <1>2 DEF NextCount

\* The bytes of a file.
LEMMA ByteCount ==
    ASSUME NEW X, NEW s \in Seq(X)
    PROVE  Bytes(s) \in Nat /\ Bytes(s) = RecordBytes * Len(s)
<1>1. Len(s) \in Nat
  OBVIOUS
<1> QED
  BY <1>1, Constants DEF Bytes

\* A pass writes as many runs as it takes to merge all of this one, FanIn at a time.
LEMMA PassSize ==
    ASSUME runCount \in Nat
    PROVE  /\ NextCount \in Nat
           /\ runCount <= NextCount * FanIn
           /\ \A g \in Nat : g < NextCount => g * FanIn < runCount
<1> DEFINE q == runCount \div FanIn
           r == runCount % FanIn
<1>1. /\ q \in Nat /\ r \in 0..(FanIn - 1) /\ FanIn \in Nat
      /\ runCount = FanIn * q + r
  BY Constants
<1>2. ASSUME NEW g \in Nat, NEW h \in Nat, g <= h PROVE g * FanIn <= h * FanIn
  BY <1>1, <1>2
<1>3. q * FanIn \in Nat /\ (q + 1) * FanIn = q * FanIn + FanIn
  BY <1>1
<1>4. CASE r = 0
  <2>1. NextCount = q /\ runCount = q * FanIn
    BY <1>1, <1>4 DEF NextCount
  <2> HIDE DEF q, r
  <2>2. ASSUME NEW g \in Nat, g < q PROVE g * FanIn < q * FanIn
    <3>1. (g + 1) * FanIn <= q * FanIn
      BY <1>1, <1>2, <2>2
    <3>2. (g + 1) * FanIn = g * FanIn + FanIn
      BY <1>1
    <3>3. FanIn \in Nat /\ FanIn > 0 /\ g * FanIn \in Nat /\ q * FanIn \in Nat
      BY <1>1, <1>3, Constants
    <3>4. g * FanIn + FanIn <= q * FanIn
      BY <3>1, <3>2
    <3> QED
      BY <3>3, <3>4
  <2> QED
    BY <1>1, <2>1, <2>2
<1>5. CASE r # 0
  <2>1. NextCount = q + 1 /\ runCount = q * FanIn + r
    BY <1>1, <1>5 DEF NextCount
  <2> HIDE DEF q, r
  <2>2. ASSUME NEW g \in Nat, g < q + 1 PROVE g * FanIn < runCount
    <3>1. g * FanIn <= q * FanIn /\ g * FanIn \in Nat
      BY <1>1, <1>2, <2>2
    <3> QED
      BY <1>1, <1>3, <1>5, <2>1, <3>1
  <2>3. runCount <= (q + 1) * FanIn
    BY <1>1, <1>3, <2>1
  <2> QED
    BY <1>1, <2>1, <2>2, <2>3
<1> QED
  BY <1>4, <1>5

LEMMA ReadEndInv == ASSUME Inv, ReadEnd PROVE Inv'
<1>1. /\ pc = "reading" /\ pc' \in {"reading", "merging"}
      /\ pc' = "merging" => chunk = << >>
      /\ chunk' = chunk /\ taken' = taken
      /\ UNCHANGED <<status, files, others, pass, runCount, group, scratchUsed, nextBytes,
                     heap, quota>>
  BY DEF ReadEnd
<1>2. /\ Own' = Own /\ Working' = Working /\ Live' = Live
      /\ LastMerge' = LastMerge /\ NextCount' = NextCount
  BY <1>1, SameFiles
<1>3. pass = 0 /\ group = 0 /\ nextBytes = 0 /\ runCount \in Nat /\ NextCount \in Nat
  BY <1>1, PassSize DEF Inv, Counters, Typed
<1>4. Typed'
  BY <1>1, <1>2 DEF Inv, Typed
<1>5. Placed'
  BY <1>1, <1>2 DEF Inv, Placed, Exists, Busy
<1>6. Account'
  BY <1>1, SameAccount DEF Inv, Busy
<1>7. Counted'
  BY <1>1, <1>2 DEF Inv, Counted
<1>8. RunsFine'
  BY <1>1, <1>2 DEF Inv, RunsFine, Busy
<1>9. Counters'
  BY <1>1, <1>2, <1>3 DEF Counters
<1> QED
  BY <1>1, <1>4, <1>5, <1>6, <1>7, <1>8, <1>9 DEF Inv, Merging

\* failed_initial: every run before this one is removed.
LEMMA FailInitialInv == ASSUME Inv, FailInitial, pc = "reading" PROVE Inv'
<1>1. pass = 0 /\ group = 0 /\ Own = Working
  BY DEF Inv, Counters, Placed
<1>2. RunsOf(1, 0) = {}
  BY RunNames
<1>3. Own = RunsOf(0, runCount)
  BY <1>1, <1>2 DEF Working
<1>4. RunsOf(0, runCount) \cap DOMAIN others = {}
  BY <1>3 DEF Own
<1> QED
  BY <1>3, <1>4, CleanReturn DEF FailInitial

LEMMA SourceFailsInv == ASSUME Inv, SourceFails PROVE Inv'
  BY FailInitialInv DEF SourceFails

LEMMA WriteRunFailsInv == ASSUME Inv, WriteRunFails PROVE Inv'
  BY FailInitialInv DEF WriteRunFails, ChunkReady

\* Before the merging, the runs of pass 0 are all there is.
LEMMA FirstRuns ==
    ASSUME Inv, pc = "reading"
    PROVE  /\ pass = 0 /\ group = 0 /\ nextBytes = 0 /\ runCount \in Nat
           /\ Own = RunsOf(0, runCount) /\ Working = RunsOf(0, runCount)
           /\ Live = RunsOf(0, runCount) /\ RunsOf(pass + 1, group) = {}
<1>1. pass = 0 /\ group = 0 /\ nextBytes = 0 /\ Own = Working /\ runCount \in Nat
  BY DEF Inv, Counters, Placed, Typed
<1>2. RunsOf(1, 0) = {}
  BY RunNames
<1>3. Rest(0) = RunsOf(0, runCount)
  <2>1. {k \in 0..(runCount - 1) : k >= 0 * FanIn} = 0..(runCount - 1)
    BY <1>1, Constants
  <2> QED
    BY <1>1, <2>1 DEF Rest, RunsOf
<1> QED
  BY <1>1, <1>2, <1>3 DEF Working, Live

LEMMA WriteRunInv == ASSUME Inv, WriteRun PROVE Inv'
<1> DEFINE name == RunName(0, runCount)
<1>1. /\ pc = "reading" /\ chunk # << >>
      /\ QuotaLeft >= RecordBytes /\ ~Exists(name) /\ Bytes(chunk) <= QuotaLeft
      /\ files' = With(name, Sorted(chunk))
      /\ scratchUsed' = scratchUsed + Bytes(chunk)
      /\ runCount' = runCount + 1 /\ chunk' = << >>
      /\ pc' \in {"reading", "merging"}
      /\ UNCHANGED <<status, taken, others, pass, group, nextBytes, heap, quota>>
  BY DEF WriteRun, ChunkReady, CanWriteRun
<1>2. /\ pass = 0 /\ group = 0 /\ nextBytes = 0 /\ runCount \in Nat
      /\ Own = RunsOf(0, runCount) /\ Working = RunsOf(0, runCount)
      /\ Live = RunsOf(0, runCount) /\ RunsOf(pass + 1, group) = {}
  BY <1>1, FirstRuns
<1>3. chunk \in Seq(Values) /\ taken \in Seq(Values) /\ scratchUsed \in Nat
  BY DEF Inv, Typed
<1>4. /\ Sorted(chunk) \in Seq(Values) /\ Len(Sorted(chunk)) = Len(chunk)
      /\ Ascending(Sorted(chunk)) /\ Sorted(chunk) # << >>
      /\ \A V : Cardinality(In(Sorted(chunk), V)) = Cardinality(In(chunk, V))
  BY <1>1, <1>3, SortedChunk
<1>5. /\ DOMAIN files' = DOMAIN files \cup {name}
      /\ files'[name] = Sorted(chunk)
      /\ \A n \in DOMAIN files : n # name => files'[n] = files[n]
      /\ name \notin DOMAIN files /\ name \notin DOMAIN others
  <2>1. name \notin DOMAIN files /\ name \notin DOMAIN others
    BY <1>1 DEF Exists, Inv, Placed
  <2> HIDE DEF name
  <2>2. files' = [n \in DOMAIN files \cup {name} |->
                    IF n = name THEN Sorted(chunk) ELSE files[n]]
    BY <1>1 DEF With
  <2> QED
    BY <2>1, <2>2
<1>6. Own' = Own \cup {name} /\ name \notin Own
  BY <1>1, <1>5 DEF Own
<1>7. RunsOf(0, runCount') = RunsOf(0, runCount) \cup {name}
  BY <1>1, <1>2, RunNames
<1>8. /\ Working' = Own' /\ Live' = Own'
      /\ RunsOf(pass + 1, group)' = {}
  <2>1. RunsOf(1, 0) = {}
    BY RunNames
  <2>2. {k \in 0..(runCount' - 1) : k >= 0 * FanIn} = 0..(runCount' - 1)
    BY <1>1, <1>2, Constants
  <2>3. Rest(0)' = RunsOf(0, runCount')
    BY <1>1, <1>2, <2>2 DEF Rest, RunsOf
  <2> QED
    BY <1>1, <1>2, <1>6, <1>7, <2>1, <2>3 DEF Working, Live
<1>9. \A n \in Own : files'[n] = files[n] /\ files[n] \in Seq(Values)
  BY <1>5, <1>6 DEF Own, Inv, Typed
<1>10. \A V : Cardinality(Holding(files', Own', V)) =
                Cardinality(Holding(files, Own, V)) + Cardinality(In(chunk, V))
  <2> TAKE V
  <2>1. Holding(files', Own, V) = Holding(files, Own, V)
    BY <1>9, HoldingSame
  <2>2. IsFiniteSet(Holding(files, Own, V))
    BY <1>1, OwnFinite DEF Busy
  <2>3. Cardinality(Holding(files', Own \cup {name}, V)) =
            Cardinality(Holding(files', Own, V)) + Cardinality(In(files'[name], V))
    BY <1>4, <1>5, <1>6, <2>1, <2>2, HoldingAdd
  <2> QED
    BY <1>4, <1>5, <1>6, <2>1, <2>3
<1>11. Typed'
  BY <1>1, <1>2, <1>3, <1>4, <1>5, <1>6, <1>9, ByteCount DEF Inv, Typed
<1>12. Placed'
  <2>1. \A n \in DOMAIN others' : Exists(n)' /\ files'[n] = others'[n]
    BY <1>1, <1>5 DEF Inv, Placed, Exists
  <2>2. Output \notin DOMAIN others'
    BY <1>1 DEF Inv, Placed, Busy
  <2> QED
    BY <1>1, <1>8, <2>1, <2>2 DEF Placed
<1>13. Account'
  <2> DEFINE before == Cardinality(Holding(files, Own, Values))
  <2>1. /\ scratchUsed = RecordBytes * before
        /\ \A n \in Own : Bytes(files[n]) <= PerFile
        /\ before \in Nat
    BY <1>1, <1>2, OwnFinite DEF Inv, Account, Busy
  <2>2. /\ Bytes(chunk) = RecordBytes * Len(chunk) /\ Len(chunk) \in Nat
        /\ Bytes(chunk) <= PerFile /\ Bytes(chunk) <= Total - scratchUsed
        /\ Bytes(chunk) \in Nat
    BY <1>1, <1>3, Constants, ByteCount DEF QuotaLeft, Least
  <2>3. Cardinality(Holding(files', Own', Values)) = before + Len(chunk)
    BY <1>3, <1>10, InAll
  <2>4. scratchUsed' = RecordBytes * Cardinality(Holding(files', Own', Values))
    <3>1. RecordBytes * (before + Len(chunk)) = RecordBytes * before + RecordBytes * Len(chunk)
      BY <2>1, <2>2, Constants
    <3> QED
      BY <1>1, <2>1, <2>2, <2>3, <3>1
  <2>5. scratchUsed' <= Total
    BY <1>1, <1>3, <2>2, Constants
  <2>6. \A n \in Own' : Bytes(files'[n]) <= PerFile
    BY <1>4, <1>5, <1>6, <1>9, <2>1, <2>2 DEF Bytes
  <2>7. nextBytes' = RecordBytes * Cardinality(Holding(files', {}, Values))
    BY <1>1, <1>2, HoldingNone, Constants
  <2> QED
    BY <1>1, <1>8, <2>4, <2>5, <2>6, <2>7 DEF Account, Bytes
<1>14. RunsFine'
  BY <1>1, <1>2, <1>4, <1>5, <1>6, <1>8, <1>9 DEF Inv, RunsFine, Busy
<1>15. Counted'
  <2> SUFFICES ASSUME NEW V \in SUBSET Values
               PROVE  Cardinality(Holding(files', Own', V)) + Cardinality(In(<< >>, V)) =
                        Cardinality(In(taken, V))
    BY <1>1, <1>8 DEF Counted
  <2>1. Cardinality(Holding(files, Own, V)) + Cardinality(In(chunk, V)) = Cardinality(In(taken, V))
    BY <1>1, <1>2 DEF Inv, Counted
  <2>2. Cardinality(In(taken, V)) \in Nat
    BY <1>3, InFinite
  <2> QED
    BY <1>10, <2>1, <2>2, InEmpty
<1>16. Counters'
  <2>1. NextCount' \in Nat
    BY <1>1, <1>2, NextCountType
  <2> QED
    BY <1>1, <1>2, <2>1 DEF Counters
<1> QED
  BY <1>1, <1>11, <1>12, <1>13, <1>14, <1>15, <1>16 DEF Inv, Merging

\* What one file holds.
LEMMA HoldingOne ==
    ASSUME NEW f, NEW n, NEW X, f[n] \in Seq(X), NEW V
    PROVE  /\ IsFiniteSet(Holding(f, {n}, V))
           /\ Cardinality(Holding(f, {n}, V)) = Cardinality(In(f[n], V))
<1>1. Holding(f, {n}, V) = {<<n, i>> : i \in In(f[n], V)}
  BY DEF Holding
<1>2. /\ IsFiniteSet({<<n, i>> : i \in In(f[n], V)})
      /\ Cardinality({<<n, i>> : i \in In(f[n], V)}) = Cardinality(In(f[n], V))
  BY OneFile
<1> QED
  BY <1>1, <1>2

\* An empty file holds nothing.
LEMMA HoldingEmpty ==
    ASSUME NEW f, NEW n, f[n] = << >>, NEW V
    PROVE  Cardinality(Holding(f, {n}, V)) = 0
<1>1. Holding(f, {n}, V) = {}
  BY DEF Holding, In
<1> QED
  BY <1>1, FS_EmptySet

\* No values take no bytes.
LEMMA NoValuesFit == RecordBytes * 0 <= Total
<1>1. RecordBytes \in Nat /\ Total \in Nat
  BY Constants
<1> QED
  BY <1>1

LEMMA OpenRunFailsInv == ASSUME Inv, OpenRunFails PROVE Inv'
<1> DEFINE name == RunName(0, runCount)
           kept == Without(RunsOf(0, runCount))
           rest == [n \in DOMAIN kept \cup {name} |-> IF n = name THEN << >> ELSE kept[n]]
<1>1. pc = "reading" /\ Return("memory", rest) /\ ~Exists(name)
  BY DEF OpenRunFails, ChunkReady, CanWriteRun
<1>2. Own = RunsOf(0, runCount)
  BY <1>1, FirstRuns
<1>3. name.pass = 0
  BY Names
<1>4. /\ DOMAIN kept = DOMAIN files \ RunsOf(0, runCount)
      /\ \A n \in DOMAIN files \ RunsOf(0, runCount) : kept[n] = files[n]
  BY Removed
<1>5. \A n \in DOMAIN others : n \in DOMAIN files /\ n \notin RunsOf(0, runCount) /\ n # name
  BY <1>1, <1>2 DEF Own, Inv, Placed, Exists
<1> HIDE DEF name, kept
<1>6. DOMAIN rest \ DOMAIN others = {name}
  BY <1>2, <1>4, <1>5 DEF Own
<1>7. \A n \in DOMAIN others : n \in DOMAIN rest /\ rest[n] = files[n]
  BY <1>4, <1>5
<1>8. rest[name] = << >> /\ << >> \in Seq(Values)
  OBVIOUS
<1> HIDE DEF rest
<1>9. Cardinality(Holding(rest, {name}, Values)) = 0
  BY <1>8, HoldingEmpty
<1>10. RecordBytes * Cardinality(Holding(rest, DOMAIN rest \ DOMAIN others, Values)) <= Total
  BY <1>6, <1>9, NoValuesFit
<1>11. Bytes(rest[name]) <= PerFile
  BY <1>8, Constants DEF Bytes
<1> QED
  BY <1>1, <1>3, <1>6, <1>7, <1>8, <1>10, <1>11, ReturnStep

\* With no run there is no file of this call.
LEMMA NothingToMerge ==
    ASSUME Inv, pc = "merging", runCount = 0
    PROVE  Own = {} /\ Live = {}
<1>1. group = 0 /\ pass \in Nat /\ Own = Working
  BY Constants DEF Inv, Counters, Typed, Placed, LastMerge
<1>2. RunsOf(pass, 0) = {} /\ RunsOf(pass + 1, 0) = {}
  BY <1>1, RunNames
<1>3. Rest(0) = {}
  BY DEF Rest
<1> QED
  BY <1>1, <1>2, <1>3 DEF Working, Live

LEMMA WriteEmptyInv == ASSUME Inv, WriteEmpty PROVE Inv'
<1> DEFINE rest == With(Output, << >>)
<1>1. pc = "merging" /\ runCount = 0 /\ Return("ok", rest)
  BY DEF WriteEmpty
<1>2. Own = {} /\ Output \notin DOMAIN others
  BY <1>1, NothingToMerge DEF Inv, Placed, Busy
<1>3. /\ DOMAIN rest = DOMAIN files \cup {Output}
      /\ rest[Output] = << >> /\ << >> \in Seq(Values)
      /\ \A n \in DOMAIN files : n # Output => rest[n] = files[n]
  BY DEF With
<1> HIDE DEF rest
<1>4. DOMAIN rest \ DOMAIN others = {Output}
  BY <1>2, <1>3 DEF Own
<1>5. \A n \in DOMAIN others : n \in DOMAIN rest /\ rest[n] = files[n]
  BY <1>2, <1>3 DEF Inv, Placed, Exists
<1>6. Cardinality(Holding(rest, {Output}, Values)) = 0
  BY <1>3, HoldingEmpty
<1>7. RecordBytes * Cardinality(Holding(rest, DOMAIN rest \ DOMAIN others, Values)) <= Total
  BY <1>4, <1>6, NoValuesFit
<1>8. Bytes(rest[Output]) <= PerFile
  BY <1>3, Constants DEF Bytes
<1> QED
  BY <1>1, <1>3, <1>4, <1>5, <1>7, <1>8, ReturnStep

\* Nothing was there and nothing is removed.
LEMMA WriteEmptyFailsInv == ASSUME Inv, WriteEmptyFails PROVE Inv'
<1>1. Own = {} /\ Return("error", files)
  BY NothingToMerge DEF WriteEmptyFails
<1>2. RecordBytes * Cardinality(Holding(files, {}, Values)) <= Total
  BY HoldingNone, Constants
<1>3. \A n \in DOMAIN others : n \in DOMAIN files /\ files[n] = files[n]
  BY DEF Inv, Placed, Exists
<1> QED
  BY <1>1, <1>2, <1>3, ReturnStep DEF Own

-----------------------------------------------------------------------------
(* Merging *)

\* The file being written is none of the runs, and what is merged are runs of this pass.
LEMMA MergeNames ==
    ASSUME Inv, pc \in {"merging", "copying", "published"}
    PROVE  /\ Partial(Target) \notin Working
           /\ Partial(Target) # Target /\ Partial(Target) # Output
           /\ Target \notin Working
           /\ \A p, r : Partial(Target) # RunName(p, r)
           /\ Inputs \subseteq 0..(runCount - 1)
           /\ InputNames \subseteq RunsOf(pass, runCount)
           /\ RunsOf(pass, runCount) \subseteq Working
           /\ RunsOf(pass + 1, group) \subseteq Working
           /\ RunsOf(pass, runCount) \cap RunsOf(pass + 1, group) = {}
           /\ pass \in Nat /\ runCount \in Nat /\ group \in Nat
<1>1. pass \in Nat /\ pass + 1 \in Nat /\ runCount \in Nat /\ group \in Nat
  BY DEF Inv, Typed
<1>2. \E p, r : Target = RunName(p, r)
  BY DEF Target, Output
<1>3. \A p, r : Partial(Target) # RunName(p, r)
  BY <1>2, Names
<1>4. Partial(Target) \notin Working
  BY <1>3 DEF Working, RunsOf
<1>5. Partial(Target) # Target /\ Partial(Target) # Output
  BY <1>2, <1>3 DEF Output
<1>6. Target \notin Working
  <2>1. CASE LastMerge
    BY <1>1, <2>1, RunNames DEF Target, Working
  <2>2. CASE ~LastMerge
    <3>1. RunName(pass + 1, group) \notin RunsOf(pass + 1, group)
      BY <1>1, RunNames
    <3>2. RunName(pass + 1, group) \notin RunsOf(pass, runCount)
      BY <1>1, Names DEF RunsOf
    <3> QED
      BY <2>2, <3>1, <3>2 DEF Target, Working
  <2> QED
    BY <2>1, <2>2
<1>7. Inputs \subseteq 0..(runCount - 1)
  <2>1. CASE LastMerge
    BY <2>1 DEF Inputs
  <2>2. CASE ~LastMerge
    <3>1. group * FanIn \in Nat /\ (group + 1) * FanIn \in Nat
      BY <1>1, Constants
    <3>2. \A r \in group * FanIn .. Least((group + 1) * FanIn, runCount) - 1 : r \in 0..(runCount - 1)
      BY <1>1, <3>1 DEF Least
    <3> QED
      BY <2>2, <3>2 DEF Inputs
  <2> QED
    BY <2>1, <2>2
<1>8. InputNames \subseteq RunsOf(pass, runCount)
  BY <1>7 DEF InputNames, RunsOf
<1>9. RunsOf(pass, runCount) \cap RunsOf(pass + 1, group) = {}
  BY <1>1, RunNames
<1> QED
  BY <1>1, <1>3, <1>4, <1>5, <1>6, <1>7, <1>8, <1>9 DEF Working

\* The account while a file is written behind the runs: its quota is what is left.
LEMMA CopyAccount ==
    ASSUME NEW f, NEW t, t \notin Working, Inv, pc \in {"merging", "copying"},
           \A n \in Working : f[n] = files[n],
           f[t] \in Seq(Values), Bytes(f[t]) <= QuotaLeft
    PROVE  /\ RecordBytes * Cardinality(Holding(f, Working \cup {t}, Values)) <= Total
           /\ RecordBytes * Cardinality(Holding(f, Working \cup {t}, Values)) =
                scratchUsed + Bytes(f[t])
           /\ Bytes(f[t]) <= PerFile
           /\ \A n \in Working : Bytes(f[n]) <= PerFile
           /\ \A V : /\ Holding(f, Working, V) = Holding(files, Working, V)
                     /\ Holding(f, RunsOf(pass + 1, group), V) =
                            Holding(files, RunsOf(pass + 1, group), V)
                     /\ Holding(f, Live, V) = Holding(files, Live, V)
<1>1. Busy
  BY DEF Busy
<1>2. Live \subseteq Working /\ Working \subseteq Own /\ RunsOf(pass + 1, group) \subseteq Working
  BY <1>1, LiveFinite, OwnFinite DEF Working
<1>3. \A V : /\ Holding(f, Working, V) = Holding(files, Working, V)
             /\ Holding(f, RunsOf(pass + 1, group), V) = Holding(files, RunsOf(pass + 1, group), V)
             /\ Holding(f, Live, V) = Holding(files, Live, V)
  BY <1>2, HoldingSame
<1> DEFINE before == Cardinality(Holding(files, Working, Values))
<1>4. before \in Nat /\ IsFiniteSet(Holding(files, Working, Values))
  BY <1>1, OwnFinite
<1>5. Cardinality(Holding(f, Working \cup {t}, Values)) = before + Len(f[t])
  BY <1>3, <1>4, HoldingAdd, InAll
<1>6. Bytes(f[t]) = RecordBytes * Len(f[t]) /\ Bytes(f[t]) \in Nat /\ Len(f[t]) \in Nat
  BY ByteCount
<1>7. scratchUsed = RecordBytes * before /\ scratchUsed \in Nat
  BY <1>1 DEF Inv, Account, Typed
<1>8. Bytes(f[t]) <= PerFile /\ Bytes(f[t]) <= Total - scratchUsed
  BY <1>6, <1>7, Constants DEF QuotaLeft, Least
<1>9. RecordBytes * (before + Len(f[t])) = RecordBytes * before + RecordBytes * Len(f[t])
  BY <1>4, <1>6, Constants
<1>10. RecordBytes * Cardinality(Holding(f, Working \cup {t}, Values)) = scratchUsed + Bytes(f[t])
  BY <1>5, <1>6, <1>7, <1>9
<1>11. scratchUsed + Bytes(f[t]) <= Total
  BY <1>6, <1>7, <1>8, Constants
<1>12. \A n \in Working : Bytes(f[n]) <= PerFile
  BY <1>2 DEF Inv, Account, Bytes
<1> QED
  BY <1>3, <1>8, <1>10, <1>11, <1>12

LEMMA StartMergeInv == ASSUME Inv, StartMerge PROVE Inv'
<1> DEFINE t == Partial(Target)
<1>1. /\ pc = "merging" /\ pc' = "copying" /\ runCount > 0 /\ ~PassDone
      /\ QuotaLeft >= RecordBytes /\ ~Exists(Target) /\ ~Exists(t)
      /\ files' = With(t, << >>)
      /\ heap' = {[value |-> Content(r)[1], run |-> r, pos |-> 1] : r \in Inputs}
      /\ quota' = QuotaLeft
      /\ UNCHANGED <<status, taken, chunk, others, pass, runCount, group, scratchUsed,
                     nextBytes>>
  BY DEF StartMerge
<1>2. /\ t \notin Working /\ t # Target /\ t # Output /\ \A p, r : t # RunName(p, r)
      /\ Inputs \subseteq 0..(runCount - 1) /\ InputNames \subseteq RunsOf(pass, runCount)
      /\ RunsOf(pass, runCount) \subseteq Working /\ RunsOf(pass + 1, group) \subseteq Working
      /\ pass \in Nat /\ runCount \in Nat /\ group \in Nat
  BY <1>1, MergeNames
<1>3. /\ Working' = Working /\ Live' = Live /\ Inputs' = Inputs /\ Target' = Target
      /\ InputNames' = InputNames /\ LastMerge' = LastMerge /\ NextCount' = NextCount
      /\ RunsOf(pass + 1, group)' = RunsOf(pass + 1, group)
      /\ Partial(Target)' = t
  BY <1>1 DEF Working, Live, Rest, Inputs, Target, InputNames, LastMerge, NextCount
<1>4. /\ Own = Working /\ t \notin DOMAIN others /\ t \notin DOMAIN files
      /\ Target \notin DOMAIN files
  BY <1>1 DEF Inv, Placed, Exists
<1>5. /\ DOMAIN files' = DOMAIN files \cup {t}
      /\ files'[t] = << >>
      /\ \A n \in DOMAIN files : files'[n] = files[n]
  <2> HIDE DEF t
  <2>1. files' = [n \in DOMAIN files \cup {t} |-> IF n = t THEN << >> ELSE files[n]]
    BY <1>1 DEF With
  <2> QED
    BY <1>4, <2>1
<1>6. Own' = Working \cup {t}
  BY <1>1, <1>4, <1>5 DEF Own
<1>7. \A n \in Working : files'[n] = files[n] /\ files[n] \in Seq(Values)
  BY <1>4, <1>5 DEF Own, Inv, Typed
<1>8. << >> \in Seq(Values) /\ Bytes(<< >>) <= QuotaLeft /\ Bytes(<< >>) = 0
  BY <1>1, Constants DEF Bytes, QuotaLeft, Least, Inv, Typed
<1>9. Merged' = << >>
  BY <1>3, <1>5 DEF Merged
<1> HIDE DEF t
<1>10. Typed'
  BY <1>1, <1>5, <1>6, <1>7, <1>8 DEF Inv, Typed
<1>11. Counters'
  BY <1>1, <1>2, <1>3, PassSize DEF Inv, Counters, PassDone
<1>12. Placed'
  <2>1. \A n \in DOMAIN others' : Exists(n)' /\ files'[n] = others'[n]
    BY <1>1, <1>5 DEF Inv, Placed, Exists
  <2>2. Output \notin DOMAIN others'
    BY <1>1 DEF Inv, Placed, Busy
  <2>3. ~Exists(Target)'
    BY <1>2, <1>3, <1>4, <1>5 DEF Exists
  <2>4. Own' = Working' \cup {Partial(Target)'}
    BY <1>3, <1>6
  <2> QED
    BY <1>1, <2>1, <2>2, <2>3, <2>4 DEF Placed
<1>13. RunsFine'
  BY <1>1, <1>3, <1>7 DEF Inv, RunsFine, Busy
<1>14. /\ RecordBytes * Cardinality(Holding(files', Working \cup {t}, Values)) <= Total
       /\ \A n \in Working : Bytes(files'[n]) <= PerFile
       /\ Bytes(files'[t]) <= PerFile
       /\ \A V : /\ Holding(files', Working, V) = Holding(files, Working, V)
                 /\ Holding(files', RunsOf(pass + 1, group), V) =
                        Holding(files, RunsOf(pass + 1, group), V)
                 /\ Holding(files', Live, V) = Holding(files, Live, V)
  BY <1>1, <1>2, <1>5, <1>7, <1>8, CopyAccount
<1>15. Account'
  <2>1. QuotaLeft' = QuotaLeft
    BY <1>1 DEF QuotaLeft, Least
  <2>2. \A n \in Own' : Bytes(files'[n]) <= PerFile
    BY <1>6, <1>14
  <2>3. /\ scratchUsed' = RecordBytes * Cardinality(Holding(files', Working', Values))
        /\ nextBytes' = RecordBytes * Cardinality(Holding(files', RunsOf(pass + 1, group)', Values))
        /\ scratchUsed' <= Total
    BY <1>1, <1>3, <1>14 DEF Inv, Account, Busy
  <2>4. quota' = QuotaLeft' /\ Bytes(Merged') <= quota'
    BY <1>1, <1>8, <1>9, <2>1
  <2> QED
    BY <1>6, <1>14, <2>2, <2>3, <2>4 DEF Account, Bytes
<1>16. Merging'
  <2>1. \A r : Content(r)' = IF RunName(pass, r) \in Working THEN Content(r) ELSE Content(r)'
    BY <1>1, <1>7 DEF Content
  <2>2. \A r \in Inputs : /\ RunName(pass, r) \in Working
                          /\ Content(r)' = Content(r) /\ Content(r) \in Seq(Values)
                          /\ Content(r) # << >>
    <3>1. \A r \in Inputs : RunName(pass, r) \in Working
      BY <1>2 DEF InputNames
    <3>2. \A n \in Working : files[n] # << >>
      BY <1>1 DEF Inv, RunsFine, Busy
    <3> QED
      BY <1>1, <1>7, <3>1, <3>2 DEF Content
  <2>3. \A r \in Inputs : 1 \in 1..Len(Content(r)')
    BY <2>2
  <2>4. \A node \in heap' : \E r \in Inputs :
            node = [value |-> Content(r)[1], run |-> r, pos |-> 1]
    BY <1>1
  <2>5. \A node \in heap' : /\ node.run \in Inputs'
                            /\ node.pos \in 1..Len(Content(node.run)')
                            /\ node.value = Content(node.run)'[node.pos]
    BY <1>3, <2>2, <2>3, <2>4
  <2>6. \A a, b \in heap' : a.run = b.run => a = b
    BY <2>4
  <2>7. Ascending(Merged') /\ Len(Merged') = 0
    BY <1>9 DEF Ascending
  <2>8. ASSUME NEW V \in SUBSET Values
        PROVE  Cardinality(In(Merged', V)) + Cardinality(Pending(V)') =
                Cardinality(Holding(files', InputNames', V))
    <3>1. Pending(V)' = Holding(files', InputNames', V)
      <4> SUFFICES ASSUME NEW x \in Holding(files', InputNames, V)
                   PROVE  \E node \in heap' : x[1] = RunName(pass, node.run) /\ x[2] >= node.pos
        BY <1>1, <1>3 DEF Pending
      <4>1. PICK n \in InputNames : \E i \in In(files'[n], V) : x = <<n, i>>
        BY HoldingMember
      <4>2. PICK r \in Inputs : n = RunName(pass, r)
        BY DEF InputNames
      <4>3. x[1] = RunName(pass, r) /\ x[2] \in Nat /\ x[2] >= 1
        BY <4>1, <4>2 DEF In
      <4>4. [value |-> Content(r)[1], run |-> r, pos |-> 1] \in heap'
        BY <1>1
      <4> QED
        BY <4>3, <4>4
    <3>2. Cardinality(In(Merged', V)) = 0
      BY <1>9, InEmpty
    <3>3. Cardinality(Holding(files', InputNames', V)) \in Nat
      <4>1. Holding(files', InputNames', V) = Holding(files, InputNames, V)
        BY <1>2, <1>3, <1>7, HoldingSame
      <4> QED
        BY <1>1, <1>2, <1>4, <4>1, LiveFinite DEF Busy
    <3> QED
      BY <3>1, <3>2, <3>3
  <2> QED
    BY <2>5, <2>6, <2>7, <2>8 DEF Merging
<1>17. Counted'
  BY <1>1, <1>3, <1>14 DEF Inv, Counted
<1> QED
  BY <1>10, <1>11, <1>12, <1>13, <1>15, <1>16, <1>17 DEF Inv

\* What the first node of the heap and its run look like.
LEMMA FirstNode ==
    ASSUME Inv, pc = "copying", NEW node \in heap
    PROVE  LET c == Content(node.run) IN
           /\ node.run \in Inputs /\ node.run \in Nat /\ RunName(pass, node.run) \in Working
           /\ c \in Seq(Values) /\ Ascending(c) /\ c # << >>
           /\ node.pos \in 1..Len(c) /\ node.pos \in Nat /\ Len(c) \in Nat
           /\ node.value = c[node.pos] /\ node.value \in Values /\ node.value \in Nat
           /\ node.pos # Len(c) => node.pos + 1 \in 1..Len(c) /\ c[node.pos + 1] \in Values
                                   /\ c[node.pos + 1] \in Nat /\ node.value <= c[node.pos + 1]
<1>1. /\ node.run \in Inputs /\ node.pos \in 1..Len(Content(node.run))
      /\ node.value = Content(node.run)[node.pos]
  BY DEF Inv, Merging
<1>2. /\ Inputs \subseteq 0..(runCount - 1) /\ runCount \in Nat
      /\ InputNames \subseteq RunsOf(pass, runCount) /\ RunsOf(pass, runCount) \subseteq Working
  BY MergeNames
<1>3. RunName(pass, node.run) \in Working /\ node.run \in Nat
  <2>1. node.run \in 0..(runCount - 1)
    BY <1>1, <1>2
  <2>2. RunName(pass, node.run) \in InputNames
    BY <1>1 DEF InputNames
  <2> QED
    BY <1>2, <2>1, <2>2
<1>4. Working \subseteq Own
  BY OwnFinite DEF Busy
<1>5. Content(node.run) \in Seq(Values) /\ Ascending(Content(node.run)) /\ Content(node.run) # << >>
  BY <1>3, <1>4 DEF Inv, Typed, RunsFine, Busy, Content
<1>6. /\ Len(Content(node.run)) \in Nat
      /\ \A i \in 1..Len(Content(node.run)) : Content(node.run)[i] \in Values /\ Content(node.run)[i] \in Nat
  BY <1>5, ValuesOf
<1>7. node.pos # Len(Content(node.run)) => node.pos + 1 \in 1..Len(Content(node.run))
  BY <1>1, <1>6
<1>8. node.pos # Len(Content(node.run)) =>
        Content(node.run)[node.pos] <= Content(node.run)[node.pos + 1]
  <2>1. node.pos \in Nat /\ node.pos < node.pos + 1
    BY <1>1, <1>6
  <2> QED
    BY <1>1, <1>5, <1>7, <2>1 DEF Ascending
<1> QED
  BY <1>1, <1>3, <1>5, <1>6, <1>7, <1>8

\* The records of some runs of pass p that a heap h has still to copy.
Left(f, names, p, h, V) ==
    {x \in Holding(f, names, V) :
        \E other \in h : x[1] = RunName(p, other.run) /\ x[2] >= other.pos}

\* Copying a record takes it off those that have still to be copied, and only it.
LEMMA RecordCopied ==
    ASSUME Inv, pc = "copying", NEW node \in heap, NEW f, NEW h,
           \A n \in Working : f[n] = files[n],
           h = (heap \ {node}) \cup
                   IF node.pos = Len(Content(node.run)) THEN {}
                   ELSE {[value |-> Content(node.run)[node.pos + 1],
                          run |-> node.run, pos |-> node.pos + 1]},
           NEW V \in SUBSET Values
    PROVE  LET left == Left(f, InputNames, pass, h, V)
           IN  /\ Cardinality(Pending(V)) \in Nat
               /\ Cardinality(left) \in Nat
               /\ Cardinality(Pending(V)) =
                    Cardinality(left) + (IF node.value \in V THEN 1 ELSE 0)
<1> DEFINE left == Left(f, InputNames, pass, h, V)
           c == Content(node.run)
           name == RunName(pass, node.run)
           here == <<name, node.pos>>
           next == [value |-> c[node.pos + 1], run |-> node.run, pos |-> node.pos + 1]
<1>1. /\ node.run \in Inputs /\ name \in Working /\ c \in Seq(Values)
      /\ node.pos \in 1..Len(c) /\ node.pos \in Nat /\ Len(c) \in Nat
      /\ node.value = c[node.pos] /\ c = files[name]
  BY FirstNode DEF Content
<1>2. /\ InputNames \subseteq Working /\ Working \subseteq Own
      /\ \A names \in SUBSET Own : /\ IsFiniteSet(Holding(files, names, V))
                                   /\ Cardinality(Holding(files, names, V)) \in Nat
  BY MergeNames, OwnFinite, LiveFinite DEF Busy
<1>3. Holding(f, InputNames, V) = Holding(files, InputNames, V)
  BY <1>2, HoldingSame
<1>4. IsFiniteSet(Pending(V)) /\ Cardinality(Pending(V)) \in Nat
  <2>1. Pending(V) \in SUBSET Holding(files, InputNames, V)
    BY DEF Pending
  <2> QED
    BY <1>2, <2>1, FS_Subset, FS_CardinalityType
<1>5. here \in Pending(V) <=> node.value \in V
  <2>1. name \in InputNames
    BY <1>1 DEF InputNames
  <2>2. here \in Holding(files, InputNames, V) <=> node.pos \in In(files[name], V)
    BY <2>1 DEF Holding
  <2>3. node.pos \in In(files[name], V) <=> node.value \in V
    BY <1>1 DEF In
  <2>4. here[1] = RunName(pass, node.run) /\ here[2] >= node.pos
    BY <1>1
  <2> QED
    BY <2>2, <2>3, <2>4 DEF Pending
<1>6. \A other \in heap : other.run = node.run => other = node
  BY DEF Inv, Merging
<1>7. ASSUME NEW x \in Holding(files, InputNames, V)
      PROVE  (\E other \in h : x[1] = RunName(pass, other.run) /\ x[2] >= other.pos) <=>
             (x # here /\ \E other \in heap : x[1] = RunName(pass, other.run) /\ x[2] >= other.pos)
  <2>1. PICK n \in InputNames : \E i \in In(files[n], V) : x = <<n, i>>
    BY HoldingMember
  <2>2. PICK i \in In(files[n], V) : x = <<n, i>>
    BY <2>1
  <2>3. i \in 1..Len(files[n]) /\ i \in Nat
    BY <2>2, <1>2 DEF In, Inv, Typed
  <2>4. x[1] = n /\ x[2] = i
    BY <2>2
  <2>5. CASE n = name
    <3>1. \A other : n = RunName(pass, other.run) <=> other.run = node.run
      BY <2>5, Names
    <3>2. (\E other \in heap : n = RunName(pass, other.run) /\ i >= other.pos) <=> i >= node.pos
      BY <3>1, <1>6
    <3>3. (\E other \in h : n = RunName(pass, other.run) /\ i >= other.pos) <=>
            node.pos # Len(c) /\ i >= node.pos + 1
      <4>1. CASE node.pos = Len(c)
        <5>1. h = heap \ {node}
          BY <4>1
        <5> QED
          BY <5>1, <4>1, <3>1, <1>6
      <4>2. CASE node.pos # Len(c)
        <5>1. h = (heap \ {node}) \cup {next}
          BY <4>2
        <5>2. next.run = node.run /\ next.pos = node.pos + 1
          OBVIOUS
        <5> HIDE DEF next, c
        <5> QED
          BY <5>1, <5>2, <4>2, <3>1, <1>6
      <4> QED
        BY <4>1, <4>2
    <3>4. i <= Len(c)
      BY <2>3, <2>5, <1>1
    <3>5. x = here <=> i = node.pos
      BY <2>2, <2>5
    <3> HIDE DEF here, c
    <3> QED
      BY <2>3, <2>4, <3>2, <3>3, <3>4, <3>5, <1>1
  <2>6. CASE n # name
    <3>1. \A other : n = RunName(pass, other.run) => other.run # node.run
      BY <2>6
    <3>2. x # here
      BY <2>2, <2>6
    <3>3. \A other : other.run # node.run => (other \in h <=> other \in heap)
      <4>1. \A other : other.run # node.run => other # node /\ other # next
        OBVIOUS
      <4>2. h = heap \ {node} \/ h = (heap \ {node}) \cup {next}
        OBVIOUS
      <4> HIDE DEF next
      <4> QED
        BY <4>1, <4>2
    <3> QED
      BY <2>4, <3>1, <3>2, <3>3
  <2> QED
    BY <2>5, <2>6
<1>8. left = Pending(V) \ {here}
  BY <1>3, <1>7 DEF Pending, Left
<1> HIDE DEF left, here, c
<1>9. CASE node.value \in V
  <2>1. /\ IsFiniteSet(left)
        /\ Cardinality(left) = Cardinality(Pending(V)) - 1
    BY <1>4, <1>5, <1>8, <1>9, FS_RemoveElement
  <2>2. Cardinality(left) \in Nat
    BY <2>1, FS_CardinalityType
  <2> QED
    BY <1>4, <1>9, <2>1, <2>2 DEF left
<1>10. CASE node.value \notin V
  <2>1. left = Pending(V)
    BY <1>5, <1>8, <1>10
  <2>2. Cardinality(left) \in Nat /\ Cardinality(Pending(V)) = Cardinality(left) + 0
    BY <1>4, <2>1
  <2> QED
    BY <1>4, <1>10, <2>2 DEF left
<1> QED
  BY <1>9, <1>10

LEMMA MergeRecordInv == ASSUME Inv, MergeRecord PROVE Inv'
<1> DEFINE t == Partial(Target)
<1>0. pc = "copying" /\ Busy
  BY DEF MergeRecord, Busy
<1>1. PICK node \in heap :
        /\ \A other \in heap \ {node} : NodeBefore(node, other)
        /\ Bytes(files[t]) + RecordBytes <= quota
        /\ files' = With(t, Append(files[t], node.value))
        /\ heap' = (heap \ {node}) \cup
                   IF node.pos = Len(Content(node.run)) THEN {}
                   ELSE {[value |-> Content(node.run)[node.pos + 1],
                          run |-> node.run, pos |-> node.pos + 1]}
  BY DEF MergeRecord
<1>2. UNCHANGED <<pc, status, taken, chunk, others, pass, runCount, group, scratchUsed,
                  nextBytes, quota>>
  BY DEF MergeRecord
<1>3. /\ t \notin Working /\ t # Target /\ t # Output
      /\ InputNames \subseteq Working /\ RunsOf(pass + 1, group) \subseteq Working
  BY <1>0, MergeNames
<1>4. /\ Working' = Working /\ Live' = Live /\ Inputs' = Inputs /\ Target' = Target
      /\ InputNames' = InputNames /\ LastMerge' = LastMerge /\ NextCount' = NextCount
      /\ RunsOf(pass + 1, group)' = RunsOf(pass + 1, group)
      /\ Partial(Target)' = t
  BY <1>2 DEF Working, Live, Rest, Inputs, Target, InputNames, LastMerge, NextCount
<1>5. /\ Own = Working \cup {t} /\ t \notin DOMAIN others /\ t \in DOMAIN files
      /\ Target \notin DOMAIN files
  BY <1>0 DEF Inv, Placed, Exists, Own
<1>6. LET c == Content(node.run) IN
      /\ node.run \in Inputs /\ node.run \in Nat /\ RunName(pass, node.run) \in Working
      /\ c \in Seq(Values) /\ Ascending(c) /\ c # << >>
      /\ node.pos \in 1..Len(c) /\ node.pos \in Nat /\ Len(c) \in Nat
      /\ node.value = c[node.pos] /\ node.value \in Values /\ node.value \in Nat
      /\ node.pos # Len(c) => node.pos + 1 \in 1..Len(c) /\ c[node.pos + 1] \in Values
                              /\ c[node.pos + 1] \in Nat /\ node.value <= c[node.pos + 1]
  BY <1>0, FirstNode
<1>7. Merged = files[t] /\ Merged \in Seq(Values)
  BY <1>5 DEF Merged, Inv, Typed
<1> DEFINE grown == Append(Merged, node.value)
<1>8. /\ grown \in Seq(Values) /\ Len(grown) = Len(Merged) + 1 /\ Len(Merged) \in Nat
      /\ \A i \in 1..Len(Merged) : grown[i] = Merged[i]
      /\ grown[Len(Merged) + 1] = node.value
  BY <1>6, <1>7
<1>9. /\ DOMAIN files' = DOMAIN files
      /\ files'[t] = grown
      /\ \A n \in DOMAIN files : n # t => files'[n] = files[n]
  <2> HIDE DEF t
  <2>1. files' = [n \in DOMAIN files \cup {t} |-> IF n = t THEN grown ELSE files[n]]
    BY <1>1, <1>7 DEF With
  <2> HIDE DEF grown
  <2> QED
    BY <1>5, <2>1
<1> HIDE DEF grown, t
<1>10. Own' = Working \cup {t}
  BY <1>2, <1>5, <1>9 DEF Own
<1>11. \A n \in Working : files'[n] = files[n] /\ files[n] \in Seq(Values)
  BY <1>3, <1>5, <1>9 DEF Own, Inv, Typed
<1>12. Merged' = grown
  BY <1>4, <1>9 DEF Merged
<1>13. Bytes(grown) <= quota /\ quota = QuotaLeft
  <2>1. Bytes(grown) = RecordBytes * (Len(Merged) + 1) /\ Bytes(Merged) = RecordBytes * Len(Merged)
    BY <1>8 DEF Bytes
  <2>2. RecordBytes * (Len(Merged) + 1) = RecordBytes * Len(Merged) + RecordBytes
    BY <1>8, Constants
  <2>3. quota = QuotaLeft
    BY <1>0 DEF Inv, Account
  <2> QED
    BY <1>1, <1>7, <2>1, <2>2, <2>3
<1>14. Typed'
  BY <1>2, <1>8, <1>9, <1>10, <1>11 DEF Inv, Typed
<1>15. Counters'
  BY <1>0, <1>2, <1>4 DEF Inv, Counters
<1>16. Placed'
  <2>1. \A n \in DOMAIN others' : Exists(n)' /\ files'[n] = others'[n]
    BY <1>2, <1>5, <1>9 DEF Inv, Placed, Exists
  <2>2. Output \notin DOMAIN others'
    BY <1>0, <1>2 DEF Inv, Placed
  <2>3. ~Exists(Target)'
    BY <1>4, <1>5, <1>9 DEF Exists
  <2>4. Own' = Working' \cup {Partial(Target)'}
    BY <1>4, <1>10
  <2> QED
    BY <1>0, <1>2, <2>1, <2>2, <2>3, <2>4 DEF Placed
<1>17. RunsFine'
  BY <1>0, <1>2, <1>4, <1>11 DEF Inv, RunsFine, Busy
<1>18. /\ RecordBytes * Cardinality(Holding(files', Working \cup {t}, Values)) <= Total
       /\ \A n \in Working : Bytes(files'[n]) <= PerFile
       /\ Bytes(files'[t]) <= PerFile
       /\ \A V : /\ Holding(files', Working, V) = Holding(files, Working, V)
                 /\ Holding(files', RunsOf(pass + 1, group), V) =
                        Holding(files, RunsOf(pass + 1, group), V)
                 /\ Holding(files', Live, V) = Holding(files, Live, V)
  BY <1>0, <1>3, <1>8, <1>9, <1>11, <1>13, CopyAccount
<1>19. Account'
  <2>1. QuotaLeft' = QuotaLeft
    BY <1>2 DEF QuotaLeft, Least
  <2>2. \A n \in Own' : Bytes(files'[n]) <= PerFile
    BY <1>10, <1>18
  <2>3. /\ scratchUsed' = RecordBytes * Cardinality(Holding(files', Working', Values))
        /\ nextBytes' = RecordBytes * Cardinality(Holding(files', RunsOf(pass + 1, group)', Values))
        /\ scratchUsed' <= Total
    BY <1>0, <1>2, <1>4, <1>18 DEF Inv, Account
  <2>4. quota' = QuotaLeft' /\ Bytes(Merged') <= quota'
    BY <1>2, <1>12, <1>13, <2>1
  <2> QED
    BY <1>10, <1>18, <2>2, <2>3, <2>4 DEF Account, Bytes
<1>20. Merging'
  <2> DEFINE c == Content(node.run)
             next == [value |-> c[node.pos + 1], run |-> node.run, pos |-> node.pos + 1]
  <2>1. \A r \in Inputs : Content(r)' = Content(r)
    <3>1. \A r \in Inputs : RunName(pass, r) \in Working
      BY <1>3 DEF InputNames
    <3> QED
      BY <1>2, <1>11, <3>1 DEF Content
  <2>2. /\ \A other \in heap : /\ other.run \in Inputs
                               /\ other.pos \in 1..Len(Content(other.run))
                               /\ other.value = Content(other.run)[other.pos]
        /\ \A a, b \in heap : a.run = b.run => a = b
        /\ Ascending(Merged)
        /\ \A other \in heap : \A i \in 1..Len(Merged) : Merged[i] <= other.value
    BY <1>0 DEF Inv, Merging
  <2>3. next.run = node.run /\ next.pos = node.pos + 1 /\ next.value = c[node.pos + 1]
    OBVIOUS
  <2>4. \A other \in heap' : (other \in heap /\ other # node) \/ (other = next /\ node.pos # Len(c))
    BY <1>1
  <2> HIDE DEF next
  <2>5. \A other \in heap' : /\ other.run \in Inputs
                             /\ other.pos \in 1..Len(Content(other.run))
                             /\ other.value = Content(other.run)[other.pos]
    BY <1>6, <2>2, <2>3, <2>4
  <2>6. \A a, b \in heap' : a.run = b.run => a = b
    BY <2>2, <2>3, <2>4
  <2>7. \A other \in heap' : other.value \in Nat /\ node.value <= other.value
    <3> SUFFICES ASSUME NEW other \in heap' PROVE other.value \in Nat /\ node.value <= other.value
      OBVIOUS
    <3>1. CASE other \in heap /\ other # node
      <4>1. NodeBefore(node, other)
        BY <1>1, <3>1
      <4>2. other.value \in Nat /\ node.value \in Nat
        BY <1>0, <3>1, FirstNode
      <4> QED
        BY <4>1, <4>2 DEF NodeBefore
    <3>2. CASE other = next /\ node.pos # Len(c)
      BY <1>6, <2>3, <3>2
    <3> QED
      BY <2>4, <3>1, <3>2
  <2>8. \A i \in 1..Len(grown) : grown[i] \in Nat /\ grown[i] <= node.value
    <3> SUFFICES ASSUME NEW i \in 1..Len(grown) PROVE grown[i] \in Nat /\ grown[i] <= node.value
      OBVIOUS
    <3>1. CASE i \in 1..Len(Merged)
      BY <1>7, <1>8, <2>2, <3>1, ValuesOf
    <3>2. CASE i = Len(Merged) + 1
      BY <1>6, <1>8, <3>2
    <3> QED
      BY <1>8, <3>1, <3>2
  <2>9. Ascending(grown)
    <3> SUFFICES ASSUME NEW i \in 1..Len(grown), NEW j \in 1..Len(grown), i < j
                 PROVE  grown[i] <= grown[j]
      BY DEF Ascending
    <3>1. i \in 1..Len(Merged)
      BY <1>8
    <3>2. CASE j \in 1..Len(Merged)
      BY <1>8, <2>2, <3>1, <3>2 DEF Ascending
    <3>3. CASE j = Len(Merged) + 1
      BY <1>8, <2>8, <3>3
    <3> QED
      BY <1>8, <3>2, <3>3
  <2>10. \A other \in heap' : \A i \in 1..Len(grown) : grown[i] <= other.value
    <3> SUFFICES ASSUME NEW other \in heap', NEW i \in 1..Len(grown)
                 PROVE  grown[i] <= other.value
      OBVIOUS
    <3>1. grown[i] \in Nat /\ grown[i] <= node.value
      BY <2>8
    <3>2. other.value \in Nat /\ node.value <= other.value
      BY <2>7
    <3>3. node.value \in Nat
      BY <1>6
    <3> QED
      BY <3>1, <3>2, <3>3
  <2>11. ASSUME NEW V \in SUBSET Values
         PROVE  Cardinality(In(Merged', V)) + Cardinality(Pending(V)') =
                 Cardinality(Holding(files', InputNames', V))
    <3> DEFINE left == Left(files', InputNames, pass, heap', V)
               one == IF node.value \in V THEN 1 ELSE 0
    <3>1. Pending(V)' = left
      BY <1>2, <1>4 DEF Pending, Left
    <3>2. /\ Cardinality(Pending(V)) \in Nat /\ Cardinality(left) \in Nat
          /\ Cardinality(Pending(V)) = Cardinality(left) + one
      BY <1>0, <1>1, <1>11, RecordCopied
    <3>3. Cardinality(In(grown, V)) = Cardinality(In(Merged, V)) + one
      BY <1>6, <1>7, InAppend DEF grown
    <3>4. Cardinality(In(Merged, V)) \in Nat /\ one \in Nat
      BY <1>7, InFinite
    <3>5. Cardinality(In(Merged, V)) + Cardinality(Pending(V)) =
            Cardinality(Holding(files, InputNames, V))
      BY <1>0 DEF Inv, Merging
    <3>6. Holding(files', InputNames', V) = Holding(files, InputNames, V)
      BY <1>3, <1>4, <1>11, HoldingSame
    <3> HIDE DEF left, one
    <3> QED
      BY <1>12, <3>1, <3>2, <3>3, <3>4, <3>5, <3>6
  <2>12. \A other \in heap' : /\ other.run \in Inputs'
                              /\ other.pos \in 1..Len(Content(other.run)')
                              /\ other.value = Content(other.run)'[other.pos]
    BY <1>4, <2>1, <2>5
  <2> QED
    BY <1>12, <2>6, <2>9, <2>10, <2>11, <2>12 DEF Merging
<1>21. Counted'
  BY <1>0, <1>2, <1>4, <1>18 DEF Inv, Counted
<1> QED
  BY <1>14, <1>15, <1>16, <1>17, <1>19, <1>20, <1>21 DEF Inv

\* A merge that is done: the file has its name, and every record of the inputs is in it.
LEMMA MergeDone ==
    ASSUME Inv, pc = "copying", heap = {}, files' = Renamed, others' = others
    PROVE  /\ DOMAIN files' = (DOMAIN files \ {Partial(Target)}) \cup {Target}
           /\ Own' = Working \cup {Target} /\ Target \notin DOMAIN others
           /\ files'[Target] = Merged
           /\ \A n \in Working : files'[n] = files[n] /\ files[n] \in Seq(Values)
           /\ \A n \in DOMAIN others : n \in DOMAIN files' /\ files'[n] = others'[n]
           /\ Merged \in Seq(Values) /\ Ascending(Merged)
           /\ \A V \in SUBSET Values :
                Cardinality(In(Merged, V)) = Cardinality(Holding(files, InputNames, V))
           /\ RecordBytes * Cardinality(Holding(files', Working \cup {Target}, Values)) <= Total
           /\ RecordBytes * Cardinality(Holding(files', Working \cup {Target}, Values)) =
                scratchUsed + Bytes(Merged)
           /\ \A n \in Working \cup {Target} : Bytes(files'[n]) <= PerFile
<1> DEFINE t == Partial(Target)
           T == Target
<1>1. /\ t \notin Working /\ t # T /\ T \notin Working
  BY MergeNames
<1>2. /\ Own = Working \cup {t} /\ t \notin DOMAIN others /\ t \in DOMAIN files
      /\ T \notin DOMAIN files
  BY DEF Inv, Placed, Exists, Own
<1>3. Merged = files[t] /\ Merged \in Seq(Values)
  BY <1>2 DEF Merged, Inv, Typed
<1>4. files' = [n \in (DOMAIN files \ {t}) \cup {T} |-> IF n = T THEN Merged ELSE files[n]]
  BY <1>3 DEF Renamed
<1>5. /\ Ascending(Merged) /\ Bytes(Merged) <= QuotaLeft
      /\ \A V \in SUBSET Values :
            Cardinality(In(Merged, V)) + Cardinality(Pending(V)) =
                Cardinality(Holding(files, InputNames, V))
  BY DEF Inv, Merging, Account
<1>6. ASSUME NEW V \in SUBSET Values
      PROVE  Cardinality(In(Merged, V)) = Cardinality(Holding(files, InputNames, V))
  <2>1. Pending(V) = {}
    BY DEF Pending
  <2>2. Cardinality(Pending(V)) = 0
    BY <2>1, FS_EmptySet
  <2>3. Cardinality(In(Merged, V)) \in Nat
    BY <1>3, InFinite
  <2>4. Cardinality(In(Merged, V)) + Cardinality(Pending(V)) =
            Cardinality(Holding(files, InputNames, V))
    BY <1>5
  <2> QED
    BY <2>2, <2>3, <2>4
<1> HIDE DEF t, T
<1>7. /\ DOMAIN files' = (DOMAIN files \ {t}) \cup {T}
      /\ files'[T] = Merged
      /\ \A n \in DOMAIN files \ {t} : files'[n] = files[n]
  BY <1>2, <1>4
<1>8. \A n \in Working : n \in DOMAIN files \ {t} /\ n \in Own
  BY <1>1, <1>2 DEF Own
<1>9. \A n \in Working : files'[n] = files[n] /\ files[n] \in Seq(Values)
  BY <1>7, <1>8 DEF Inv, Typed
<1>10. DOMAIN others \subseteq DOMAIN files \ {t} /\ \A n \in DOMAIN others : files[n] = others[n]
  BY <1>2 DEF Inv, Placed, Exists
<1>11. Own' = Working \cup {T} /\ T \notin DOMAIN others
  BY <1>1, <1>2, <1>7, <1>10 DEF Own
<1>12. \A n \in DOMAIN others : n \in DOMAIN files' /\ files'[n] = others'[n]
  BY <1>7, <1>10
<1>13. /\ RecordBytes * Cardinality(Holding(files', Working \cup {T}, Values)) <= Total
       /\ RecordBytes * Cardinality(Holding(files', Working \cup {T}, Values)) =
                scratchUsed + Bytes(files'[T])
       /\ Bytes(files'[T]) <= PerFile
       /\ \A n \in Working : Bytes(files'[n]) <= PerFile
  BY <1>1, <1>3, <1>5, <1>7, <1>9, CopyAccount
<1> QED
  BY <1>3, <1>5, <1>6, <1>7, <1>9, <1>11, <1>12, <1>13 DEF t, T

\* The runs of this merge are the ones the next merge does not start behind.
LEMMA NextGroup ==
    ASSUME runCount \in Nat, group \in Nat, ~LastMerge
    PROVE  /\ Rest(group) = Rest(group + 1) \cup InputNames
           /\ Rest(group + 1) \cap InputNames = {}
           /\ group < NextCount => group * FanIn \in Inputs
<1> DEFINE a == group * FanIn
           b == (group + 1) * FanIn
<1>1. a \in Nat /\ b = a + FanIn /\ b \in Nat /\ FanIn > 0 /\ FanIn \in Nat
  BY Constants
<1>2. Inputs = a .. Least(b, runCount) - 1
  BY DEF Inputs
<1>3. group < NextCount => a < runCount
  BY PassSize
<1> HIDE DEF a, b
<1>4. \A k : k \in Inputs <=> k \in 0..(runCount - 1) /\ k >= a /\ ~(k >= b)
  BY <1>1, <1>2 DEF Least
<1>5. /\ Rest(group) = {RunName(pass, r) : r \in {k \in 0..(runCount - 1) : k >= a}}
      /\ Rest(group + 1) = {RunName(pass, r) : r \in {k \in 0..(runCount - 1) : k >= b}}
  BY DEF Rest, a, b
<1>6. {k \in 0..(runCount - 1) : k >= a} = {k \in 0..(runCount - 1) : k >= b} \cup Inputs
  BY <1>1, <1>4
<1>7. {k \in 0..(runCount - 1) : k >= b} \cap Inputs = {}
  BY <1>4
<1>8. Rest(group) = Rest(group + 1) \cup InputNames
  BY <1>5, <1>6 DEF InputNames
<1>9. Rest(group + 1) \cap InputNames = {}
  BY <1>5, <1>7, Names DEF InputNames
<1>10. group < NextCount => a \in Inputs
  BY <1>1, <1>3, <1>4
<1> QED
  BY <1>8, <1>9, <1>10 DEF a

LEMMA EndMergeInv == ASSUME Inv, EndMerge PROVE Inv'
<1> DEFINE T == Target
           A == Rest(group + 1)
           B == InputNames
           C == RunsOf(pass + 1, group)
<1>1. /\ pc = "copying" /\ heap = {} /\ ~LastMerge /\ pc' = "merging"
      /\ files' = Renamed /\ others' = others
      /\ scratchUsed' = scratchUsed + Bytes(Merged)
      /\ nextBytes' = nextBytes + Bytes(Merged)
      /\ group' = group + 1
      /\ UNCHANGED <<status, taken, chunk, others, pass, runCount, heap, quota>>
  BY DEF EndMerge, Merged
<1>2. Busy /\ Busy'
  BY <1>1 DEF Busy
<1>3. /\ T \notin Working /\ B \subseteq Working /\ C \subseteq Working
      /\ B \subseteq RunsOf(pass, runCount)
      /\ RunsOf(pass, runCount) \subseteq Working
      /\ RunsOf(pass, runCount) \cap C = {}
      /\ pass \in Nat /\ runCount \in Nat /\ group \in Nat
  BY <1>1, MergeNames
<1>4. T = RunName(pass + 1, group)
  BY <1>1 DEF Target
<1>5. RunsOf(pass + 1, group + 1) = C \cup {T}
  <2>1. pass + 1 \in Nat
    BY <1>3
  <2> QED
    BY <1>3, <1>4, <2>1, RunNames
<1>6. /\ DOMAIN files' = (DOMAIN files \ {Partial(Target)}) \cup {T}
      /\ Own' = Working \cup {T} /\ T \notin DOMAIN others
      /\ files'[T] = Merged
      /\ \A n \in Working : files'[n] = files[n] /\ files[n] \in Seq(Values)
      /\ \A n \in DOMAIN others : n \in DOMAIN files' /\ files'[n] = others'[n]
      /\ Merged \in Seq(Values) /\ Ascending(Merged)
      /\ \A V \in SUBSET Values : Cardinality(In(Merged, V)) = Cardinality(Holding(files, B, V))
      /\ RecordBytes * Cardinality(Holding(files', Working \cup {T}, Values)) <= Total
      /\ RecordBytes * Cardinality(Holding(files', Working \cup {T}, Values)) =
            scratchUsed + Bytes(Merged)
      /\ \A n \in Working \cup {T} : Bytes(files'[n]) <= PerFile
  BY <1>1, MergeDone
<1>7. group < NextCount /\ group * FanIn \in Inputs /\ NextCount \in Nat
  BY <1>1, <1>3, NextGroup, PassSize DEF Inv, Counters
<1>8. /\ Rest(group) = A \cup B /\ A \cap B = {}
      /\ A \subseteq RunsOf(pass, runCount)
  BY <1>1, <1>3, NextGroup DEF Rest, RunsOf
<1>9. /\ Working' = Working \cup {T} /\ RunsOf(pass + 1, group)' = C \cup {T}
      /\ Live' = A \cup (C \cup {T})
      /\ LastMerge' = LastMerge /\ NextCount' = NextCount
  BY <1>1, <1>5 DEF Working, Live, Rest, LastMerge, NextCount
<1>10. Bytes(Merged) \in Nat /\ Bytes(Merged) = RecordBytes * Len(Merged) /\ Len(Merged) \in Nat
  BY <1>6, ByteCount
<1>11. Typed'
  BY <1>1, <1>3, <1>6, <1>10 DEF Inv, Typed
<1>12. Counters'
  BY <1>1, <1>3, <1>7, <1>9 DEF Inv, Counters
<1>13. Placed'
  BY <1>1, <1>2, <1>6, <1>9 DEF Inv, Placed, Exists
<1> HIDE DEF T, A, B, C
<1>14. \A V : /\ IsFiniteSet(Holding(files, A, V)) /\ Cardinality(Holding(files, A, V)) \in Nat
              /\ IsFiniteSet(Holding(files, B, V)) /\ Cardinality(Holding(files, B, V)) \in Nat
              /\ IsFiniteSet(Holding(files, C, V)) /\ Cardinality(Holding(files, C, V)) \in Nat
              /\ IsFiniteSet(Holding(files, A \cup C, V))
  <2>1. A \in SUBSET Own /\ B \in SUBSET Own /\ C \in SUBSET Own /\ (A \cup C) \in SUBSET Own
    BY <1>2, <1>3, <1>8, OwnFinite
  <2> QED
    BY <1>2, <2>1, LiveFinite
<1>15. Merged # << >>
  <2> DEFINE name == RunName(pass, group * FanIn)
  <2>1. name \in B
    BY <1>7 DEF InputNames, B
  <2>2. files[name] # << >> /\ files[name] \in Seq(Values)
    BY <1>2, <1>3, <1>6, <2>1 DEF Inv, RunsFine
  <2>3. 1 \in In(files[name], Values)
    BY <2>2 DEF In
  <2>4. <<name, 1>> \in Holding(files, B, Values)
    BY <2>1, <2>3, HoldingMember
  <2>5. Cardinality(Holding(files, B, Values)) # 0
    BY <1>14, <2>4, FS_EmptySet
  <2>6. Cardinality(In(Merged, Values)) # 0
    BY <1>6, <2>5
  <2> QED
    BY <2>6, InEmpty
<1>16. RunsFine'
  <2>1. \A n \in Working \cup {T} : files'[n] # << >> /\ Ascending(files'[n])
    BY <1>2, <1>6, <1>15 DEF Inv, RunsFine
  <2> QED
    BY <1>9, <2>1 DEF RunsFine
<1>17. Account'
  <2>1. \A V : Holding(files', C, V) = Holding(files, C, V)
    BY <1>3, <1>6, HoldingSame
  <2>2. T \notin C
    BY <1>3
  <2>3. Cardinality(Holding(files', C \cup {T}, Values)) =
            Cardinality(Holding(files, C, Values)) + Len(Merged)
    BY <1>6, <1>14, <2>1, <2>2, HoldingAdd, InAll
  <2>4. nextBytes = RecordBytes * Cardinality(Holding(files, C, Values))
    BY <1>2 DEF Inv, Account, C
  <2> DEFINE card == Cardinality(Holding(files, C, Values))
             len == Len(Merged)
  <2>5. card \in Nat /\ len \in Nat
    BY <1>10, <1>14
  <2>6. nextBytes' = RecordBytes * Cardinality(Holding(files', C \cup {T}, Values))
    <3> HIDE DEF card, len
    <3>1. RecordBytes * (card + len) = RecordBytes * card + RecordBytes * len
      BY <2>5, Constants
    <3>2. nextBytes' = RecordBytes * card + RecordBytes * len
      BY <1>1, <1>10, <2>4 DEF card, len
    <3> QED
      BY <2>3, <3>1, <3>2 DEF card, len
  <2>7. scratchUsed' = RecordBytes * Cardinality(Holding(files', Working \cup {T}, Values))
    BY <1>1, <1>6
  <2> QED
    BY <1>1, <1>6, <1>9, <2>6, <2>7 DEF Account, Bytes
<1>18. Counted'
  <2> SUFFICES ASSUME NEW V \in SUBSET Values
               PROVE  Cardinality(Holding(files', Live', V)) + Cardinality(In(chunk', V)) =
                        Cardinality(In(taken', V))
    BY <1>1 DEF Counted
  <2>1. /\ Holding(files', A \cup C, V) = Holding(files, A \cup C, V)
    BY <1>3, <1>6, <1>8, HoldingSame
  <2>2. T \notin A \cup C
    BY <1>3, <1>8
  <2>3. Cardinality(Holding(files', Live', V)) =
            Cardinality(Holding(files, A \cup C, V)) + Cardinality(In(Merged, V))
    <3> DEFINE names == A \cup C
    <3>1. Live' = names \cup {T}
      BY <1>9
    <3>2. /\ IsFiniteSet(Holding(files', names, V)) /\ T \notin names
          /\ files'[T] \in Seq(Values) /\ files'[T] = Merged
      BY <1>6, <1>14, <2>1, <2>2
    <3> HIDE DEF names
    <3>3. Cardinality(Holding(files', names \cup {T}, V)) =
            Cardinality(Holding(files', names, V)) + Cardinality(In(files'[T], V))
      BY <3>2, HoldingAdd
    <3> QED
      BY <2>1, <3>1, <3>2, <3>3 DEF names
  <2>4. A \cap C = {} /\ (A \cup C) \cap B = {}
    BY <1>3, <1>8
  <2>5. Cardinality(Holding(files, (A \cup C) \cup B, V)) =
            Cardinality(Holding(files, A \cup C, V)) + Cardinality(Holding(files, B, V))
    BY <1>14, <2>4, HoldingUnion
  <2>6. Live = (A \cup C) \cup B
    BY <1>8 DEF Live, C
  <2>7. Cardinality(Holding(files, Live, V)) + Cardinality(In(chunk, V)) =
            Cardinality(In(taken, V))
    BY <1>1 DEF Inv, Counted
  <2>8. Cardinality(In(Merged, V)) = Cardinality(Holding(files, B, V))
    BY <1>6
  <2> QED
    BY <1>1, <2>3, <2>5, <2>6, <2>7, <2>8
<1> QED
  BY <1>1, <1>11, <1>12, <1>13, <1>16, <1>17, <1>18 DEF Inv, Merging

\* A part of the files of this call is no more than all of them.
LEMMA PartOfScratch ==
    ASSUME Inv, Busy, NEW names \in SUBSET Own, NEW f, \A n \in names : f[n] = files[n]
    PROVE  /\ Holding(f, names, Values) = Holding(files, names, Values)
           /\ RecordBytes * Cardinality(Holding(f, names, Values)) <= Total
<1>1. Holding(f, names, Values) = Holding(files, names, Values)
  BY HoldingSame
<1>2. Holding(files, names, Values) \in SUBSET Holding(files, Own, Values)
  BY DEF Holding
<1> DEFINE part == Cardinality(Holding(files, names, Values))
           all == Cardinality(Holding(files, Own, Values))
<1>3. part <= all /\ part \in Nat /\ all \in Nat
  BY <1>2, OwnFinite, FS_Subset, FS_CardinalityType
<1>4. RecordBytes * all <= Total
  BY DEF Inv, Account
<1> HIDE DEF part, all
<1>5. RecordBytes * part <= RecordBytes * all /\ RecordBytes * part \in Nat /\ RecordBytes * all \in Nat
  BY <1>3, Constants
<1>6. RecordBytes * part <= Total
  BY <1>4, <1>5, Constants
<1> QED
  BY <1>1, <1>6 DEF part

LEMMA EndPassInv == ASSUME Inv, EndPass PROVE Inv'
<1> DEFINE C == RunsOf(pass + 1, group)
           old == RunsOf(pass, runCount)
<1>1. /\ pc = "merging" /\ pc' = "merging" /\ ~LastMerge /\ group = NextCount
      /\ files' = Without(old)
      /\ scratchUsed' = nextBytes
      /\ runCount' = NextCount /\ pass' = pass + 1 /\ group' = 0 /\ nextBytes' = 0
      /\ UNCHANGED <<status, taken, chunk, others, heap, quota>>
  BY DEF EndPass, PassDone
<1>2. Busy /\ Busy'
  BY <1>1 DEF Busy
<1>3. /\ C \subseteq Working /\ old \subseteq Working /\ old \cap C = {}
      /\ pass \in Nat /\ runCount \in Nat /\ group \in Nat
  BY <1>1, MergeNames
<1>4. Own = Working /\ Working = old \cup C
  BY <1>1 DEF Inv, Placed, Working
<1>5. DOMAIN files' = DOMAIN files \ old /\ \A n \in DOMAIN files \ old : files'[n] = files[n]
  BY <1>1, Removed
<1>6. pass + 1 \in Nat /\ (pass + 1) + 1 \in Nat
  BY <1>3
<1>7. RunsOf((pass + 1) + 1, 0) = {}
  BY <1>6, RunNames
<1>8. Working' = C /\ RunsOf(pass + 1, group)' = {}
  BY <1>1, <1>7 DEF Working
<1>9. Live' = C
  <2>1. {k \in 0..(group - 1) : k >= 0 * FanIn} = 0..(group - 1)
    BY <1>3, Constants
  <2>2. Rest(0)' = C
    BY <1>1, <2>1 DEF Rest, RunsOf
  <2> QED
    BY <1>1, <1>8, <2>2 DEF Live
<1>10. Live = C
  <2>1. runCount <= group * FanIn /\ group * FanIn \in Nat
    BY <1>1, <1>3, PassSize, Constants
  <2>2. {k \in 0..(runCount - 1) : k >= group * FanIn} = {}
    <3> DEFINE b == group * FanIn
    <3> HIDE DEF b
    <3>1. runCount <= b /\ b \in Nat
      BY <2>1 DEF b
    <3>2. {k \in 0..(runCount - 1) : k >= b} = {}
      BY <1>3, <3>1
    <3> QED
      BY <3>2 DEF b
  <2> QED
    BY <2>2 DEF Live, Rest
<1> HIDE DEF C, old
<1>11. Own' = C
  BY <1>1, <1>3, <1>4, <1>5 DEF Own
<1>12. \A n \in C : files'[n] = files[n] /\ n \in Own
  BY <1>3, <1>4, <1>5 DEF Own
<1>13. Typed'
  BY <1>1, <1>3, <1>6, <1>11, <1>12 DEF Inv, Typed
<1>14. NextCount' \in Nat
  BY <1>1, <1>3, NextCountType
<1>15. Counters'
  BY <1>1, <1>14 DEF Inv, Counters
<1>16. Placed'
  <2>1. \A n \in DOMAIN others' : Exists(n)' /\ files'[n] = others'[n]
    BY <1>1, <1>4, <1>5 DEF Inv, Placed, Exists, Own
  <2>2. Output \notin DOMAIN others'
    BY <1>1, <1>2 DEF Inv, Placed
  <2> QED
    BY <1>1, <1>8, <1>11, <2>1, <2>2 DEF Placed
<1>17. RunsFine'
  BY <1>2, <1>3, <1>8, <1>12 DEF Inv, RunsFine
<1>18. \A V : Holding(files', C, V) = Holding(files, C, V)
  BY <1>12, HoldingSame
<1>19. Account'
  <2>1. RecordBytes * Cardinality(Holding(files', C, Values)) <= Total
    BY <1>2, <1>12, PartOfScratch
  <2>2. scratchUsed' = RecordBytes * Cardinality(Holding(files', C, Values))
    BY <1>1, <1>2, <1>18 DEF Inv, Account, C
  <2>3. nextBytes' = RecordBytes * Cardinality(Holding(files', {}, Values))
    <3>1. Cardinality(Holding(files', {}, Values)) = 0
      BY HoldingNone
    <3> QED
      BY <1>1, <3>1, Constants
  <2>4. \A n \in C : Bytes(files'[n]) <= PerFile
    BY <1>12 DEF Inv, Account, Bytes
  <2> QED
    BY <1>1, <1>8, <1>11, <2>1, <2>2, <2>3, <2>4 DEF Account, Bytes
<1>20. Counted'
  BY <1>1, <1>9, <1>10, <1>18 DEF Inv, Counted
<1> QED
  BY <1>1, <1>13, <1>15, <1>16, <1>17, <1>19, <1>20 DEF Inv, Merging

\* The last merge is of every run there is.
LEMMA LastInputs ==
    ASSUME Inv, pc \in {"merging", "copying", "published"}, LastMerge
    PROVE  /\ Target = Output /\ group = 0
           /\ Working = RunsOf(pass, runCount) /\ Live = InputNames
<1>1. group = 0 /\ runCount \in Nat /\ pass + 1 \in Nat
  BY DEF Inv, Counters, Typed
<1>2. RunsOf(pass + 1, 0) = {}
  BY <1>1, RunNames
<1>3. {k \in 0..(runCount - 1) : k >= 0 * FanIn} = 0..(runCount - 1)
  BY <1>1, Constants
<1>4. Rest(0) = InputNames
  BY <1>3 DEF Rest, InputNames, Inputs
<1> QED
  BY <1>1, <1>2, <1>4 DEF Target, Working, Live

LEMMA EndLastMergeInv == ASSUME Inv, EndLastMerge PROVE Inv'
<1>1. /\ pc = "copying" /\ heap = {} /\ LastMerge /\ pc' = "published"
      /\ files' = Renamed /\ others' = others
      /\ UNCHANGED <<status, taken, chunk, pass, runCount, group, scratchUsed, nextBytes,
                     heap, quota>>
  BY DEF EndLastMerge
<1>2. Busy /\ Busy'
  BY <1>1 DEF Busy
<1>3. Target = Output /\ group = 0 /\ Live = InputNames
  BY <1>1, LastInputs
<1>4. /\ Own' = Working \cup {Output} /\ Output \notin DOMAIN others
      /\ files'[Output] = Merged
      /\ \A n \in Working : files'[n] = files[n] /\ files[n] \in Seq(Values)
      /\ \A n \in DOMAIN others : n \in DOMAIN files' /\ files'[n] = others'[n]
      /\ Merged \in Seq(Values) /\ Ascending(Merged)
      /\ \A V \in SUBSET Values :
            Cardinality(In(Merged, V)) = Cardinality(Holding(files, InputNames, V))
      /\ RecordBytes * Cardinality(Holding(files', Working \cup {Output}, Values)) <= Total
      /\ \A n \in Working \cup {Output} : Bytes(files'[n]) <= PerFile
  BY <1>1, <1>3, MergeDone
<1>5. /\ Working' = Working /\ LastMerge' = LastMerge
      /\ RunsOf(pass + 1, group)' = RunsOf(pass + 1, group)
  BY <1>1 DEF Working, LastMerge
<1>6. RunsOf(pass + 1, group) \subseteq Working
  BY <1>1, MergeNames
<1>7. Typed'
  BY <1>1, <1>4 DEF Inv, Typed
<1>8. Counters'
  BY <1>1, <1>3, <1>5 DEF Inv, Counters
<1>9. Placed'
  BY <1>1, <1>4, <1>5 DEF Placed, Exists
<1>10. RunsFine'
  BY <1>2, <1>4, <1>5 DEF Inv, RunsFine
<1>11. Account'
  <2>1. /\ Holding(files', Working, Values) = Holding(files, Working, Values)
        /\ Holding(files', RunsOf(pass + 1, group), Values) =
                Holding(files, RunsOf(pass + 1, group), Values)
    BY <1>4, <1>6, HoldingSame
  <2>2. /\ scratchUsed' = RecordBytes * Cardinality(Holding(files', Working', Values))
        /\ nextBytes' = RecordBytes * Cardinality(Holding(files', RunsOf(pass + 1, group)', Values))
        /\ scratchUsed' <= Total
    BY <1>1, <1>2, <1>5, <2>1 DEF Inv, Account
  <2> QED
    BY <1>1, <1>4, <2>2 DEF Account, Bytes
<1>12. Counted'
  <2> SUFFICES ASSUME NEW V \in SUBSET Values
               PROVE  Cardinality(In(Merged, V)) = Cardinality(In(taken, V))
    BY <1>1, <1>4 DEF Counted
  <2>1. Cardinality(Holding(files, Live, V)) + Cardinality(In(chunk, V)) =
            Cardinality(In(taken, V))
    BY <1>1 DEF Inv, Counted
  <2>2. chunk = << >>
    BY <1>1 DEF Inv, Counters
  <2>3. Cardinality(Holding(files, Live, V)) \in Nat /\ Cardinality(In(chunk, V)) = 0
    BY <1>2, <2>2, LiveFinite, InEmpty
  <2> QED
    BY <1>3, <1>4, <2>1, <2>3
<1> QED
  BY <1>1, <1>7, <1>8, <1>9, <1>10, <1>11, <1>12 DEF Inv, Merging

LEMMA RemoveRunsInv == ASSUME Inv, RemoveRuns PROVE Inv'
<1> DEFINE old == RunsOf(pass, runCount)
           rest == Without(old)
<1>1. pc = "published" /\ Return("ok", rest) /\ Busy
  BY DEF RemoveRuns, Busy
<1>2. LastMerge
  BY <1>1 DEF Inv, Counters
<1>3. Target = Output /\ Working = old
  BY <1>1, <1>2, LastInputs
<1>4. Target \notin Working
  BY <1>1, MergeNames
<1>5. Own = old \cup {Output} /\ Output \notin old /\ Output \in Own
  BY <1>1, <1>3, <1>4 DEF Inv, Placed
<1>6. DOMAIN rest = DOMAIN files \ old /\ \A n \in DOMAIN files \ old : rest[n] = files[n]
  BY Removed
<1> HIDE DEF rest, old
<1>7. DOMAIN rest \ DOMAIN others = {Output} /\ rest[Output] = files[Output]
  BY <1>5, <1>6 DEF Own
<1>8. \A n \in DOMAIN others : n \in DOMAIN rest /\ rest[n] = files[n]
  BY <1>5, <1>6 DEF Inv, Placed, Exists, Own
<1>9. files[Output] \in Seq(Values) /\ Bytes(files[Output]) <= PerFile
  BY <1>5 DEF Inv, Typed, Account
<1>10. RecordBytes * Cardinality(Holding(rest, {Output}, Values)) <= Total
  BY <1>1, <1>5, <1>7, PartOfScratch
<1> QED
  BY <1>1, <1>7, <1>8, <1>9, <1>10, ReturnStep

LEMMA MergeRefusedInv == ASSUME Inv, MergeRefused PROVE Inv'
<1>1. pc = "merging" /\ Return("error", Without(PassLeftovers))
  BY DEF MergeRefused
<1>2. Own = PassLeftovers
  BY <1>1 DEF Inv, Placed, Working, PassLeftovers
<1>3. PassLeftovers \cap DOMAIN others = {}
  BY <1>2 DEF Own
<1> QED
  BY <1>1, <1>2, <1>3, CleanReturn

LEMMA MergeFailsInv == ASSUME Inv, MergeFails PROVE Inv'
<1> DEFINE names == PassLeftovers \cup {Partial(Target)}
<1>1. pc = "copying" /\ Return("error", Without(names))
  BY DEF MergeFails
<1>2. Own = names
  BY <1>1 DEF Inv, Placed, Working, PassLeftovers
<1>3. names \cap DOMAIN others = {}
  BY <1>2 DEF Own
<1> QED
  BY <1>1, <1>2, <1>3, CleanReturn

LEMMA DieInv == ASSUME Inv, Die PROVE Inv'
<1>1. /\ pc' = "dead"
      /\ UNCHANGED <<status, taken, chunk, files, others, pass, runCount, group,
                     scratchUsed, nextBytes, heap, quota>>
  BY DEF Die
<1>2. Own' = Own
  BY <1>1 DEF Own
<1> QED
  BY <1>1, <1>2 DEF Inv, Typed, Counters, Placed, RunsFine, Account, Merging, Counted, Busy,
                    Exists, Bytes

LEMMA StutterInv == ASSUME Inv, UNCHANGED vars PROVE Inv'
<1>1. /\ UNCHANGED <<pc, status, taken, chunk, files, others, pass, runCount, group,
                     scratchUsed, nextBytes, heap, quota>>
  BY DEF vars
<1>2. /\ Own' = Own /\ Working' = Working /\ Live' = Live /\ Inputs' = Inputs
      /\ Target' = Target /\ InputNames' = InputNames /\ LastMerge' = LastMerge
      /\ NextCount' = NextCount /\ QuotaLeft' = QuotaLeft /\ Busy' = Busy
      /\ RunsOf(pass + 1, group)' = RunsOf(pass + 1, group)
      /\ \A r : Content(r)' = Content(r)
  BY <1>1 DEF Own, Working, Live, Rest, Inputs, Target, InputNames, LastMerge, NextCount,
              QuotaLeft, Least, Busy, Content
<1>3. Merged' = Merged /\ \A V : Pending(V)' = Pending(V)
  BY <1>1, <1>2 DEF Merged, Pending
<1>4. Typed' /\ Counters' /\ RunsFine' /\ Counted'
  BY <1>1, <1>2 DEF Inv, Typed, Counters, RunsFine, Counted
<1>5. Placed'
  BY <1>1, <1>2 DEF Inv, Placed, Exists
<1>6. Account'
  BY <1>1, <1>2, <1>3 DEF Inv, Account, Bytes
<1>7. Merging'
  BY <1>1, <1>2, <1>3 DEF Inv, Merging
<1> QED
  BY <1>4, <1>5, <1>6, <1>7 DEF Inv

LEMMA NextInv == ASSUME Inv, [Next]_vars PROVE Inv'
<1>1. CASE Start BY <1>1, StartInv
<1>2. CASE StartRefused BY <1>2, StartRefusedInv
<1>3. CASE \E v \in Values : Read(v) BY <1>3, ReadInv
<1>4. CASE ReadEnd BY <1>4, ReadEndInv
<1>5. CASE SourceFails BY <1>5, SourceFailsInv
<1>6. CASE WriteRun BY <1>6, WriteRunInv
<1>7. CASE WriteRunFails BY <1>7, WriteRunFailsInv
<1>8. CASE OpenRunFails BY <1>8, OpenRunFailsInv
<1>9. CASE WriteEmpty BY <1>9, WriteEmptyInv
<1>10. CASE WriteEmptyFails BY <1>10, WriteEmptyFailsInv
<1>11. CASE StartMerge BY <1>11, StartMergeInv
<1>12. CASE MergeRecord BY <1>12, MergeRecordInv
<1>13. CASE EndMerge BY <1>13, EndMergeInv
<1>14. CASE EndPass BY <1>14, EndPassInv
<1>15. CASE EndLastMerge BY <1>15, EndLastMergeInv
<1>16. CASE RemoveRuns BY <1>16, RemoveRunsInv
<1>17. CASE MergeRefused BY <1>17, MergeRefusedInv
<1>18. CASE MergeFails BY <1>18, MergeFailsInv
<1>19. CASE Die BY <1>19, DieInv
<1>20. CASE Over \/ UNCHANGED vars BY <1>20, StutterInv DEF Over
<1> QED
  BY <1>1, <1>2, <1>3, <1>4, <1>5, <1>6, <1>7, <1>8, <1>9, <1>10, <1>11, <1>12, <1>13, <1>14,
     <1>15, <1>16, <1>17, <1>18, <1>19, <1>20 DEF Next

-----------------------------------------------------------------------------
(* What follows *)

\* The invariant the next three theorems rest on: where every file is, what it holds
\* and how the account adds up, at every step of the call.
THEOREM CallInvariant == Spec => []Inv
<1>1. Init => Inv
  BY InitInv
<1>2. Inv /\ [Next]_vars => Inv'
  BY NextInv
<1> QED
  BY <1>1, <1>2, PTL DEF Spec

\* Whatever the values and the quotas, the files of a call never outgrow its quotas:
\* the account of src/src/external_sort.c counts a pass's outputs while the runs they
\* replace are still on disk.
THEOREM ScratchStaysBounded == Spec => []ScratchBounded
<1>1. Inv => ScratchBounded
  <2> SUFFICES ASSUME Inv PROVE ScratchBounded
    OBVIOUS
  <2>1. \A n \in Own : In(files[n], Values) = 1..Len(files[n])
    BY DEF Inv, Typed, In
  <2>2. Stored(Own) = Holding(files, Own, Values)
    BY <2>1 DEF Stored, Holding
  <2> QED
    BY <2>2 DEF Inv, Account, ScratchBounded
<1> QED
  BY <1>1, CallInvariant, PTL

\* However a call ends, only its output is left of it, and that only when it succeeds.
THEOREM CallLeavesOutputOnly == Spec => []OnlyOutputLeft
<1>1. Inv => OnlyOutputLeft
  BY DEF Inv, Placed, OnlyOutputLeft
<1> QED
  BY <1>1, CallInvariant, PTL

-----------------------------------------------------------------------------
(* The promise *)

\* What the promise calls its output and whether the call is still at work.
Published == IF Exists(Output) /\ Output \in Own THEN files[Output] ELSE NoOutput
AtWork == pc \notin {"published", "returned", "dead"}

\* Until the last merge is renamed there is no output.
LEMMA NothingPublished ==
    ASSUME Inv, AtWork
    PROVE  Published = NoOutput /\ Output \notin Own
<1>1. Output \notin Own
  <2>1. CASE pc = "start"
    BY <2>1 DEF Inv, Placed
  <2>2. CASE pc \in {"reading", "merging", "copying"}
    <3>1. Output \notin RunsOf(pass, runCount) /\ Output \notin RunsOf(pass + 1, group)
      <4>1. pass \in Nat /\ pass + 1 \in Nat /\ runCount \in Nat /\ group \in Nat
        BY DEF Inv, Typed
      <4> QED
        BY <4>1, RunNames
    <3>2. pc = "copying" => Partial(Target) # Output
      BY MergeNames
    <3> QED
      BY <2>2, <3>1, <3>2 DEF Inv, Placed, Working
  <2> QED
    BY <2>1, <2>2 DEF AtWork, Inv, Typed
<1> QED
  BY <1>1 DEF Published

\* The same of the state behind a step.
LEMMA NothingPublishedNext == (Inv /\ AtWork => Published = NoOutput)'
<1>1. Inv /\ AtWork => Published = NoOutput
  BY NothingPublished
<1> QED
  BY <1>1, PTL

\* As many places hold one value as places hold values of its set.
LEMMA PlacesOf == ASSUME NEW v, NEW s PROVE Promise!Occurrences(v, s) = Cardinality(In(s, {v}))
<1>1. {i \in 1..Len(s) : s[i] = v} = In(s, {v})
  BY DEF In
<1> QED
  BY <1>1 DEF Promise!Occurrences, Promise!Cardinality, Cardinality

\* A file in order with every value as often as it was taken sorts what was taken.
LEMMA SortsAll ==
    ASSUME NEW s \in Seq(Values), NEW t \in Seq(Values), Ascending(s),
           \A V \in SUBSET Values : Cardinality(In(s, V)) = Cardinality(In(t, V))
    PROVE  Promise!Sorts(s, t) /\ s # NoOutput
<1>1. \A v \in Values : Promise!Occurrences(v, s) = Promise!Occurrences(v, t)
  BY PlacesOf
<1>2. Len(s) = Len(t)
  BY InAll
<1>3. s # NoOutput
  BY SortAssumption
<1> QED
  BY <1>1, <1>2, <1>3 DEF Promise!Sorts, Ascending

\* A return that is no success leaves no output.
LEMMA ReturnGivesUp ==
    ASSUME Inv, Inv', AtWork, NEW s \in {"error", "memory"}, NEW rest, Return(s, rest)
    PROVE  Promise!GiveUp
<1>1. pc' = "returned" /\ status' = s /\ taken' = taken
  BY DEF Return
<1>2. Own' \subseteq CASE s = "ok" -> {Output}
                       [] s = "memory" -> {n \in Own' : files'[n] = << >> /\ n.pass = 0}
                       [] OTHER -> {}
  BY <1>1 DEF Inv, Placed
<1>3. Output.pass = -1
  BY Names DEF Output
<1>4. Output \notin Own'
  <2>1. CASE s = "error"
    BY <1>2, <2>1
  <2>2. CASE s = "memory"
    BY <1>2, <1>3, <2>2
  <2> QED
    BY <2>1, <2>2
<1>5. Published' = NoOutput /\ Published = NoOutput
  BY <1>4, NothingPublished DEF Published
<1> QED
  BY <1>1, <1>5 DEF Promise!GiveUp, Published, AtWork

\* A step that is still at work behind it shows nothing new, unless it takes a value.
LEMMA WorkHidden ==
    ASSUME Inv, Inv', AtWork, AtWork', taken' = taken
    PROVE  UNCHANGED <<taken, Published, AtWork>>
  BY NothingPublished, NothingPublishedNext

\* Every step of a call is one of the promise, or none it can see.
LEMMA StepKeepsPromise ==
    ASSUME Inv, Inv', [Next]_vars
    PROVE  [Promise!Next]_<<taken, Published, AtWork>>
<1>1. CASE Start
  <2>1. AtWork /\ AtWork' /\ taken' = taken
    BY <1>1 DEF Start, AtWork
  <2> QED
    BY <2>1, WorkHidden
<1>2. CASE StartRefused
  BY <1>2, ReturnGivesUp DEF StartRefused, AtWork, Promise!Next
<1>3. CASE \E v \in Values : Read(v)
  <2>1. PICK v \in Values : Read(v)
    BY <1>3
  <2>2. AtWork /\ AtWork' /\ taken' = Append(taken, v)
    BY <2>1 DEF Read, AtWork
  <2>3. Published' = Published
    BY <2>2, NothingPublished, NothingPublishedNext
  <2> QED
    BY <2>2, <2>3 DEF Promise!Next, Promise!Take, AtWork, Published
<1>4. CASE ReadEnd \/ WriteRun \/ StartMerge \/ MergeRecord \/ EndMerge \/ EndPass
  <2>1. AtWork /\ AtWork' /\ taken' = taken
    BY <1>4 DEF ReadEnd, WriteRun, ChunkReady, StartMerge, MergeRecord, EndMerge, EndPass, AtWork
  <2> QED
    BY <2>1, WorkHidden
<1>5. CASE SourceFails \/ WriteRunFails \/ WriteEmptyFails \/ MergeRefused \/ MergeFails
  <2>1. AtWork /\ \E rest : Return("error", rest)
    BY <1>5 DEF SourceFails, WriteRunFails, ChunkReady, FailInitial, WriteEmptyFails,
                MergeRefused, MergeFails, AtWork
  <2> QED
    BY <2>1, ReturnGivesUp DEF Promise!Next
<1>6. CASE OpenRunFails
  <2>1. AtWork /\ \E rest : Return("memory", rest)
    BY <1>6 DEF OpenRunFails, ChunkReady, AtWork
  <2> QED
    BY <2>1, ReturnGivesUp DEF Promise!Next
<1>7. CASE WriteEmpty
  <2>1. /\ pc = "merging" /\ runCount = 0 /\ AtWork
        /\ pc' = "returned" /\ taken' = taken /\ others' = others
        /\ files' = With(Output, << >>)
    BY <1>7 DEF WriteEmpty, Return, AtWork
  <2>2. Live = {} /\ chunk = << >> /\ Output \notin DOMAIN others
    BY <2>1, NothingToMerge DEF Inv, Counters, Placed, Busy
  <2>3. taken \in Seq(Values) /\ Cardinality(In(taken, Values)) = 0
    <3>1. Cardinality(Holding(files, {}, Values)) + Cardinality(In(<< >>, Values)) =
            Cardinality(In(taken, Values))
      BY <2>1, <2>2 DEF Inv, Counted
    <3>2. Cardinality(Holding(files, {}, Values)) = 0 /\ Cardinality(In(<< >>, Values)) = 0
      BY HoldingNone, InEmpty
    <3> QED
      BY <3>1, <3>2 DEF Inv, Typed
  <2>4. taken = << >>
    <3>1. Len(taken) = 0
      BY <2>3, InAll
    <3> QED
      BY <2>3, <3>1
  <2>5. Output \in DOMAIN files' /\ files'[Output] = << >>
    BY <2>1 DEF With
  <2>6. Published' = << >>
    BY <2>1, <2>2, <2>5 DEF Published, Exists, Own
  <2>7. Promise!Sorts(<< >>, taken) /\ << >> # NoOutput
    <3>1. Ascending(taken)
      BY <2>4 DEF Ascending
    <3>2. Promise!Sorts(taken, taken) /\ taken # NoOutput
      BY <2>3, <3>1, SortsAll
    <3> QED
      BY <2>4, <3>2
  <2> QED
    BY <2>1, <2>6, <2>7 DEF Promise!Next, Promise!Publish, AtWork, Published
<1>8. CASE EndLastMerge
  <2>1. pc = "copying" /\ pc' = "published" /\ taken' = taken /\ AtWork
    BY <1>8 DEF EndLastMerge, AtWork
  <2>2. /\ Output \in Own' /\ files'[Output] \in Seq(Values) /\ taken' \in Seq(Values)
        /\ Ascending(files'[Output])
        /\ \A V \in SUBSET Values : Cardinality(In(files'[Output], V)) = Cardinality(In(taken', V))
    BY <2>1 DEF Inv, Placed, Typed, Counted
  <2>3. Promise!Sorts(files'[Output], taken) /\ files'[Output] # NoOutput
    BY <2>1, <2>2, SortsAll
  <2>4. Published' = files'[Output]
    BY <2>2 DEF Published, Own, Exists
  <2> QED
    BY <2>1, <2>3, <2>4 DEF Promise!Next, Promise!Publish, AtWork, Published
<1>9. CASE RemoveRuns
  <2>1. /\ pc = "published" /\ pc' = "returned" /\ taken' = taken /\ others' = others
        /\ files' = Without(RunsOf(pass, runCount))
    BY <1>9 DEF RemoveRuns, Return
  <2>2. Output \notin RunsOf(pass, runCount)
    BY RunNames DEF Inv, Typed
  <2>3. /\ Output \in DOMAIN files' <=> Output \in DOMAIN files
        /\ Output \in DOMAIN files => files'[Output] = files[Output]
    BY <2>1, <2>2, Removed
  <2>4. Published' = Published /\ AtWork' = AtWork
    BY <2>1, <2>3 DEF Published, Own, Exists, AtWork
  <2> QED
    BY <2>1, <2>4
<1>10. CASE Die
  <2>1. pc' = "dead" /\ taken' = taken /\ files' = files /\ others' = others
    BY <1>10 DEF Die
  <2>2. Published' = Published /\ ~AtWork'
    BY <2>1 DEF Published, Own, Exists, AtWork
  <2>3. CASE AtWork
    BY <2>1, <2>2, <2>3 DEF Promise!Next, Promise!GiveUp, AtWork, Published
  <2>4. CASE ~AtWork
    BY <2>1, <2>2, <2>4 DEF AtWork
  <2> QED
    BY <2>3, <2>4
<1>11. CASE Over \/ UNCHANGED vars
  BY <1>11 DEF Over, vars, Published, Own, Exists, AtWork
<1> QED
  BY <1>1, <1>2, <1>3, <1>4, <1>5, <1>6, <1>7, <1>8, <1>9, <1>10, <1>11 DEF Next

\* The call implements the promise of SortedOutput for every source, capacity, fan-in
\* and quota: the output path names nothing, or every value taken in ascending order,
\* and a failure or a death at any record changes none of that.
THEOREM CallKeepsPromise == Spec => ImplementsSort
<1>1. Init => Promise!Init
  <2> SUFFICES ASSUME Init PROVE Promise!Init
    OBVIOUS
  <2>1. Inv /\ AtWork /\ taken = << >>
    BY InitInv DEF Init, AtWork
  <2>2. Published = NoOutput
    BY <2>1, NothingPublished
  <2> QED
    BY <2>1, <2>2 DEF Promise!Init, Published, AtWork
<1>2. Inv /\ Inv' /\ [Next]_vars => [Promise!Next]_<<taken, Published, AtWork>>
  BY StepKeepsPromise
<1>3. <<taken, Published, AtWork>> =
        <<taken, IF Exists(Output) /\ Output \in Own THEN files[Output] ELSE NoOutput,
          pc \notin {"published", "returned", "dead"}>>
  BY DEF Published, AtWork
<1>4. Inv /\ Inv' /\ [Next]_vars =>
        [Promise!Next]_<<taken, IF Exists(Output) /\ Output \in Own THEN files[Output] ELSE NoOutput,
                         pc \notin {"published", "returned", "dead"}>>
  BY <1>2 DEF Published, AtWork
<1> QED
  BY <1>1, <1>4, CallInvariant, PTL DEF Spec, ImplementsSort, Promise!Spec

=============================================================================
