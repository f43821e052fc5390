----------------------- MODULE GroupedAggregateProofs -----------------------
(***************************************************************************)
(* Proofs about GroupedAggregate, for every set of keys, observations, map *)
(* and batch sizes, quota and files left by others: the state is well      *)
(* typed, the runs stay within two quotas, none of them outlives finalize  *)
(* and no file of another process is touched.  When the closed spill reads *)
(* back as it was written, the reducer implements GroupBy: the rows of a   *)
(* key are followed from the map through the spill, the batch, the runs    *)
(* and the passes to the visitor, as amounts no step creates or loses.     *)
(***************************************************************************)
EXTENDS GroupedAggregate, FiniteSetTheorems, LeastElements

\* What is assumed of the constants, one by one.
LEMMA Constants ==
    /\ MaxCount \in Nat /\ MaxCount > 0 /\ MaxInt \in Nat
    /\ IsFiniteSet(Keys) /\ Keys \subseteq Nat
    /\ \A k \in Keys : \A o \in Observations[k] :
        /\ o.type \in {"int", "float", "null", "invalid"}
        /\ o.type = "int" => o.value \in Int64
    /\ \A k \in Keys : RecordBytes[k] \in Nat
    /\ GroupCapacity \in Nat /\ GroupCapacity > 0
    /\ BatchCapacity \in Nat /\ BatchCapacity > 1
    /\ Quota \in Nat /\ MaxRows \in Nat
  BY AggregateAssumption, ReducerAssumption

-----------------------------------------------------------------------------
(* Aggregate states *)

Outcomes == States \cup {Refused}

\* The empty state is a state.
LEMMA NewStateType == NewState \in States
  BY Constants DEF NewState, States, Kinds, Int64, Observed

\* The observations of a state are counted by a natural.
LEMMA StateParts ==
    ASSUME NEW s \in States
    PROVE  /\ s.count \in Nat /\ s.nulls \in Nat /\ s.invalid \in Nat
           /\ s.kind \in Kinds /\ s.sum \in Int64 /\ s.sum \in Int
           /\ s = [count |-> s.count, nulls |-> s.nulls, invalid |-> s.invalid,
                   kind |-> s.kind, sum |-> s.sum]
           /\ s.count + s.nulls + s.invalid <= MaxCount
           /\ (s.kind = "none") <=> (s.count = 0)
           /\ s.kind # "int" => s.sum = 0
  BY Constants DEF States, Int64, Observed

\* Fields that fit make a state.
LEMMA StateOf ==
    ASSUME NEW c \in Nat, NEW n \in Nat, NEW i \in Nat, NEW kind \in Kinds, NEW sum \in Int64,
           c + n + i <= MaxCount, (kind = "none") <=> (c = 0), kind # "int" => sum = 0
    PROVE  [count |-> c, nulls |-> n, invalid |-> i, kind |-> kind, sum |-> sum] \in States
  BY DEF States, Observed

\* Two states combine to a state, or are refused.
LEMMA MergeType ==
    ASSUME NEW s \in States, NEW t \in States
    PROVE  Merge(s, t) \in Outcomes
<1> DEFINE kind == IF s.count = 0 THEN t.kind ELSE s.kind
<1>1. CASE \/ s.count # 0 /\ t.count # 0 /\ s.kind # t.kind
           \/ Observed(s) + Observed(t) > MaxCount
           \/ s.sum + t.sum \notin Int64
  BY <1>1 DEF Merge, Outcomes
<1>2. CASE /\ ~(s.count # 0 /\ t.count # 0 /\ s.kind # t.kind)
           /\ ~(Observed(s) + Observed(t) > MaxCount)
           /\ s.sum + t.sum \in Int64
  <2>1. /\ s.count + t.count \in Nat /\ s.nulls + t.nulls \in Nat
        /\ s.invalid + t.invalid \in Nat /\ kind \in Kinds
    BY StateParts
  <2>2. (s.count + t.count) + (s.nulls + t.nulls) + (s.invalid + t.invalid) <= MaxCount
    BY <1>2, StateParts, Constants DEF Observed
  <2>3. (kind = "none") <=> (s.count + t.count = 0)
    BY <1>2, StateParts
  <2>4. kind # "int" => s.sum + t.sum = 0
    BY <1>2, StateParts
  <2>5. Merge(s, t) = [count |-> s.count + t.count, nulls |-> s.nulls + t.nulls,
                       invalid |-> s.invalid + t.invalid, kind |-> kind,
                       sum |-> s.sum + t.sum]
    BY <1>2 DEF Merge
  <2> HIDE DEF kind
  <2> QED
    BY <1>2, <2>1, <2>2, <2>3, <2>4, <2>5, StateOf DEF Outcomes
<1> QED
  BY <1>1, <1>2

\* A state takes one more observation, or refuses it.
LEMMA ObserveType ==
    ASSUME NEW s \in States, NEW k \in Keys, NEW o \in Observations[k]
    PROVE  Observe(s, o) \in Outcomes
<1> USE DEF Outcomes
<1>1. /\ s.count \in Nat /\ s.nulls \in Nat /\ s.invalid \in Nat /\ MaxCount \in Nat
      /\ s.sum \in Int64
      /\ s.count + s.nulls + s.invalid <= MaxCount
      /\ (s.kind = "none") <=> (s.count = 0)
      /\ s.kind # "int" => s.sum = 0
      /\ s.kind \in Kinds
  BY StateParts, Constants
<1>2. s = [count |-> s.count, nulls |-> s.nulls, invalid |-> s.invalid,
           kind |-> s.kind, sum |-> s.sum]
  BY StateParts
<1>3. CASE o.type = "int"
  <2>1. Observe(s, o) = AddInt(s, o.value)
    BY <1>3 DEF Observe
  <2>2. CASE Observed(s) # MaxCount /\ s.sum + o.value \in Int64
             /\ ~(s.count # 0 /\ s.kind # "int")
    <3>1. AddInt(s, o.value) =
            [count |-> s.count + 1, nulls |-> s.nulls, invalid |-> s.invalid,
             kind |-> "int", sum |-> s.sum + o.value]
      BY <1>2, <2>2 DEF AddInt
    <3>2. s.count + 1 \in Nat /\ s.count + 1 # 0 /\ (s.count + 1) + s.nulls + s.invalid <= MaxCount
      BY <1>1, <2>2 DEF Observed
    <3>3. [count |-> s.count + 1, nulls |-> s.nulls, invalid |-> s.invalid,
           kind |-> "int", sum |-> s.sum + o.value] \in States
      BY <1>1, <2>2, <3>2, StateOf DEF Kinds
    <3> QED
      BY <2>1, <3>1, <3>3
  <2> QED
    BY <2>1, <2>2 DEF AddInt
<1>4. CASE o.type = "float"
  <2>1. Observe(s, o) = AddFloat(s)
    BY <1>4 DEF Observe
  <2>2. CASE Observed(s) # MaxCount /\ ~(s.count # 0 /\ s.kind # "float")
    <3>1. AddFloat(s) =
            [count |-> s.count + 1, nulls |-> s.nulls, invalid |-> s.invalid,
             kind |-> "float", sum |-> s.sum]
      BY <1>2, <2>2 DEF AddFloat
    <3>2. s.count + 1 \in Nat /\ s.count + 1 # 0 /\ (s.count + 1) + s.nulls + s.invalid <= MaxCount
      BY <1>1, <2>2 DEF Observed
    <3>3. s.kind # "int"
      BY <1>1, <2>2
    <3>4. [count |-> s.count + 1, nulls |-> s.nulls, invalid |-> s.invalid,
           kind |-> "float", sum |-> s.sum] \in States
      BY <1>1, <3>2, <3>3, StateOf DEF Kinds
    <3> QED
      BY <2>1, <3>1, <3>4
  <2> QED
    BY <2>1, <2>2 DEF AddFloat
<1>5. CASE o.type = "null"
  <2>1. Observe(s, o) = AddNull(s)
    BY <1>5 DEF Observe
  <2>2. CASE Observed(s) # MaxCount
    <3>1. AddNull(s) =
            [count |-> s.count, nulls |-> s.nulls + 1, invalid |-> s.invalid,
             kind |-> s.kind, sum |-> s.sum]
      BY <1>2, <2>2 DEF AddNull
    <3>2. s.nulls + 1 \in Nat /\ s.count + (s.nulls + 1) + s.invalid <= MaxCount
      BY <1>1, <2>2 DEF Observed
    <3>3. [count |-> s.count, nulls |-> s.nulls + 1, invalid |-> s.invalid,
           kind |-> s.kind, sum |-> s.sum] \in States
      BY <1>1, <3>2, StateOf
    <3> QED
      BY <2>1, <3>1, <3>3
  <2> QED
    BY <2>1, <2>2 DEF AddNull
<1>6. CASE o.type = "invalid"
  <2>1. Observe(s, o) = AddInvalid(s)
    BY <1>6 DEF Observe
  <2>2. CASE Observed(s) # MaxCount
    <3>1. AddInvalid(s) =
            [count |-> s.count, nulls |-> s.nulls, invalid |-> s.invalid + 1,
             kind |-> s.kind, sum |-> s.sum]
      BY <1>2, <2>2 DEF AddInvalid
    <3>2. s.invalid + 1 \in Nat /\ s.count + s.nulls + (s.invalid + 1) <= MaxCount
      BY <1>1, <2>2 DEF Observed
    <3>3. [count |-> s.count, nulls |-> s.nulls, invalid |-> s.invalid + 1,
           kind |-> s.kind, sum |-> s.sum] \in States
      BY <1>1, <3>2, StateOf
    <3> QED
      BY <2>1, <3>1, <3>3
  <2> QED
    BY <2>1, <2>2 DEF AddInvalid
<1> QED
  BY <1>3, <1>4, <1>5, <1>6, Constants

\* The empty state with another count and kind.
LEMMA Recounted ==
    ASSUME NEW c, NEW kind
    PROVE  [NewState EXCEPT !.count = c, !.kind = kind] =
            [count |-> c, nulls |-> 0, invalid |-> 0, kind |-> kind, sum |-> 0]
<1>1. [NewState EXCEPT !.count = c, !.kind = kind] =
        [[NewState EXCEPT !.count = c] EXCEPT !.kind = kind]
  OBVIOUS
<1>2. [NewState EXCEPT !.count = c] =
        [count |-> c, nulls |-> 0, invalid |-> 0, kind |-> "none", sum |-> 0]
  BY DEF NewState
<1>3. [[count |-> c, nulls |-> 0, invalid |-> 0, kind |-> "none", sum |-> 0] EXCEPT !.kind = kind] =
        [count |-> c, nulls |-> 0, invalid |-> 0, kind |-> kind, sum |-> 0]
  OBVIOUS
<1> QED
  BY <1>1, <1>2, <1>3

\* The empty state with a count of numbers and their sum.
LEMMA Resummed ==
    ASSUME NEW c, NEW sum
    PROVE  [NewState EXCEPT !.count = c, !.kind = "int", !.sum = sum] =
            [count |-> c, nulls |-> 0, invalid |-> 0, kind |-> "int", sum |-> sum]
<1>1. [NewState EXCEPT !.count = c, !.kind = "int", !.sum = sum] =
        [[NewState EXCEPT !.count = c, !.kind = "int"] EXCEPT !.sum = sum]
  OBVIOUS
<1>2. [[count |-> c, nulls |-> 0, invalid |-> 0, kind |-> "int", sum |-> 0] EXCEPT !.sum = sum] =
        [count |-> c, nulls |-> 0, invalid |-> 0, kind |-> "int", sum |-> sum]
  OBVIOUS
<1>3. [NewState EXCEPT !.count = c, !.kind = "int"] =
        [count |-> c, nulls |-> 0, invalid |-> 0, kind |-> "int", sum |-> 0]
  BY Recounted
<1> QED
  BY <1>1, <1>2, <1>3

\* The first observation of a group is never refused.
LEMMA FreshType ==
    ASSUME NEW k \in Keys, NEW o \in Observations[k]
    PROVE  Fresh(k, o) \in Records
<1>1. o.type \in {"int", "float", "null", "invalid"} /\ (o.type = "int" => o.value \in Int64)
  BY Constants
<1>2. Int64 \subseteq Int /\ Observed(NewState) # MaxCount
  BY Constants DEF Int64, Observed, NewState
<1>3. Observe(NewState, o) \in States
  <2>1. CASE o.type = "int"
    <3>1. o.value \in Int64 /\ o.value \in Int
      BY <1>1, <1>2, <2>1
    <3>2. NewState.sum + o.value = o.value /\ NewState.count = 0
      BY <3>1 DEF NewState
    <3>3. Observe(NewState, o) = [NewState EXCEPT !.count = @ + 1, !.kind = "int", !.sum = @ + o.value]
      BY <1>2, <2>1, <3>1, <3>2 DEF Observe, AddInt
    <3>4. NewState.count + 1 = 1
      BY DEF NewState
    <3>5. [NewState EXCEPT !.count = @ + 1, !.kind = "int", !.sum = @ + o.value] =
            [count |-> NewState.count + 1, nulls |-> 0, invalid |-> 0, kind |-> "int",
             sum |-> NewState.sum + o.value]
      BY Resummed
    <3>6. 1 + 0 + 0 <= MaxCount /\ "int" \in Kinds /\ "int" # "none"
      BY Constants DEF Kinds
    <3>7. [count |-> 1, nulls |-> 0, invalid |-> 0, kind |-> "int", sum |-> o.value] \in States
      BY <3>1, <3>6, StateOf
    <3> QED
      BY <3>2, <3>3, <3>4, <3>5, <3>7
  <2>2. 0 \in Int64
    BY Constants DEF Int64
  <2>3. CASE o.type = "float"
    <3>1. NewState.count = 0
      BY DEF NewState
    <3>2. Observe(NewState, o) = [NewState EXCEPT !.count = @ + 1, !.kind = "float"]
      BY <1>2, <2>3, <3>1 DEF Observe, AddFloat
    <3>3. NewState.count + 1 = 1
      BY DEF NewState
    <3>4. [NewState EXCEPT !.count = @ + 1, !.kind = "float"] =
            [count |-> NewState.count + 1, nulls |-> 0, invalid |-> 0, kind |-> "float", sum |-> 0]
      BY Recounted
    <3>5. 1 + 0 + 0 <= MaxCount /\ "float" \in Kinds /\ "float" # "none" /\ "float" # "int"
      BY Constants DEF Kinds
    <3>6. [count |-> 1, nulls |-> 0, invalid |-> 0, kind |-> "float", sum |-> 0] \in States
      BY <2>2, <3>5, StateOf
    <3> QED
      BY <3>2, <3>3, <3>4, <3>6
  <2>4. CASE o.type = "null"
    <3>1. Observe(NewState, o) = [NewState EXCEPT !.nulls = @ + 1]
      BY <1>2, <2>4 DEF Observe, AddNull
    <3>2. Observe(NewState, o) = [count |-> 0, nulls |-> 1, invalid |-> 0, kind |-> "none",
                                  sum |-> 0]
      BY <3>1 DEF NewState
    <3> QED
      BY <2>2, <3>2, StateOf, Constants DEF Kinds
  <2>5. CASE o.type = "invalid"
    <3>1. Observe(NewState, o) = [NewState EXCEPT !.invalid = @ + 1]
      BY <1>2, <2>5 DEF Observe, AddInvalid
    <3>2. Observe(NewState, o) = [count |-> 0, nulls |-> 0, invalid |-> 1, kind |-> "none",
                                  sum |-> 0]
      BY <3>1 DEF NewState
    <3> QED
      BY <2>2, <3>2, StateOf, Constants DEF Kinds
  <2> QED
    BY <1>1, <2>1, <2>3, <2>4, <2>5
<1> QED
  BY <1>3 DEF Fresh, Records

\* A record goes into the file system as a sequence of records does.
LEMMA RecordParts ==
    ASSUME NEW r \in Records
    PROVE  r.key \in Keys /\ r.agg \in States
  BY DEF Records

-----------------------------------------------------------------------------
(* Combining a batch *)

\* The records of a key are combined one after the other: the outcomes on the way.
LEMMA MergeAllSteps ==
    ASSUME NEW s \in Seq(Records), NEW k
    PROVE  \E p \in [0..Len(s) -> Outcomes] :
            /\ p[0] = NewState
            /\ \A n \in 1..Len(s) :
                p[n] = IF s[n].key # k \/ p[n - 1] = Refused THEN p[n - 1]
                       ELSE Merge(p[n - 1], s[n].agg)
            /\ MergeAll(s, k) = p[Len(s)]
<1> DEFINE N == Len(s)
           Step(v, n) == IF s[n].key # k \/ v = Refused THEN v ELSE Merge(v, s[n].agg)
           Good(f, n) == /\ f \in [0..n -> Outcomes]
                         /\ f[0] = NewState
                         /\ \A x \in 1..n : f[x] = Step(f[x - 1], x)
           p == CHOOSE p : p = [n \in 0..N |-> IF n = 0 THEN NewState
                                               ELSE IF s[n].key # k \/ p[n - 1] = Refused THEN p[n - 1]
                                               ELSE Merge(p[n - 1], s[n].agg)]
<1>1. N \in Nat
  OBVIOUS
<1>2. ASSUME NEW v \in Outcomes, NEW n \in 1..N PROVE Step(v, n) \in Outcomes
  <2>1. s[n] \in Records
    BY <1>1
  <2>2. s[n].agg \in States
    BY <2>1, RecordParts
  <2>3. v # Refused => v \in States
    BY DEF Outcomes
  <2> QED
    BY <2>2, <2>3, MergeType
<1>3. MergeAll(s, k) = p[N]
  BY DEF MergeAll
<1> HIDE DEF Step
<1>4. \A n \in 0..N : \E f : Good(f, n)
  <2> DEFINE T == {n \in 0..N : ~ \E f : Good(f, n)}
  <2> SUFFICES ASSUME T # {} PROVE FALSE
    OBVIOUS
  <2>1. T \subseteq Nat
    BY <1>1
  <2>2. PICK n \in T : \A m \in T : n <= m
    BY <2>1, LeastElement
  <2>3. n \in 0..N /\ ~ \E f : Good(f, n)
    OBVIOUS
  <2>4. CASE n = 0
    <3> DEFINE f == [x \in 0..0 |-> NewState]
    <3>1. Good(f, 0)
      BY NewStateType DEF Outcomes
    <3> QED
      BY <2>3, <2>4, <3>1
  <2>5. CASE n # 0
    <3>0. n \in Nat /\ n - 1 \in 0..N /\ n \in 1..N
      BY <1>1, <2>3, <2>5
    <3>1. n - 1 \in 0..N /\ n - 1 \notin T /\ n \in 1..N
      <4> HIDE DEF T, N
      <4> QED
        BY <2>2, <3>0
    <3>2. PICK g : Good(g, n - 1)
      BY <3>1
    <3> DEFINE f == [x \in 0..n |-> IF x = n THEN Step(g[n - 1], n) ELSE g[x]]
    <3>3. g[n - 1] \in Outcomes
      BY <3>1, <3>2
    <3>4. Step(g[n - 1], n) \in Outcomes
      BY <1>2, <3>1, <3>3
    <3>5. f \in [0..n -> Outcomes]
      BY <3>1, <3>2, <3>4
    <3>6. f[0] = NewState
      BY <3>1, <3>2
    <3>7. ASSUME NEW x \in 1..n PROVE f[x] = Step(f[x - 1], x)
      <4>1. CASE x = n
        <5>1. f[x] = Step(g[n - 1], n) /\ f[x - 1] = g[n - 1]
          BY <3>1, <4>1
        <5> QED
          BY <4>1, <5>1
      <4>2. CASE x # n
        <5>1. x \in 1..(n - 1) /\ f[x] = g[x] /\ f[x - 1] = g[x - 1]
          BY <3>1, <4>2
        <5> QED
          BY <3>2, <5>1
      <4> QED
        BY <4>1, <4>2
    <3>8. Good(f, n)
      BY <3>5, <3>6, <3>7
    <3> QED
      BY <2>3, <3>8
  <2> QED
    BY <2>4, <2>5
<1>5. PICK f : Good(f, N)
  BY <1>1, <1>4
<1>6. f = [n \in 0..N |-> IF n = 0 THEN NewState
                          ELSE IF s[n].key # k \/ f[n - 1] = Refused THEN f[n - 1]
                          ELSE Merge(f[n - 1], s[n].agg)]
  BY <1>1, <1>5 DEF Step
<1>7. p = [n \in 0..N |-> IF n = 0 THEN NewState
                          ELSE IF s[n].key # k \/ p[n - 1] = Refused THEN p[n - 1]
                          ELSE Merge(p[n - 1], s[n].agg)]
  BY <1>6
<1> HIDE DEF p
<1>8. p[0] = NewState /\ \A n \in 1..N : p[n] = Step(p[n - 1], n)
  BY <1>1, <1>7 DEF Step
<1>9. \A n \in 0..N : p[n] \in Outcomes
  <2> DEFINE T == {n \in 0..N : p[n] \notin Outcomes}
  <2> SUFFICES ASSUME T # {} PROVE FALSE
    OBVIOUS
  <2>1. T \subseteq Nat
    BY <1>1
  <2>2. PICK n \in T : \A m \in T : n <= m
    BY <2>1, LeastElement
  <2>3. n \in 0..N /\ p[n] \notin Outcomes /\ n # 0
    BY <1>8, NewStateType DEF Outcomes
  <2>4. n \in 1..N /\ n - 1 \in 0..N /\ n - 1 \notin T
    BY <1>1, <2>2, <2>3
  <2>5. p[n - 1] \in Outcomes
    BY <2>4
  <2> QED
    BY <1>2, <1>8, <2>3, <2>4, <2>5
<1>10. p \in [0..N -> Outcomes]
  BY <1>7, <1>9
<1>11. \A n \in 1..N : p[n] = IF s[n].key # k \/ p[n - 1] = Refused THEN p[n - 1]
                              ELSE Merge(p[n - 1], s[n].agg)
  BY <1>8 DEF Step
<1> QED
  BY <1>3, <1>8, <1>10, <1>11

\* However many records of a key are combined, the outcome is a state or a refusal.
LEMMA MergeAllType ==
    ASSUME NEW s \in Seq(Records), NEW k
    PROVE  MergeAll(s, k) \in Outcomes
<1>1. Len(s) \in 0..Len(s)
  OBVIOUS
<1> QED
  BY <1>1, MergeAllSteps

\* The i-th key of a set is the one that has i - 1 keys below it.
LEMMA KeyAtRank ==
    ASSUME NEW ks, IsFiniteSet(ks), ks \subseteq Nat, NEW i \in 1..Cardinality(ks)
    PROVE  KeyAt(ks, i) \in ks /\ Cardinality({j \in ks : j < KeyAt(ks, i)}) = i - 1
<1> DEFINE n == Cardinality(ks)
           Below(k) == {j \in ks : j < k}
           R == [k \in ks |-> Cardinality(Below(k)) + 1]
<1>1. n \in Nat
  BY FS_CardinalityType
<1>2. ASSUME NEW k \in ks
      PROVE  /\ IsFiniteSet(Below(k)) /\ Cardinality(Below(k)) \in Nat
             /\ Cardinality(Below(k)) + 1 \in 1..n
  <2>1. Below(k) \in SUBSET ks /\ k \notin Below(k)
    OBVIOUS
  <2> HIDE DEF Below
  <2>2. /\ IsFiniteSet(Below(k)) /\ Cardinality(Below(k)) <= Cardinality(ks)
        /\ Cardinality(ks) = Cardinality(Below(k)) => ks = Below(k)
    BY <2>1, FS_Subset
  <2>3. Cardinality(Below(k)) \in Nat
    BY <2>2, FS_CardinalityType
  <2> QED
    BY <1>1, <2>1, <2>2, <2>3
<1>3. ASSUME NEW j \in ks, NEW k \in ks, j < k
      PROVE  R[j] < R[k]
  <2>0. j \in Nat /\ k \in Nat /\ \A l \in ks : l \in Nat
    OBVIOUS
  <2>1. Below(j) \in SUBSET Below(k) /\ j \in Below(k) /\ j \notin Below(j)
    <3>1. \A l \in ks : l < j => l < k
      BY <1>3, <2>0
    <3>2. Below(j) \in SUBSET Below(k)
      BY <3>1
    <3>3. j \in Below(k) /\ ~(j < j)
      BY <1>3, <2>0
    <3> QED
      BY <3>2, <3>3
  <2>2. R[j] = Cardinality(Below(j)) + 1 /\ R[k] = Cardinality(Below(k)) + 1
    OBVIOUS
  <2> HIDE DEF Below, R
  <2>3. /\ Cardinality(Below(j)) <= Cardinality(Below(k))
        /\ Cardinality(Below(k)) = Cardinality(Below(j)) => Below(k) = Below(j)
    BY <1>2, <2>1, FS_Subset
  <2> QED
    BY <1>2, <2>1, <2>2, <2>3
<1>4. R \in [ks -> 1..n]
  BY <1>2
<1>5. \A k \in ks : R[k] = Cardinality(Below(k)) + 1
  OBVIOUS
<1> HIDE DEF R
<1>6. R \in Injection(ks, 1..n)
  <2>1. ASSUME NEW j \in ks, NEW k \in ks, R[j] = R[k], j # k PROVE FALSE
    <3>1. j \in Nat /\ k \in Nat /\ R[j] \in Nat /\ R[k] \in Nat
      BY <1>1, <1>4
    <3>2. j < k \/ k < j
      BY <2>1, <3>1
    <3>3. R[j] < R[k] \/ R[k] < R[j]
      BY <1>3, <3>2
    <3> QED
      BY <2>1, <3>1, <3>3
  <2> QED
    BY <1>4, <2>1 DEF Injection, IsInjective
<1>7. IsFiniteSet(1..n) /\ Cardinality(1..n) = n
  BY <1>1, FS_Interval
<1>8. PICK k \in ks : R[k] = i
  <2>1. Cardinality(ks) = n /\ i \in 1..n
    OBVIOUS
  <2> HIDE DEF n
  <2>2. R \in Surjection(ks, 1..n)
    BY <1>6, <1>7, <2>1, FS_Injection
  <2> QED
    BY <2>1, <2>2 DEF Surjection
<1>9. Cardinality(Below(k)) = i - 1
  <2>1. R[k] = Cardinality(Below(k)) + 1 /\ Cardinality(Below(k)) \in Nat /\ i \in Int
    BY <1>1, <1>2, <1>5
  <2> HIDE DEF Below
  <2> QED
    BY <1>8, <2>1
<1> QED
  BY <1>9 DEF KeyAt

\* The keys of records are finitely many.
LEMMA KeysOfType ==
    ASSUME NEW s \in Seq(Records)
    PROVE  KeysOf(s) \subseteq Keys /\ IsFiniteSet(KeysOf(s)) /\ Cardinality(KeysOf(s)) \in Nat
<1>1. KeysOf(s) \subseteq Keys
  BY RecordParts DEF KeysOf
<1> QED
  BY <1>1, Constants, FS_Subset, FS_CardinalityType

\* A batch none of whose merges is refused becomes a sequence of records.
LEMMA CoalescedType ==
    ASSUME NEW s \in Seq(Records), \A i \in 1..Len(Coalesced(s)) : Coalesced(s)[i].agg # Refused
    PROVE  Coalesced(s) \in Seq(Records)
<1> DEFINE n == Cardinality(KeysOf(s))
           c(i) == [key |-> KeyAt(KeysOf(s), i), agg |-> MergeAll(s, KeyAt(KeysOf(s), i))]
<1>1. Coalesced(s) = [i \in 1..n |-> c(i)]
  BY DEF Coalesced
<1>2. n \in Nat /\ IsFiniteSet(KeysOf(s)) /\ KeysOf(s) \subseteq Keys /\ KeysOf(s) \subseteq Nat
  BY KeysOfType, Constants
<1>3. Len(Coalesced(s)) = n
  <2> HIDE DEF n, c
  <2> QED
    BY <1>1, <1>2
<1>4. ASSUME NEW i \in 1..n PROVE c(i) \in Records
  <2>1. Coalesced(s)[i] = c(i)
    BY <1>1
  <2>2. c(i).agg # Refused
    BY <1>3, <2>1
  <2>3. MergeAll(s, KeyAt(KeysOf(s), i)) \in States
    BY <2>2, MergeAllType DEF Outcomes
  <2>4. KeyAt(KeysOf(s), i) \in Keys
    BY <1>2, KeyAtRank
  <2> QED
    BY <2>3, <2>4 DEF Records
<1> HIDE DEF n, c
<1> QED
  BY <1>1, <1>2, <1>4

-----------------------------------------------------------------------------
(* The bytes of files *)

\* Two finite sets that share nothing have their members together.
LEMMA DisjointUnion ==
    ASSUME NEW S, NEW T, IsFiniteSet(S), IsFiniteSet(T), S \cap T = {}
    PROVE  /\ IsFiniteSet(S \cup T)
           /\ Cardinality(S \cup T) = Cardinality(S) + Cardinality(T)
<1>1. Cardinality(S \cap T) = 0
  BY FS_EmptySet
<1>2. Cardinality(S) \in Nat /\ Cardinality(T) \in Nat
  BY FS_CardinalityType
<1>3. /\ IsFiniteSet(S \cup T)
      /\ Cardinality(S \cup T) = Cardinality(S) + Cardinality(T) - Cardinality(S \cap T)
  BY FS_Union
<1> QED
  BY <1>1, <1>2, <1>3

\* The numbers up to n are n.
LEMMA IntervalOf == ASSUME NEW n \in Nat PROVE IsFiniteSet(1..n) /\ Cardinality(1..n) = n
<1>1. IsFiniteSet(1..n) /\ Cardinality(1..n) = IF 1 > n THEN 0 ELSE n - 1 + 1
  BY FS_Interval
<1>2. (IF 1 > n THEN 0 ELSE n - 1 + 1) = n
  OBVIOUS
<1> QED
  BY <1>1, <1>2

\* Finitely many things of finite size take finitely many places.
LEMMA PlacesFinite ==
    ASSUME NEW S, IsFiniteSet(S), NEW size \in [S -> Nat]
    PROVE  IsFiniteSet(Places(size)) /\ SizeOf(size) \in Nat
<1> DEFINE g == [x \in S |-> {x} \X (1..size[x])]
           P == {{x} \X (1..size[x]) : x \in S}
<1>1. g \in Surjection(S, P)
  BY DEF Surjection
<1>2. IsFiniteSet(P)
  <2> HIDE DEF g, P
  <2> QED
    BY <1>1, FS_Surjection
<1>3. ASSUME NEW T \in P PROVE IsFiniteSet(T)
  <2>1. PICK x \in S : T = {x} \X (1..size[x])
    OBVIOUS
  <2>2. size[x] \in Nat
    OBVIOUS
  <2>3. IsFiniteSet({x}) /\ IsFiniteSet(1..size[x])
    BY <2>2, IntervalOf, FS_Singleton
  <2> HIDE DEF P
  <2> QED
    BY <2>1, <2>3, FS_Product
<1>4. Places(size) = UNION P
  BY DEF Places
<1>5. IsFiniteSet(Places(size))
  <2> HIDE DEF P
  <2> QED
    BY <1>2, <1>3, <1>4, FS_UNION
<1> QED
  BY <1>5, FS_CardinalityType DEF SizeOf

\* A sequence of records takes a natural number of bytes.
LEMMA BytesOfType ==
    ASSUME NEW s \in Seq(Records)
    PROVE  BytesOf(s) \in Nat
<1>0. \A i \in 1..Len(s) : RecordBytes[s[i].key] \in Nat
  <2> TAKE i \in 1..Len(s)
  <2>1. s[i].key \in Keys
    BY RecordParts
  <2> QED
    BY <2>1, Constants
<1>1. [i \in 1..Len(s) |-> RecordBytes[s[i].key]] \in [1..Len(s) -> Nat]
  BY <1>0
<1>2. IsFiniteSet(1..Len(s))
  BY IntervalOf
<1> QED
  BY <1>1, <1>2, PlacesFinite DEF BytesOf

\* The bytes of some files, and the places they take.
Room(f, names) == UNION {{n} \X (1..f[n].bytes) : n \in names}
Weight(f, names) == Cardinality(Room(f, names))

LEMMA WeightSize ==
    ASSUME NEW f, NEW names
    PROVE  SizeOf([n \in names |-> f[n].bytes]) = Weight(f, names)
<1>1. Places([n \in names |-> f[n].bytes]) = Room(f, names)
  BY DEF Places, Room
<1> QED
  BY <1>1 DEF SizeOf, Weight

\* Finitely many files have finitely many bytes.
LEMMA WeightType ==
    ASSUME NEW f, NEW names, IsFiniteSet(names), \A n \in names : f[n].bytes \in Nat
    PROVE  IsFiniteSet(Room(f, names)) /\ Weight(f, names) \in Nat
<1> DEFINE size == [n \in names |-> f[n].bytes]
<1>1. size \in [names -> Nat]
  OBVIOUS
<1>2. Places(size) = Room(f, names)
  BY DEF Places, Room
<1> HIDE DEF size
<1> QED
  BY <1>1, <1>2, PlacesFinite DEF SizeOf, Weight

\* Files of two sets of names that share none.
LEMMA WeightUnion ==
    ASSUME NEW f, NEW A, NEW B, A \cap B = {}, IsFiniteSet(A), IsFiniteSet(B),
           \A n \in A \cup B : f[n].bytes \in Nat
    PROVE  Weight(f, A \cup B) = Weight(f, A) + Weight(f, B)
<1>1. Room(f, A \cup B) = Room(f, A) \cup Room(f, B)
  BY DEF Room
<1>2. Room(f, A) \cap Room(f, B) = {}
  BY DEF Room
<1>3. IsFiniteSet(Room(f, A)) /\ IsFiniteSet(Room(f, B))
  BY WeightType
<1> QED
  BY <1>1, <1>2, <1>3, DisjointUnion DEF Weight

\* One file has its own bytes.
LEMMA WeightOne ==
    ASSUME NEW f, NEW n, f[n].bytes \in Nat
    PROVE  Weight(f, {n}) = f[n].bytes
<1>1. Room(f, {n}) = {n} \X (1..f[n].bytes)
  BY DEF Room
<1>2. IsFiniteSet({n}) /\ Cardinality({n}) = 1
  BY FS_Singleton
<1>3. IsFiniteSet(1..f[n].bytes) /\ Cardinality(1..f[n].bytes) = f[n].bytes
  BY IntervalOf
<1>4. Cardinality({n} \X (1..f[n].bytes)) = 1 * f[n].bytes
  BY <1>2, <1>3, FS_Product
<1>5. Weight(f, {n}) = 1 * f[n].bytes
  BY <1>1, <1>4 DEF Weight
<1> QED
  BY <1>5

\* One more file adds its bytes.
LEMMA WeightAdd ==
    ASSUME NEW f, NEW A, NEW n, n \notin A, IsFiniteSet(A), \A m \in A \cup {n} : f[m].bytes \in Nat
    PROVE  Weight(f, A \cup {n}) = Weight(f, A) + f[n].bytes
<1>1. IsFiniteSet({n})
  BY FS_Singleton
<1>2. Weight(f, A \cup {n}) = Weight(f, A) + Weight(f, {n})
  BY <1>1, WeightUnion
<1> QED
  BY <1>2, WeightOne

\* Files that did not change weigh what they weighed, and no file weighs nothing.
LEMMA WeightSame ==
    ASSUME NEW f, NEW g, NEW names, \A n \in names : f[n] = g[n]
    PROVE  Weight(f, names) = Weight(g, names)
<1>1. Room(f, names) = Room(g, names)
  BY DEF Room
<1> QED
  BY <1>1 DEF Weight

LEMMA WeightNone == ASSUME NEW f PROVE Weight(f, {}) = 0
<1>1. Room(f, {}) = {}
  BY DEF Room
<1> QED
  BY <1>1, FS_EmptySet DEF Weight

-----------------------------------------------------------------------------
(* The inductive invariant *)

\* Runs of this pass that wait to be merged, runs of the next pass, and the output
\* being written: while finalize works these are its files, and no other.
Waiting == {<<sort.pass, j>> : j \in sort.i..(sort.runs - 1)}
Outputs == RunSet(sort.pass + 1, sort.created)
Writing == IF merge.on THEN {Out} ELSE {}

Busy == pc \in {"reading", "merging", "emitting"}

Held == IF Busy THEN Waiting \cup Outputs \cup Writing ELSE {}

\* Names a failure removes: no file of another process has one of them.
Claimed == RunSet(sort.pass, sort.runs) \cup Outputs \cup Writing

\* Where finalize stands in its passes.
Shape ==
    /\ pc = "adding" => sort = NoSort
    /\ pc = "reading" => sort.pass = 0 /\ sort.i = 0 /\ sort.created = 0
    /\ pc \in {"merging", "emitting"} =>
        /\ sort.runs >= 1
        /\ sort.i = 2 * sort.created /\ sort.i <= sort.runs + 1
        /\ sort.runs = 1 => sort.i = 0
    /\ pc = "emitting" => sort.runs = 1
    /\ merge.on => pc = "merging" /\ sort.i + 1 < sort.runs

Placed ==
    /\ OwnRuns = Held
    /\ Busy => \A n \in Claimed : n \in DOMAIN fs => fs[n].own

Account ==
    /\ Weight(fs, Held) <= 2 * Quota
    /\ pc = "reading" => sort.bytes = Weight(fs, Held)
    /\ pc \in {"merging", "emitting"} => sort.next = Weight(fs, Waiting \cup Outputs)

Inv == TypeOK /\ Shape /\ Placed /\ Account

\* What a step must leave alone.
ForeignKept == \A n \in DOMAIN fs : ~fs[n].own => n \in DOMAIN fs' /\ fs'[n] = fs[n]

-----------------------------------------------------------------------------
(* Names and files *)

\* Run sets are finite, start empty and grow by their next name.
LEMMA RunSets ==
    ASSUME NEW p, NEW c \in Nat
    PROVE  /\ IsFiniteSet(RunSet(p, c))
           /\ RunSet(p, 0) = {}
           /\ RunSet(p, c + 1) = RunSet(p, c) \cup {<<p, c>>}
           /\ <<p, c>> \notin RunSet(p, c)
           /\ \A j : <<p, j>> \in RunSet(p, c) <=> j \in 0..(c - 1)
<1>1. IsFiniteSet(RunSet(p, c))
  <2> DEFINE g == [i \in 0..(c - 1) |-> <<p, i>>]
  <2>1. g \in Surjection(0..(c - 1), RunSet(p, c))
    BY DEF Surjection, RunSet
  <2>2. IsFiniteSet(0..(c - 1))
    <3>1. 0 \in Int /\ c - 1 \in Int
      OBVIOUS
    <3> QED
      BY <3>1, FS_Interval
  <2> HIDE DEF g
  <2> QED
    BY <2>1, <2>2, FS_Surjection
<1>2. \A j : <<p, j>> \in RunSet(p, c) <=> j \in 0..(c - 1)
  BY DEF RunSet
<1>3. RunSet(p, 0) = {}
  BY DEF RunSet
<1>4. 0..((c + 1) - 1) = (0..(c - 1)) \cup {c} /\ c \notin 0..(c - 1)
  OBVIOUS
<1>5. RunSet(p, c + 1) = RunSet(p, c) \cup {<<p, c>>}
  BY <1>4 DEF RunSet
<1> QED
  BY <1>1, <1>2, <1>3, <1>4, <1>5

\* What the accounts of finalize are.
LEMMA SortParts ==
    ASSUME Inv
    PROVE  /\ sort.runs \in Nat /\ sort.bytes \in Nat /\ sort.pass \in Nat
           /\ sort.i \in Nat /\ sort.created \in Nat /\ sort.next \in Nat
           /\ Quota \in Nat
  BY Constants DEF Inv, TypeOK

\* Of the runs of this pass the first i are gone.
LEMMA WaitingNames ==
    ASSUME Inv
    PROVE  /\ Waiting \subseteq RunSet(sort.pass, sort.runs)
           /\ \A n \in Waiting : n[1] = sort.pass
           /\ \A n \in Outputs : n[1] = sort.pass + 1
           /\ IsFiniteSet(Waiting) /\ IsFiniteSet(Outputs)
           /\ Waiting \cap Outputs = {}
           /\ Out \notin Waiting
<1>1. Waiting \subseteq RunSet(sort.pass, sort.runs)
  <2>1. \A j \in sort.i..(sort.runs - 1) : j \in 0..(sort.runs - 1)
    BY SortParts
  <2> QED
    BY <2>1 DEF Waiting, RunSet
<1>2. \A n \in Waiting : n[1] = sort.pass
  BY DEF Waiting
<1>3. \A n \in Outputs : n[1] = sort.pass + 1
  BY DEF Outputs, RunSet
<1>4. IsFiniteSet(RunSet(sort.pass, sort.runs)) /\ IsFiniteSet(Outputs)
  BY SortParts, RunSets DEF Outputs
<1>5. IsFiniteSet(Waiting)
  BY <1>1, <1>4, FS_Subset
<1>6. sort.pass # sort.pass + 1 /\ Out[1] = sort.pass + 1
  BY SortParts DEF Out
<1> QED
  BY <1>1, <1>2, <1>3, <1>4, <1>5, <1>6

\* The outputs of this pass number the pairs done so far.
LEMMA NextOutput ==
    ASSUME Inv, pc \in {"merging", "emitting"}
    PROVE  /\ Out = <<sort.pass + 1, sort.created>>
           /\ Out \notin Outputs
           /\ Outputs \cup {Out} = RunSet(sort.pass + 1, sort.created + 1)
<1>1. sort.i = 2 * sort.created /\ sort.created \in Nat
  BY SortParts DEF Inv, Shape
<1>2. sort.i \div 2 = sort.created
  <2>1. \A c \in Nat : (2 * c) \div 2 = c
    OBVIOUS
  <2> QED
    BY <1>1, <2>1
<1> QED
  BY <1>1, <1>2, RunSets DEF Out, Outputs

\* The runs of this call are finitely many and each has a size.
LEMMA OwnFiles ==
    ASSUME Inv
    PROVE  /\ IsFiniteSet(Held)
           /\ \A n \in Held : n \in DOMAIN fs /\ fs[n].own /\ fs[n].bytes \in Nat
                              /\ fs[n].recs \in Seq(Records)
<1>1. IsFiniteSet(Writing)
  BY FS_Singleton, FS_EmptySet DEF Writing
<1>2. IsFiniteSet(Waiting \cup Outputs)
  BY WaitingNames, FS_Union
<1>3. IsFiniteSet(Waiting \cup Outputs \cup Writing)
  BY <1>1, <1>2, FS_Union
<1>4. IsFiniteSet(Held)
  BY <1>3, FS_EmptySet DEF Held
<1>5. \A n \in Held : n \in DOMAIN fs /\ fs[n].own
  BY DEF Inv, Placed, OwnRuns
<1> QED
  BY <1>4, <1>5 DEF Inv, TypeOK

\* A new file of this call.
LEMMA FileAdded ==
    ASSUME Inv, NEW name, name \notin DOMAIN fs,
           NEW file \in [own : BOOLEAN, recs : Seq(Records), bytes : Nat], file.own,
           fs' = With(name, file)
    PROVE  /\ \A n \in DOMAIN fs' : fs'[n] \in [own : BOOLEAN, recs : Seq(Records), bytes : Nat]
           /\ OwnRuns' = OwnRuns \cup {name}
           /\ fs'[name] = file
           /\ \A n \in DOMAIN fs : n # name /\ n \in DOMAIN fs' /\ fs'[n] = fs[n]
           /\ \A n \in DOMAIN fs' : n = name \/ (n \in DOMAIN fs /\ fs'[n] = fs[n])
<1>1. /\ DOMAIN fs' = DOMAIN fs \cup {name} /\ fs'[name] = file
      /\ \A n \in DOMAIN fs : fs'[n] = fs[n]
  BY DEF With
<1>2. \A n \in DOMAIN fs : fs[n] \in [own : BOOLEAN, recs : Seq(Records), bytes : Nat]
  BY DEF Inv, TypeOK
<1> QED
  BY <1>1, <1>2 DEF OwnRuns

\* A file of this call that is written on.
LEMMA FileWritten ==
    ASSUME Inv, NEW name, name \in OwnRuns,
           NEW file \in [own : BOOLEAN, recs : Seq(Records), bytes : Nat], file.own,
           fs' = With(name, file)
    PROVE  /\ \A n \in DOMAIN fs' : fs'[n] \in [own : BOOLEAN, recs : Seq(Records), bytes : Nat]
           /\ OwnRuns' = OwnRuns
           /\ DOMAIN fs' = DOMAIN fs
           /\ fs'[name] = file
           /\ \A n \in DOMAIN fs : n # name => fs'[n] = fs[n]
<1>1. /\ DOMAIN fs' = DOMAIN fs /\ fs'[name] = file
      /\ \A n \in DOMAIN fs : n # name => fs'[n] = fs[n]
  BY DEF With, OwnRuns
<1>2. \A n \in DOMAIN fs : fs[n] \in [own : BOOLEAN, recs : Seq(Records), bytes : Nat]
  BY DEF Inv, TypeOK
<1> QED
  BY <1>1, <1>2 DEF OwnRuns

\* Files that are removed.
LEMMA FilesRemoved ==
    ASSUME Inv, NEW names, fs' = Without(names)
    PROVE  /\ \A n \in DOMAIN fs' : fs'[n] \in [own : BOOLEAN, recs : Seq(Records), bytes : Nat]
           /\ OwnRuns' = OwnRuns \ names
           /\ DOMAIN fs' = DOMAIN fs \ names
           /\ \A n \in DOMAIN fs' : fs'[n] = fs[n]
<1>1. DOMAIN fs' = DOMAIN fs \ names /\ \A n \in DOMAIN fs' : fs'[n] = fs[n]
  BY DEF Without
<1>2. \A n \in DOMAIN fs : fs[n] \in [own : BOOLEAN, recs : Seq(Records), bytes : Nat]
  BY DEF Inv, TypeOK
<1> QED
  BY <1>1, <1>2 DEF OwnRuns

\* A file that takes a name nobody has.
LEMMA FileRenamed ==
    ASSUME Inv, NEW old, NEW new, old \in OwnRuns, new \notin DOMAIN fs, fs' = Renamed(old, new)
    PROVE  /\ \A n \in DOMAIN fs' : fs'[n] \in [own : BOOLEAN, recs : Seq(Records), bytes : Nat]
           /\ OwnRuns' = (OwnRuns \ {old}) \cup {new}
           /\ fs'[new] = fs[old]
           /\ DOMAIN fs' = (DOMAIN fs \ {old}) \cup {new}
           /\ \A n \in DOMAIN fs : n # old => fs'[n] = fs[n]
<1>1. /\ DOMAIN fs' = (DOMAIN fs \ {old}) \cup {new} /\ fs'[new] = fs[old]
      /\ \A n \in DOMAIN fs : n # old => fs'[n] = fs[n]
      /\ old # new /\ fs[old].own
  BY DEF Renamed, OwnRuns
<1>2. \A n \in DOMAIN fs : fs[n] \in [own : BOOLEAN, recs : Seq(Records), bytes : Nat]
  BY DEF Inv, TypeOK
<1>3. old \in DOMAIN fs
  BY DEF OwnRuns
<1> QED
  BY <1>1, <1>2, <1>3 DEF OwnRuns

-----------------------------------------------------------------------------
(* Taking rows *)

LEMMA InitInv == Init => Inv
<1> SUFFICES ASSUME Init PROVE Inv
  OBVIOUS
<1>1. PICK left \in SUBSET ForeignRuns : fs = [n \in left |-> Foreign]
  BY DEF Init
<1>2. \A n \in DOMAIN fs : fs[n] = Foreign
  BY <1>1
<1>3. Foreign \in [own : BOOLEAN, recs : Seq(Records), bytes : Nat] /\ ~Foreign.own
  BY DEF Foreign
<1>4. OwnRuns = {}
  BY <1>2, <1>3 DEF OwnRuns
<1>5. 0 \in 0..Quota /\ 0 \in 0..MaxRows /\ << >> \in Seq(Records) /\ Len(<< >>) = 0
  BY Constants
<1>6. TypeOK
  <2>1. spill \in [recs : Seq(Records), bytes : 0..Quota]
    BY <1>5 DEF Init, NoFile
  <2>2. groups \in Seq(Records) /\ Len(groups) <= GroupCapacity
        /\ batch \in Seq(Records) /\ Len(batch) <= BatchCapacity /\ out \in Seq(Records)
    BY <1>5, Constants DEF Init
  <2>3. sort \in [runs : Nat, bytes : Nat, pass : Nat, i : Nat, created : Nat, next : Nat]
    BY DEF Init, NoSort
  <2>4. merge \in [on : BOOLEAN, a : Nat, b : Nat]
    BY DEF Init, NoMerge
  <2>5. \A n \in DOMAIN fs : fs[n] \in [own : BOOLEAN, recs : Seq(Records), bytes : Nat]
    BY <1>2, <1>3
  <2>6. /\ pc \in {"adding", "reading", "merging", "emitting", "done"}
        /\ status \in {"none", "ok", "error"} /\ failed \in BOOLEAN
        /\ pos \in Nat /\ rows \in 0..MaxRows
    BY <1>5 DEF Init
  <2> QED
    BY <2>1, <2>2, <2>3, <2>4, <2>5, <2>6 DEF TypeOK
<1>7. Shape
  BY DEF Shape, Init, NoMerge
<1>8. Placed
  BY <1>4 DEF Placed, Held, Busy, Init
<1>9. Account
  <2>1. Held = {} /\ pc = "adding"
    BY DEF Held, Busy, Init
  <2>2. 0 <= 2 * Quota
    BY Constants
  <2> QED
    BY <2>1, <2>2, WeightNone DEF Account
<1> QED
  BY <1>6, <1>7, <1>8, <1>9 DEF Inv

\* A step that leaves finalize where it is leaves its files and accounts.
LEMMA Frame ==
    ASSUME Inv, UNCHANGED <<pc, fs, sort, merge>>
    PROVE  Shape' /\ Placed' /\ Account' /\ ForeignKept
<1>1. /\ Waiting' = Waiting /\ Outputs' = Outputs /\ Writing' = Writing
      /\ Held' = Held /\ Claimed' = Claimed /\ OwnRuns' = OwnRuns /\ (Busy' <=> Busy)
  BY DEF Waiting, Outputs, Writing, Held, Claimed, OwnRuns, Busy, Out
<1>2. Shape'
  BY DEF Inv, Shape
<1>3. Placed'
  BY <1>1 DEF Inv, Placed
<1>4. Account'
  BY <1>1 DEF Inv, Account
<1> QED
  BY <1>2, <1>3, <1>4 DEF ForeignKept

\* A step of add that keeps the map and the spill well typed.
LEMMA AddFrame ==
    ASSUME Inv, FinalizeUnchanged,
           groups' \in Seq(Records), Len(groups') <= GroupCapacity, failed' \in BOOLEAN,
           spill' \in [recs : Seq(Records), bytes : 0..Quota], rows' \in 0..MaxRows
    PROVE  Inv' /\ ForeignKept
<1>1. TypeOK'
  BY DEF Inv, TypeOK, FinalizeUnchanged
<1> QED
  BY <1>1, Frame DEF Inv, FinalizeUnchanged

\* What is known of the map, the spill and the rows while rows are taken.
LEMMA AddingParts ==
    ASSUME Inv
    PROVE  /\ groups \in Seq(Records) /\ Len(groups) <= GroupCapacity /\ Len(groups) \in Nat
           /\ failed \in BOOLEAN /\ spill \in [recs : Seq(Records), bytes : 0..Quota]
           /\ rows \in 0..MaxRows
  BY DEF Inv, TypeOK

LEMMA AcceptType ==
    ASSUME Inv, NEW k, NEW o, Accept(k, o)
    PROVE  rows' \in 0..MaxRows
  BY AddingParts, Constants DEF Accept

LEMMA AddFoundInv ==
    ASSUME Inv, NEW k \in Keys, NEW o \in Observations[k], AddFound(k, o)
    PROVE  Inv' /\ ForeignKept
<1>1. PICK i \in Find(k) :
        LET s == Observe(groups[i].agg, o) IN
        /\ s # Refused
        /\ groups' = [groups EXCEPT ![i].agg = s]
  BY DEF AddFound
<1> DEFINE s == Observe(groups[i].agg, o)
<1>2. i \in 1..Len(groups) /\ groups[i] \in Records
  BY AddingParts DEF Find
<1>3. s \in States
  <2>1. groups[i].agg \in States
    BY <1>2, RecordParts
  <2> QED
    BY <1>1, <2>1, ObserveType DEF Outcomes
<1>4. groups' = [groups EXCEPT ![i].agg = s]
  BY <1>1
<1> HIDE DEF s
<1>5. [groups[i] EXCEPT !.agg = s] \in Records
  BY <1>2, <1>3 DEF Records
<1>6. groups' = [groups EXCEPT ![i] = [groups[i] EXCEPT !.agg = s]]
  BY <1>4
<1>7. groups' \in Seq(Records) /\ Len(groups') = Len(groups)
  BY <1>2, <1>5, <1>6, AddingParts
<1> QED
  BY <1>7, AddingParts, AcceptType, AddFrame DEF AddFound

LEMMA AddNewInv ==
    ASSUME Inv, NEW k \in Keys, NEW o \in Observations[k], AddNew(k, o)
    PROVE  Inv' /\ ForeignKept
<1>1. groups' = Append(groups, Fresh(k, o)) /\ Len(groups) < GroupCapacity
  BY DEF AddNew
<1>2. groups' \in Seq(Records) /\ Len(groups') = Len(groups) + 1
  BY <1>1, FreshType, AddingParts
<1>3. Len(groups') <= GroupCapacity
  BY <1>1, <1>2, AddingParts, Constants
<1> QED
  BY <1>2, <1>3, AddingParts, AcceptType, AddFrame DEF AddNew

\* What a flush leaves on disk.
LEMMA FlushedType ==
    ASSUME Inv, NEW n \in 0..Len(groups), CanFlush(n)
    PROVE  Flushed(n) \in [recs : Seq(Records), bytes : 0..Quota]
<1>1. SubSeq(groups, 1, n) \in Seq(Records)
  <2>1. \A i \in 1..n : groups[i] \in Records
    BY AddingParts
  <2> QED
    BY <2>1, AddingParts
<1>2. spill.recs \o SubSeq(groups, 1, n) \in Seq(Records)
  BY <1>1, AddingParts
<1>3. spill.bytes + BytesOf(SubSeq(groups, 1, n)) \in Nat
  <2>1. BytesOf(SubSeq(groups, 1, n)) \in Nat
    BY <1>1, BytesOfType
  <2>2. spill.bytes \in 0..Quota /\ Quota \in Nat
    BY AddingParts, Constants
  <2> QED
    BY <2>1, <2>2
<1>4. spill.bytes + BytesOf(SubSeq(groups, 1, n)) <= Quota
  BY DEF CanFlush, Flushed
<1>5. spill.bytes + BytesOf(SubSeq(groups, 1, n)) \in 0..Quota
  BY <1>3, <1>4, Constants
<1> QED
  BY <1>2, <1>5 DEF Flushed

LEMMA AddFlushInv ==
    ASSUME Inv, NEW k \in Keys, NEW o \in Observations[k], AddFlush(k, o)
    PROVE  Inv' /\ ForeignKept
<1>1. groups' \in Seq(Records) /\ Len(groups') = 1
  BY FreshType DEF AddFlush
<1>2. spill' \in [recs : Seq(Records), bytes : 0..Quota]
  BY FlushedType, AddingParts DEF AddFlush
<1>3. Len(groups') <= GroupCapacity
  BY <1>1, Constants
<1> QED
  BY <1>1, <1>2, <1>3, AddingParts, AcceptType, AddFrame DEF AddFlush

LEMMA FlushFailsInv ==
    ASSUME Inv, NEW n \in 0..GroupCapacity, FlushFails(n)
    PROVE  Inv' /\ ForeignKept
<1>1. n \in 0..Len(groups)
  BY AddingParts, Constants DEF FlushFails
<1>2. spill' \in [recs : Seq(Records), bytes : 0..Quota]
  BY <1>1, FlushedType DEF FlushFails
<1> QED
  BY <1>2, AddingParts, AddFrame DEF FlushFails

LEMMA CloseSpillFailsInv ==
    ASSUME Inv, CloseSpillFails
    PROVE  Inv' /\ ForeignKept
<1>1. spill' \in [recs : Seq(Records), bytes : 0..Quota]
  BY FlushedType, AddingParts DEF CloseSpillFails
<1>2. groups' \in Seq(Records) /\ Len(groups') = 0
  BY DEF CloseSpillFails
<1>3. Len(groups') <= GroupCapacity
  BY <1>2, Constants
<1> QED
  BY <1>1, <1>2, <1>3, AddingParts, AddFrame DEF CloseSpillFails

-----------------------------------------------------------------------------
(* Reading the spill back *)

\* The accounts of finalize when it starts: nothing is held.
LEMMA FinalizeInv == ASSUME Inv, Finalize PROVE Inv' /\ ForeignKept
<1>1. pc = "adding" /\ pc' = "reading" /\ sort = NoSort /\ ~merge.on
  BY DEF Finalize, Usable, Inv, Shape
<1>2. UNCHANGED <<status, failed, pos, batch, fs, sort, merge, out, total, rows>> /\ groups' = << >>
  BY DEF Finalize
<1>3. spill' \in [recs : Seq(Records), bytes : 0..Quota]
  <2> DEFINE F == Flushed(Len(groups))
  <2>1. F \in [recs : Seq(Records), bytes : 0..Quota]
    BY FlushedType, AddingParts DEF Finalize
  <2>2. PICK n \in 0..Len(F.recs) : spill' = [F EXCEPT !.recs = SubSeq(@, 1, n)]
    <3>1. F.recs \in Seq(Records) /\ Len(F.recs) \in 0..Len(F.recs)
      BY <2>1
    <3> QED
      BY <3>1 DEF Finalize
  <2> HIDE DEF F
  <2>3. SubSeq(F.recs, 1, n) \in Seq(Records)
    <3>1. F.recs \in Seq(Records)
      BY <2>1
    <3>2. \A i \in 1..n : F.recs[i] \in Records
      BY <3>1
    <3> QED
      BY <3>1, <3>2
  <2> QED
    BY <2>1, <2>2, <2>3
<1>4. << >> \in Seq(Records) /\ Len(<< >>) = 0 /\ 0 <= GroupCapacity
  BY Constants
<1>5. TypeOK'
  BY <1>1, <1>2, <1>3, <1>4 DEF Inv, TypeOK
<1>6. Held = {} /\ Held' = {} /\ Claimed' = {}
  <2>1. Waiting' = {} /\ Outputs' = {} /\ Writing' = {} /\ RunSet(0, 0) = {}
    BY <1>1, <1>2 DEF Waiting, Outputs, Writing, RunSet, NoSort
  <2> QED
    BY <1>1, <1>2, <2>1 DEF Held, Busy, Claimed, NoSort
<1>7. Shape'
  BY <1>1, <1>2 DEF Shape, NoSort
<1>8. Placed'
  <2>1. OwnRuns' = OwnRuns
    BY <1>2 DEF OwnRuns
  <2> QED
    BY <1>6, <2>1 DEF Inv, Placed
<1>9. Account'
  <2>1. sort'.bytes = 0 /\ 0 <= 2 * Quota
    BY <1>1, <1>2, Constants DEF NoSort
  <2> QED
    BY <1>1, <1>6, <2>1, WeightNone DEF Account
<1> QED
  BY <1>2, <1>5, <1>7, <1>8, <1>9 DEF Inv, ForeignKept

\* An error ends finalize; every name that goes is a run of its own, and all go.
LEMMA FinalizeFailsInv ==
    ASSUME Inv, Busy, NEW names, FinalizeFails(names),
           Held \subseteq names, names \subseteq Claimed
    PROVE  Inv' /\ ForeignKept
<1>1. /\ \A n \in DOMAIN fs' : fs'[n] \in [own : BOOLEAN, recs : Seq(Records), bytes : Nat]
      /\ OwnRuns' = OwnRuns \ names
      /\ DOMAIN fs' = DOMAIN fs \ names
      /\ \A n \in DOMAIN fs' : fs'[n] = fs[n]
  BY FilesRemoved DEF FinalizeFails
<1>2. pc' = "done" /\ status' = "error" /\ merge' = NoMerge
      /\ UNCHANGED <<spill, pos, batch, sort, out, groups, failed, total, rows>>
  BY DEF FinalizeFails, AddingUnchanged
<1>3. OwnRuns = Held
  BY DEF Inv, Placed
<1>4. TypeOK'
  BY <1>1, <1>2 DEF Inv, TypeOK, NoMerge
<1>5. Held' = {} /\ OwnRuns' = {} /\ ~Busy'
  BY <1>1, <1>2, <1>3 DEF Held, Busy
<1>6. Shape' /\ Placed'
  BY <1>2, <1>5 DEF Shape, Placed, NoMerge
<1>7. Account'
  <2>1. 0 <= 2 * Quota
    BY Constants
  <2> QED
    BY <1>2, <1>5, <2>1, WeightNone DEF Account
<1>8. ForeignKept
  <2>1. \A n \in names : n \in DOMAIN fs => fs[n].own
    BY DEF Inv, Placed
  <2> QED
    BY <1>1, <2>1 DEF ForeignKept
<1> QED
  BY <1>4, <1>6, <1>7, <1>8 DEF Inv

LEMMA ReadFailsInv == ASSUME Inv, ReadFails PROVE Inv' /\ ForeignKept
<1>1. pc = "reading" /\ FinalizeFails(RunSet(0, sort.runs))
  BY DEF ReadFails
<1>2. sort.pass = 0 /\ sort.created = 0 /\ ~merge.on
  BY <1>1 DEF Inv, Shape
<1>3. Outputs = {} /\ Writing = {}
  BY <1>2, RunSets DEF Outputs, Writing
<1>4. Held \subseteq RunSet(0, sort.runs) /\ RunSet(0, sort.runs) \subseteq Claimed
  BY <1>2, <1>3, WaitingNames DEF Held, Claimed
<1> QED
  BY <1>1, <1>4, FinalizeFailsInv DEF Busy

\* While the spill is read the runs are those of the first pass.
LEMMA FirstRuns ==
    ASSUME Inv, pc = "reading"
    PROVE  /\ sort.pass = 0 /\ sort.i = 0 /\ sort.created = 0 /\ ~merge.on
           /\ Held = RunSet(0, sort.runs) /\ Claimed = RunSet(0, sort.runs)
           /\ Waiting = RunSet(0, sort.runs) /\ Outputs = {} /\ Writing = {}
<1>1. sort.pass = 0 /\ sort.i = 0 /\ sort.created = 0 /\ ~merge.on
  BY DEF Inv, Shape
<1>2. Outputs = {} /\ Writing = {}
  BY <1>1, RunSets DEF Outputs, Writing
<1>3. Waiting = RunSet(0, sort.runs)
  BY <1>1 DEF Waiting, RunSet
<1> QED
  BY <1>1, <1>2, <1>3 DEF Held, Claimed, Busy

\* A run is written within what the two quotas leave.
LEMMA WriteRunStep ==
    ASSUME Inv, WriteRun, pc = "reading", UNCHANGED <<pc, merge>>
    PROVE  /\ Shape' /\ Placed' /\ Account' /\ ForeignKept
           /\ \A n \in DOMAIN fs' : fs'[n] \in [own : BOOLEAN, recs : Seq(Records), bytes : Nat]
           /\ sort' \in [runs : Nat, bytes : Nat, pass : Nat, i : Nat, created : Nat, next : Nat]
<1> DEFINE b == BytesOf(SortedBatch)
           name == <<0, sort.runs>>
           file == [own |-> TRUE, recs |-> SortedBatch, bytes |-> b]
<1>1. SortedBatch \in Seq(Records)
  <2>1. batch \in Seq(Records)
    BY DEF Inv, TypeOK
  <2> QED
    BY <2>1, CoalescedType DEF WriteRun, CanWriteRun, SortedBatch
<1>2. b \in Nat
  BY <1>1, BytesOfType
<1>3. /\ fs' = With(name, file) /\ name \notin DOMAIN fs
      /\ sort' = [sort EXCEPT !.runs = @ + 1, !.bytes = @ + b]
      /\ b <= RunQuota
  BY DEF WriteRun, CanWriteRun, FreeRunName
<1> HIDE DEF b
<1>4. file \in [own : BOOLEAN, recs : Seq(Records), bytes : Nat] /\ file.own /\ file.bytes = b
  BY <1>1, <1>2
<1> HIDE DEF file, name
<1>5. /\ \A n \in DOMAIN fs' : fs'[n] \in [own : BOOLEAN, recs : Seq(Records), bytes : Nat]
      /\ OwnRuns' = OwnRuns \cup {name}
      /\ fs'[name] = file
      /\ \A n \in DOMAIN fs : n # name /\ n \in DOMAIN fs' /\ fs'[n] = fs[n]
      /\ \A n \in DOMAIN fs' : n = name \/ (n \in DOMAIN fs /\ fs'[n] = fs[n])
  BY <1>3, <1>4, FileAdded
<1>6. /\ sort.runs \in Nat /\ sort.bytes \in Nat /\ Quota \in Nat
      /\ sort.runs + 1 \in Nat /\ sort.bytes + b \in Nat
  BY <1>2, SortParts
<1>7. /\ sort'.runs = sort.runs + 1 /\ sort'.bytes = sort.bytes + b
      /\ sort'.pass = sort.pass /\ sort'.i = sort.i /\ sort'.created = sort.created
      /\ sort' \in [runs : Nat, bytes : Nat, pass : Nat, i : Nat, created : Nat, next : Nat]
  BY <1>3, <1>6 DEF Inv, TypeOK
<1>8. /\ sort.pass = 0 /\ sort.i = 0 /\ sort.created = 0 /\ ~merge.on
      /\ Held = RunSet(0, sort.runs)
  BY FirstRuns
<1>9. /\ Waiting' = RunSet(0, sort.runs + 1) /\ Outputs' = {} /\ Writing' = {}
  <2>1. Waiting' = RunSet(0, sort.runs + 1)
    BY <1>7, <1>8 DEF Waiting, RunSet
  <2>2. Outputs' = {}
    BY <1>7, <1>8, RunSets DEF Outputs, RunSet
  <2> QED
    BY <1>8, <2>1, <2>2 DEF Writing
<1>10. Held' = Held \cup {name} /\ Claimed' = Held \cup {name} /\ name \notin Held
  <2>1. RunSet(0, sort.runs + 1) = RunSet(0, sort.runs) \cup {name} /\ name \notin RunSet(0, sort.runs)
    BY <1>6, RunSets DEF name
  <2>2. RunSet(sort.pass, sort.runs)' = RunSet(0, sort.runs + 1)
    BY <1>7, <1>8 DEF RunSet
  <2> QED
    BY <1>8, <1>9, <2>1, <2>2 DEF Held, Claimed, Busy
<1>11. Shape'
  BY <1>7, <1>8 DEF Shape
<1>12. Placed'
  <2>1. OwnRuns = Held
    BY DEF Inv, Placed
  <2>2. OwnRuns' = Held'
    BY <1>5, <1>10, <2>1
  <2>3. \A n \in Claimed' : fs'[n].own
    BY <1>10, <2>1, <2>2, <1>5 DEF OwnRuns
  <2> QED
    BY <2>2, <2>3 DEF Placed
<1>13. Account'
  <2>1. \A n \in Held : fs'[n] = fs[n] /\ fs'[n].bytes \in Nat
    BY <1>5, OwnFiles
  <2>2. Weight(fs', Held) = Weight(fs, Held)
    BY <2>1, WeightSame
  <2>3. Weight(fs', Held \cup {name}) = Weight(fs', Held) + b
    <3>1. fs'[name].bytes = b /\ \A m \in Held \cup {name} : fs'[m].bytes \in Nat
      BY <1>2, <1>4, <1>5, <2>1
    <3>2. IsFiniteSet(Held) /\ name \notin Held
      BY <1>10, OwnFiles
    <3>3. Weight(fs', Held \cup {name}) = Weight(fs', Held) + fs'[name].bytes
      BY <3>1, <3>2, WeightAdd
    <3> QED
      BY <3>1, <3>3
  <2>4. sort.bytes = Weight(fs, Held)
    BY DEF Inv, Account
  <2>5. sort'.bytes = Weight(fs', Held')
    BY <1>7, <1>10, <2>2, <2>3, <2>4
  <2>6. sort.bytes + b <= 2 * Quota
    BY <1>2, <1>3, <1>6 DEF RunQuota
  <2> QED
    BY <1>7, <2>5, <2>6 DEF Account
<1>14. ForeignKept
  BY <1>5 DEF ForeignKept
<1> QED
  BY <1>5, <1>7, <1>11, <1>12, <1>13, <1>14

LEMMA ReadSourceInv == ASSUME Inv, ReadSource PROVE Inv' /\ ForeignKept
<1>1. /\ pc = "reading" /\ pos < Len(spill.recs)
      /\ UNCHANGED <<pc, status, spill, merge, out, groups, failed, total, rows>>
      /\ pos' = pos + 1
  BY DEF ReadSource, AddingUnchanged
<1>2. spill.recs \in Seq(Records) /\ pos \in Nat /\ batch \in Seq(Records) /\ Len(batch) <= BatchCapacity
  BY DEF Inv, TypeOK
<1>3. spill.recs[pos + 1] \in Records /\ pos + 1 \in Nat
  BY <1>1, <1>2
<1>4. CASE Len(batch) = BatchCapacity
  <2>1. WriteRun /\ batch' = << spill.recs[pos + 1] >>
    BY <1>4 DEF ReadSource
  <2>2. batch' \in Seq(Records) /\ Len(batch') <= BatchCapacity
    BY <1>3, <2>1, Constants
  <2>3. /\ Shape' /\ Placed' /\ Account' /\ ForeignKept
        /\ \A n \in DOMAIN fs' : fs'[n] \in [own : BOOLEAN, recs : Seq(Records), bytes : Nat]
        /\ sort' \in [runs : Nat, bytes : Nat, pass : Nat, i : Nat, created : Nat, next : Nat]
    BY <1>1, <2>1, WriteRunStep
  <2>4. TypeOK'
    BY <1>1, <1>3, <2>2, <2>3 DEF Inv, TypeOK
  <2> QED
    BY <2>3, <2>4 DEF Inv
<1>5. CASE Len(batch) # BatchCapacity
  <2>1. UNCHANGED <<fs, sort>> /\ batch' = Append(batch, spill.recs[pos + 1])
    BY <1>5 DEF ReadSource
  <2>2. batch' \in Seq(Records) /\ Len(batch') <= BatchCapacity
    BY <1>2, <1>3, <1>5, <2>1, Constants
  <2>3. Shape' /\ Placed' /\ Account' /\ ForeignKept
    BY <1>1, <2>1, Frame
  <2>4. TypeOK'
    BY <1>1, <1>3, <2>1, <2>2 DEF Inv, TypeOK
  <2> QED
    BY <2>3, <2>4 DEF Inv
<1> QED
  BY <1>4, <1>5

LEMMA LastRunInv == ASSUME Inv, LastRun PROVE Inv' /\ ForeignKept
<1>1. /\ pc = "reading" /\ WriteRun /\ batch' = << >>
      /\ UNCHANGED <<pc, status, spill, pos, merge, out, groups, failed, total, rows>>
  BY DEF LastRun, AddingUnchanged
<1>2. batch' \in Seq(Records) /\ Len(batch') <= BatchCapacity
  BY <1>1, Constants
<1>3. /\ Shape' /\ Placed' /\ Account' /\ ForeignKept
      /\ \A n \in DOMAIN fs' : fs'[n] \in [own : BOOLEAN, recs : Seq(Records), bytes : Nat]
      /\ sort' \in [runs : Nat, bytes : Nat, pass : Nat, i : Nat, created : Nat, next : Nat]
  BY <1>1, WriteRunStep
<1>4. TypeOK'
  BY <1>1, <1>2, <1>3 DEF Inv, TypeOK
<1> QED
  BY <1>3, <1>4 DEF Inv

LEMMA NoRunsInv == ASSUME Inv, NoRuns PROVE Inv' /\ ForeignKept
<1>1. /\ pc = "reading" /\ sort.runs = 0 /\ pc' = "done" /\ status' = "ok"
      /\ UNCHANGED <<spill, pos, batch, fs, sort, merge, out, groups, failed, total, rows>>
  BY DEF NoRuns, AddingUnchanged
<1>2. Held = {} /\ ~merge.on
  BY <1>1, FirstRuns, RunSets
<1>3. TypeOK'
  BY <1>1 DEF Inv, TypeOK
<1>4. Held' = {} /\ ~Busy' /\ OwnRuns' = OwnRuns
  BY <1>1 DEF Held, Busy, OwnRuns
<1>5. Shape' /\ Placed'
  BY <1>1, <1>2, <1>4 DEF Shape, Placed, Inv
<1>6. Account'
  BY <1>1, <1>4, WeightNone, Constants DEF Account
<1> QED
  BY <1>1, <1>3, <1>5, <1>6 DEF Inv, ForeignKept

LEMMA StartMergingInv == ASSUME Inv, StartMerging PROVE Inv' /\ ForeignKept
<1>1. /\ pc = "reading" /\ sort.runs > 0 /\ pc' = "merging"
      /\ sort' = [sort EXCEPT !.next = sort.bytes]
      /\ UNCHANGED <<status, spill, pos, batch, fs, merge, out, groups, failed, total, rows>>
  BY DEF StartMerging, AddingUnchanged
<1>2. /\ sort'.runs = sort.runs /\ sort'.pass = sort.pass /\ sort'.i = sort.i
      /\ sort'.created = sort.created /\ sort'.next = sort.bytes
      /\ sort' \in [runs : Nat, bytes : Nat, pass : Nat, i : Nat, created : Nat, next : Nat]
  BY <1>1, SortParts DEF Inv, TypeOK
<1>3. TypeOK'
  BY <1>1, <1>2 DEF Inv, TypeOK
<1>4. /\ sort.pass = 0 /\ sort.i = 0 /\ sort.created = 0 /\ ~merge.on
      /\ Held = RunSet(0, sort.runs) /\ Waiting = RunSet(0, sort.runs)
      /\ Outputs = {} /\ Writing = {}
  BY <1>1, FirstRuns
<1>5. /\ Waiting' = Waiting /\ Outputs' = Outputs /\ Writing' = Writing
      /\ RunSet(sort.pass, sort.runs)' = RunSet(sort.pass, sort.runs)
  BY <1>1, <1>2, <1>4 DEF Waiting, Outputs, Writing, RunSet
<1>6. Held' = Held /\ Claimed' = Claimed /\ OwnRuns' = OwnRuns /\ Busy /\ Busy'
  BY <1>1, <1>5 DEF Held, Claimed, Busy, OwnRuns
<1>7. Shape'
  BY <1>1, <1>2, <1>4, SortParts DEF Shape
<1>8. Placed'
  BY <1>1, <1>6 DEF Inv, Placed
<1>9. Account'
  <2>1. Weight(fs', (Waiting \cup Outputs)') = Weight(fs, Held)
    BY <1>1, <1>4, <1>5
  <2>2. sort.bytes = Weight(fs, Held) /\ Weight(fs, Held) <= 2 * Quota
    BY <1>1 DEF Inv, Account
  <2> QED
    BY <1>1, <1>2, <1>6, <2>1, <2>2 DEF Account
<1> QED
  BY <1>1, <1>3, <1>7, <1>8, <1>9 DEF Inv, ForeignKept

-----------------------------------------------------------------------------
(* Merging runs *)

\* While a pair is merged its inputs are there, apart from each other and from the
\* output.
LEMMA MergingNames ==
    ASSUME Inv, pc = "merging"
    PROVE  /\ Held = Waiting \cup Outputs \cup Writing
           /\ OwnRuns = Held
           /\ sort.i < sort.runs => Left \in Waiting
           /\ sort.i + 1 < sort.runs => Right \in Waiting
           /\ Left # Right
           /\ merge.on => Out \in Held /\ sort.i + 1 < sort.runs /\ sort.runs > 1
<1>1. /\ sort.i \in Nat /\ sort.runs \in Nat
  BY SortParts
<1>2. sort.i < sort.runs => sort.i \in sort.i..(sort.runs - 1)
  BY <1>1
<1>3. sort.i + 1 < sort.runs => sort.i + 1 \in sort.i..(sort.runs - 1)
  BY <1>1
<1>4. sort.i # sort.i + 1
  BY <1>1
<1>5. merge.on => sort.i + 1 < sort.runs /\ sort.runs > 1
  BY <1>1 DEF Inv, Shape
<1> QED
  BY <1>2, <1>3, <1>4, <1>5 DEF Inv, Placed, Held, Busy, Waiting, Left, Right, Writing

\* The bytes of the runs that are done, and of the output being written.
LEMMA MergingBytes ==
    ASSUME Inv, pc = "merging", merge.on
    PROVE  /\ fs[Out].bytes \in Nat
           /\ Weight(fs, Waiting \cup Outputs) = sort.next
           /\ Weight(fs, Held) = sort.next + fs[Out].bytes
<1>1. IsFiniteSet(Waiting \cup Outputs)
  BY WaitingNames, FS_Union
<1>2. Out \notin Waiting \cup Outputs /\ Held = (Waiting \cup Outputs) \cup {Out}
  BY MergingNames, WaitingNames, NextOutput DEF Writing
<1>3. \A m \in (Waiting \cup Outputs) \cup {Out} : fs[m].bytes \in Nat
  BY <1>2, OwnFiles
<1>4. Weight(fs, (Waiting \cup Outputs) \cup {Out}) = Weight(fs, Waiting \cup Outputs) + fs[Out].bytes
  BY <1>1, <1>2, <1>3, WeightAdd
<1>5. sort.next = Weight(fs, Waiting \cup Outputs)
  BY DEF Inv, Account
<1> QED
  BY <1>2, <1>3, <1>4, <1>5

\* Writing the output adds its bytes to those of the runs that are done.
LEMMA OutputWritten ==
    ASSUME Inv, pc = "merging", fs'[Out].bytes \in Nat,
           \A n \in DOMAIN fs : n # Out => fs'[n] = fs[n]
    PROVE  /\ Weight(fs', Waiting \cup Outputs) = sort.next
           /\ Weight(fs', (Waiting \cup Outputs) \cup {Out}) = sort.next + fs'[Out].bytes
<1> DEFINE S == Waiting \cup Outputs
           o == Out
<1>1. S \subseteq Held
  BY MergingNames
<1>2. o \notin S /\ IsFiniteSet(S)
  BY WaitingNames, NextOutput, FS_Union
<1>3. \A n \in S : fs'[n] = fs[n] /\ fs[n].bytes \in Nat
  BY <1>1, <1>2, OwnFiles
<1>4. sort.next = Weight(fs, S)
  BY DEF Inv, Account
<1> HIDE DEF S, o
<1>5. Weight(fs', S) = Weight(fs, S)
  BY <1>3, WeightSame
<1>6. fs'[o].bytes \in Nat /\ \A n \in S \cup {o} : fs'[n].bytes \in Nat
  BY <1>3 DEF o
<1>7. Weight(fs', S \cup {o}) = Weight(fs', S) + fs'[o].bytes
  BY <1>2, <1>6, WeightAdd
<1> QED
  BY <1>4, <1>5, <1>7 DEF S, o

\* A step that changes no account and no name but that of the output.
LEMMA MergeFrame ==
    ASSUME Inv, pc = "merging", MergingUnchanged, UNCHANGED <<pc, sort>>,
           \A n \in DOMAIN fs' : fs'[n] \in [own : BOOLEAN, recs : Seq(Records), bytes : Nat],
           merge' \in [on : BOOLEAN, a : Nat, b : Nat], merge'.on,
           sort.i + 1 < sort.runs,
           OwnRuns' = OwnRuns \cup {Out},
           \A n \in DOMAIN fs : n # Out => n \in DOMAIN fs' /\ fs'[n] = fs[n],
           \A n \in DOMAIN fs' : n = Out \/ n \in DOMAIN fs,
           Out \in DOMAIN fs => fs[Out].own,
           fs'[Out].bytes \in Nat, sort.next + fs'[Out].bytes <= 2 * Quota
    PROVE  Inv' /\ ForeignKept
<1>1. TypeOK'
  BY DEF Inv, TypeOK, MergingUnchanged, AddingUnchanged
<1>2. Shape'
  BY DEF Inv, Shape
<1>3. /\ Waiting' = Waiting /\ Outputs' = Outputs /\ Writing' = {Out} /\ Busy /\ Busy'
      /\ RunSet(sort.pass, sort.runs)' = RunSet(sort.pass, sort.runs)
  BY DEF Waiting, Outputs, Writing, Out, Busy, RunSet
<1>4. Held = Waiting \cup Outputs \cup Writing /\ OwnRuns = Held /\ Writing \subseteq {Out}
  BY MergingNames DEF Writing
<1>5. Held' = (Waiting \cup Outputs) \cup {Out} /\ OwnRuns' = Held'
  BY <1>3, <1>4 DEF Held
<1>6. Placed'
  <2>1. ASSUME NEW n \in Claimed', n \in DOMAIN fs' PROVE fs'[n].own
    <3>1. CASE n = Out
      BY <3>1, <1>5 DEF OwnRuns
    <3>2. CASE n # Out
      <4>1. n \in Claimed /\ n \in DOMAIN fs
        BY <1>3, <2>1, <3>2 DEF Claimed
      <4> QED
        BY <1>3, <3>2, <4>1 DEF Inv, Placed
    <3> QED
      BY <3>1, <3>2
  <2> QED
    BY <1>5, <2>1 DEF Placed
<1>7. Account'
  <2>1. /\ Weight(fs', Waiting \cup Outputs) = sort.next
        /\ Weight(fs', (Waiting \cup Outputs) \cup {Out}) = sort.next + fs'[Out].bytes
    BY OutputWritten
  <2>7. Weight(fs', Held') <= 2 * Quota
    BY <1>5, <2>1
  <2>8. sort'.next = Weight(fs', (Waiting \cup Outputs)')
    BY <1>3, <2>1
  <2> QED
    BY <2>7, <2>8 DEF Account
<1>8. ForeignKept
  BY DEF ForeignKept
<1> QED
  BY <1>1, <1>2, <1>6, <1>7, <1>8 DEF Inv

LEMMA StartPairInv == ASSUME Inv, StartPair PROVE Inv' /\ ForeignKept
<1> DEFINE file == [own |-> TRUE, recs |-> << >>, bytes |-> 0]
<1>1. /\ pc = "merging" /\ sort.i + 1 < sort.runs /\ Out \notin DOMAIN fs
      /\ fs' = With(Out, file) /\ merge' = [on |-> TRUE, a |-> 0, b |-> 0]
      /\ UNCHANGED <<pc, sort>> /\ MergingUnchanged
  BY DEF StartPair, FreeRunName
<1>2. file \in [own : BOOLEAN, recs : Seq(Records), bytes : Nat] /\ file.own /\ file.bytes = 0
  OBVIOUS
<1> HIDE DEF file
<1>3. /\ \A n \in DOMAIN fs' : fs'[n] \in [own : BOOLEAN, recs : Seq(Records), bytes : Nat]
      /\ OwnRuns' = OwnRuns \cup {Out}
      /\ fs'[Out] = file
      /\ \A n \in DOMAIN fs : n # Out /\ n \in DOMAIN fs' /\ fs'[n] = fs[n]
      /\ \A n \in DOMAIN fs' : n = Out \/ (n \in DOMAIN fs /\ fs'[n] = fs[n])
  BY <1>1, <1>2, FileAdded
<1>4. sort.next + 0 <= 2 * Quota
  <2>1. ~merge.on
    BY DEF StartPair
  <2>2. Held = Waiting \cup Outputs
    BY <1>1, <2>1, MergingNames DEF Writing
  <2> QED
    BY <1>1, <2>2, SortParts DEF Inv, Account
<1>5. merge' \in [on : BOOLEAN, a : Nat, b : Nat] /\ merge'.on
  BY <1>1
<1>6. fs'[Out].bytes \in Nat /\ sort.next + fs'[Out].bytes <= 2 * Quota
  BY <1>2, <1>3, <1>4
<1> QED
  BY <1>1, <1>3, <1>5, <1>6, MergeFrame

\* The record that is written next is a record.
LEMMA ChosenType ==
    ASSUME Inv, MergeRecord
    PROVE  /\ pc = "merging" /\ sort.i + 1 < sort.runs
           /\ Left \in Held /\ Right \in Held /\ Out \in Held /\ OwnRuns = Held
           /\ fs[Left].recs \in Seq(Records) /\ fs[Right].recs \in Seq(Records)
           /\ fs[Out] \in [own : BOOLEAN, recs : Seq(Records), bytes : Nat] /\ fs[Out].own
           /\ merge.on \in BOOLEAN /\ merge.a \in Nat /\ merge.b \in Nat
           /\ (HaveA => HeadA \in Records) /\ (HaveB => HeadB \in Records)
           /\ Chosen \in Records
<1>1. merge.on /\ (HaveA \/ HaveB) /\ Chosen.agg # Refused
  BY DEF MergeRecord
<1>2. pc = "merging" /\ sort.i + 1 < sort.runs
  BY <1>1 DEF Inv, Shape
<1>3. Left \in Held /\ Right \in Held /\ Out \in Held /\ OwnRuns = Held
  BY <1>1, <1>2, MergingNames, SortParts
<1>4. /\ fs[Left].recs \in Seq(Records) /\ fs[Right].recs \in Seq(Records)
      /\ fs[Out] \in [own : BOOLEAN, recs : Seq(Records), bytes : Nat] /\ fs[Out].own
  BY <1>3, OwnFiles DEF Inv, TypeOK
<1>5. merge.on \in BOOLEAN /\ merge.a \in Nat /\ merge.b \in Nat
  BY DEF Inv, TypeOK
<1>6. (HaveA => HeadA \in Records) /\ (HaveB => HeadB \in Records)
  BY <1>4, <1>5, SMTT(30) DEF HaveA, HaveB, HeadA, HeadB
<1>7. Chosen \in Records
  <2>1. CASE TakeA
    BY <1>6, <2>1 DEF Chosen, TakeA
  <2>2. CASE ~TakeA /\ TakeB
    BY <1>6, <2>2 DEF Chosen, TakeB
  <2>3. CASE ~TakeA /\ ~TakeB
    <3>1. HaveA /\ HaveB
      BY <1>1, <2>3 DEF TakeA, TakeB
    <3>2. HeadA \in Records /\ HeadA.agg \in States /\ HeadB.agg \in States
      BY <1>6, <3>1, RecordParts
    <3>3. Merge(HeadA.agg, HeadB.agg) \in Outcomes
      BY <3>2, MergeType
    <3> DEFINE m == Merge(HeadA.agg, HeadB.agg)
               h == HeadA
    <3>4. Chosen = [h EXCEPT !.agg = m]
      BY <2>3 DEF Chosen
    <3> HIDE DEF m, h
    <3>5. Chosen.agg = m /\ h \in Records
      BY <3>2, <3>4 DEF h, Records
    <3>6. m \in States
      BY <1>1, <3>3, <3>5 DEF m, Outcomes
    <3> QED
      BY <3>4, <3>5, <3>6 DEF Records
  <2> QED
    BY <2>1, <2>2, <2>3
<1> QED
  BY <1>2, <1>3, <1>4, <1>5, <1>6, <1>7

LEMMA MergeRecordInv == ASSUME Inv, MergeRecord PROVE Inv' /\ ForeignKept
<1> DEFINE file == Appended(fs[Out], Chosen)
<1>1. /\ merge.on /\ (HaveA \/ HaveB) /\ Chosen.agg # Refused
      /\ fs[Out].bytes + RecordBytes[Chosen.key] <= OutQuota
      /\ fs' = With(Out, file)
      /\ merge' = [merge EXCEPT !.a = IF TakeB THEN @ ELSE @ + 1,
                               !.b = IF TakeA THEN @ ELSE @ + 1]
      /\ UNCHANGED <<pc, sort>> /\ MergingUnchanged
  BY DEF MergeRecord
<1>2. pc = "merging" /\ sort.i + 1 < sort.runs
  BY ChosenType
<1>3. Left \in Held /\ Right \in Held /\ Out \in Held /\ OwnRuns = Held
  BY ChosenType
<1>4. /\ fs[Left].recs \in Seq(Records) /\ fs[Right].recs \in Seq(Records)
      /\ fs[Out] \in [own : BOOLEAN, recs : Seq(Records), bytes : Nat] /\ fs[Out].own
  BY ChosenType
<1>5. merge.on \in BOOLEAN /\ merge.a \in Nat /\ merge.b \in Nat
  BY ChosenType
<1>7. Chosen \in Records
  BY ChosenType
<1>8. RecordBytes[Chosen.key] \in Nat
  BY <1>7, RecordParts, Constants
<1>9. /\ file \in [own : BOOLEAN, recs : Seq(Records), bytes : Nat] /\ file.own
      /\ file.bytes = fs[Out].bytes + RecordBytes[Chosen.key]
  <2> DEFINE f == fs[Out]
             r == Chosen
             b == RecordBytes[Chosen.key]
  <2>1. file = [f EXCEPT !.recs = Append(@, r), !.bytes = @ + b]
    BY DEF Appended
  <2>2. f \in [own : BOOLEAN, recs : Seq(Records), bytes : Nat] /\ f.own /\ r \in Records /\ b \in Nat
    BY <1>4, <1>7, <1>8
  <2> HIDE DEF f, r, b, file
  <2>3. Append(f.recs, r) \in Seq(Records) /\ f.bytes + b \in Nat
    BY <2>2
  <2>4. file \in [own : BOOLEAN, recs : Seq(Records), bytes : Nat] /\ file.own
    BY <2>1, <2>2, <2>3
  <2>5. file.bytes = f.bytes + b
    BY <2>1, <2>2
  <2> QED
    BY <2>4, <2>5 DEF f, b
<1> HIDE DEF file
<1>10. /\ \A n \in DOMAIN fs' : fs'[n] \in [own : BOOLEAN, recs : Seq(Records), bytes : Nat]
       /\ OwnRuns' = OwnRuns
       /\ DOMAIN fs' = DOMAIN fs
       /\ fs'[Out] = file
       /\ \A n \in DOMAIN fs : n # Out => fs'[n] = fs[n]
  BY <1>1, <1>3, <1>9, FileWritten
<1>11. merge' \in [on : BOOLEAN, a : Nat, b : Nat] /\ merge'.on
  <2>1. merge.a + 1 \in Nat /\ merge.b + 1 \in Nat /\ merge \in [on : BOOLEAN, a : Nat, b : Nat]
    BY <1>5 DEF Inv, TypeOK
  <2>2. PICK a \in Nat, b \in Nat : merge' = [merge EXCEPT !.a = a, !.b = b]
    BY <1>1, <1>5, <2>1
  <2> QED
    BY <1>1, <2>1, <2>2
<1>12. fs'[Out].bytes \in Nat /\ sort.next + fs'[Out].bytes <= 2 * Quota
  <2>1. fs[Out].bytes \in Nat /\ sort.next \in Nat /\ Quota \in Nat
    BY <1>4, SortParts
  <2>2. fs[Out].bytes + RecordBytes[Chosen.key] <= 2 * Quota - sort.next
    BY <1>1, <1>8, <2>1 DEF OutQuota
  <2> QED
    BY <1>8, <1>9, <1>10, <2>1, <2>2
<1>13. /\ OwnRuns' = OwnRuns \cup {Out}
       /\ \A n \in DOMAIN fs : n # Out => n \in DOMAIN fs' /\ fs'[n] = fs[n]
       /\ \A n \in DOMAIN fs' : n = Out \/ n \in DOMAIN fs
  BY <1>3, <1>10
<1> QED
  BY <1>1, <1>2, <1>4, <1>10, <1>11, <1>12, <1>13, MergeFrame

\* The next pair to merge is at twice the runs written.
LEMMA NextPair ==
    ASSUME NEW r \in Nat, NEW i \in Nat, NEW c \in Nat, i = 2 * c, i < r
    PROVE  i + 2 = 2 * (c + 1) /\ i + 2 <= r + 1
  OBVIOUS

\* With a pair done, or the odd run moved, one run of the next pass is there for the
\* runs that were merged into it.
LEMMA PairDone ==
    ASSUME Inv, pc = "merging", sort.i < sort.runs,
           UNCHANGED <<pc, status, spill, pos, batch, out, groups, failed, total, rows>>,
           merge' \in [on : BOOLEAN, a : Nat, b : Nat], ~merge'.on,
           sort' \in [runs : Nat, bytes : Nat, pass : Nat, i : Nat, created : Nat, next : Nat],
           sort'.runs = sort.runs, sort'.pass = sort.pass,
           sort'.i = sort.i + 2, sort'.created = sort.created + 1,
           \A n \in DOMAIN fs' : fs'[n] \in [own : BOOLEAN, recs : Seq(Records), bytes : Nat],
           OwnRuns' = (Waiting \ {Left, Right}) \cup Outputs \cup {Out},
           \A n \in DOMAIN fs : ~fs[n].own => n \in DOMAIN fs' /\ fs'[n] = fs[n],
           \A n \in DOMAIN fs' : n = Out \/ (n \in DOMAIN fs /\ fs'[n] = fs[n]),
           sort'.next = Weight(fs', (Waiting \ {Left, Right}) \cup Outputs \cup {Out}),
           sort'.next <= 2 * Quota,
           sort.runs > 1
    PROVE  Inv' /\ ForeignKept
<1>1. TypeOK'
  BY DEF Inv, TypeOK
<1>2. /\ sort.runs \in Nat /\ sort.i \in Nat /\ sort.created \in Nat /\ sort.pass \in Nat
      /\ sort.i = 2 * sort.created
  BY SortParts DEF Inv, Shape
<1>3. sort'.i = 2 * sort'.created /\ sort'.i <= sort'.runs + 1 /\ sort'.runs > 1
  <2>1. sort.i + 2 = 2 * (sort.created + 1) /\ sort.i + 2 <= sort.runs + 1
    BY <1>2, NextPair
  <2> QED
    BY <2>1, Zenon
<1>4. Shape'
  BY <1>3 DEF Shape
<1>5. Waiting' = Waiting \ {Left, Right}
  <2>0. \A a, b \in Nat : (a + 2)..(b - 1) = (a..(b - 1)) \ {a, a + 1}
    <3> TAKE a, b \in Nat
    <3>1. \A j : j \in (a + 2)..(b - 1) <=> j \in (a..(b - 1)) \ {a, a + 1}
      OBVIOUS
    <3> QED
      BY <3>1
  <2>1. (sort.i + 2)..(sort.runs - 1) = (sort.i..(sort.runs - 1)) \ {sort.i, sort.i + 1}
    BY <1>2, <2>0
  <2>2. Waiting' = {<<sort.pass, j>> : j \in (sort.i + 2)..(sort.runs - 1)}
    BY DEF Waiting
  <2> QED
    BY <2>1, <2>2 DEF Waiting, Left, Right
<1>6. Outputs' = Outputs \cup {Out}
  <2>1. Outputs' = RunSet(sort.pass + 1, sort.created + 1)
    BY DEF Outputs, RunSet
  <2> QED
    BY <2>1, NextOutput
<1>7. Writing' = {} /\ Busy /\ Busy' /\ RunSet(sort.pass, sort.runs)' = RunSet(sort.pass, sort.runs)
  BY DEF Writing, Busy, RunSet
<1>8. Held' = (Waiting \ {Left, Right}) \cup Outputs \cup {Out}
      /\ Held' = (Waiting \cup Outputs)' /\ OwnRuns' = Held'
  BY <1>5, <1>6, <1>7 DEF Held
<1>9. Placed'
  <2>1. ASSUME NEW n \in Claimed', n \in DOMAIN fs' PROVE fs'[n].own
    <3>1. CASE n = Out
      BY <3>1, <1>8 DEF OwnRuns
    <3>2. CASE n # Out
      <4>1. n \in Claimed /\ n \in DOMAIN fs /\ fs'[n] = fs[n]
        BY <1>6, <1>7, <2>1, <3>2 DEF Claimed
      <4> QED
        BY <1>7, <4>1 DEF Inv, Placed
    <3> QED
      BY <3>1, <3>2
  <2> QED
    BY <1>8, <2>1 DEF Placed
<1>10. Account'
  BY <1>8 DEF Account
<1>11. ForeignKept
  BY DEF ForeignKept
<1> QED
  BY <1>1, <1>4, <1>9, <1>10, <1>11 DEF Inv

LEMMA EndPairInv == ASSUME Inv, EndPair PROVE Inv' /\ ForeignKept
<1> DEFINE N == (Waiting \ {Left, Right}) \cup Outputs \cup {Out}
<1>1. /\ merge.on /\ fs' = Without({Left, Right}) /\ merge' = NoMerge
      /\ sort' = [sort EXCEPT !.i = @ + 2, !.created = @ + 1, !.next = NextBytes]
      /\ UNCHANGED <<pc, status, spill, pos, batch, out, groups, failed, total, rows>>
  BY DEF EndPair, MergingUnchanged, AddingUnchanged
<1>2. pc = "merging" /\ sort.i + 1 < sort.runs /\ sort.runs > 1 /\ sort.i < sort.runs
  BY <1>1, SortParts DEF Inv, Shape
<1>3. /\ Held = Waiting \cup Outputs \cup {Out} /\ OwnRuns = Held
      /\ Left \in Waiting /\ Right \in Waiting /\ Left # Right
  BY <1>1, <1>2, MergingNames DEF Writing
<1>4. /\ IsFiniteSet(N) /\ Held = (N \cup {Left}) \cup {Right}
      /\ Left \notin N /\ Right \notin N \cup {Left} /\ IsFiniteSet(N \cup {Left})
      /\ N = Held \ {Left, Right}
  <2>1. Waiting \cap Outputs = {} /\ Out \notin Waiting
    BY WaitingNames
  <2>2. N = Held \ {Left, Right} /\ Held = (N \cup {Left}) \cup {Right}
        /\ Left \notin N /\ Right \notin N \cup {Left}
    BY <1>3, <2>1
  <2>3. N \subseteq Held /\ N \cup {Left} \subseteq Held
    BY <1>3
  <2> HIDE DEF N
  <2>4. IsFiniteSet(N) /\ IsFiniteSet(N \cup {Left})
    BY <2>3, OwnFiles, FS_Subset
  <2> QED
    BY <2>2, <2>4
<1> HIDE DEF N
<1>5. /\ \A n \in DOMAIN fs' : fs'[n] \in [own : BOOLEAN, recs : Seq(Records), bytes : Nat]
      /\ OwnRuns' = OwnRuns \ {Left, Right}
      /\ DOMAIN fs' = DOMAIN fs \ {Left, Right}
      /\ \A n \in DOMAIN fs' : fs'[n] = fs[n]
  BY <1>1, FilesRemoved
<1>6. \A n \in Held : n \in DOMAIN fs /\ fs[n].own /\ fs[n].bytes \in Nat
  BY OwnFiles
<1>7. /\ \A n \in N \cup {Left} : fs[n].bytes \in Nat
      /\ \A n \in (N \cup {Left}) \cup {Right} : fs[n].bytes \in Nat
      /\ fs[Left].bytes \in Nat /\ fs[Right].bytes \in Nat
  BY <1>4, <1>6
<1>8. Weight(fs, N \cup {Left}) = Weight(fs, N) + fs[Left].bytes
  BY <1>4, <1>7, WeightAdd
<1>9. Weight(fs, (N \cup {Left}) \cup {Right}) = Weight(fs, N \cup {Left}) + fs[Right].bytes
  BY <1>4, <1>7, WeightAdd
<1>10. \A n \in N : n \in DOMAIN fs' /\ fs'[n] = fs[n]
  BY <1>4, <1>5, <1>6
<1>11. Weight(fs', N) = Weight(fs, N)
  BY <1>10, WeightSame
<1>12. Weight(fs, N) \in Nat
  BY <1>4, <1>7, WeightType
<1>13. /\ fs[Out].bytes \in Nat
       /\ Weight(fs, Held) = sort.next + fs[Out].bytes
       /\ Weight(fs, Held) <= 2 * Quota
  BY <1>1, <1>2, MergingBytes DEF Inv, Account
<1>14. /\ NextBytes = Weight(fs', N) /\ NextBytes \in Nat /\ NextBytes <= 2 * Quota
  <2>1. /\ sort.next \in Nat /\ Quota \in Nat
    BY SortParts
  <2>2. Weight(fs, N) + fs[Left].bytes + fs[Right].bytes = sort.next + fs[Out].bytes
    BY <1>4, <1>8, <1>9, <1>13
  <2>3. NextBytes = sort.next + fs[Out].bytes - (fs[Left].bytes + fs[Right].bytes)
    BY DEF NextBytes
  <2>4. NextBytes = Weight(fs, N)
    BY <1>7, <1>12, <1>13, <2>1, <2>2, <2>3
  <2> QED
    BY <1>7, <1>11, <1>12, <1>13, <2>1, <2>2, <2>4
<1>15. /\ sort'.runs = sort.runs /\ sort'.pass = sort.pass
       /\ sort'.i = sort.i + 2 /\ sort'.created = sort.created + 1 /\ sort'.next = NextBytes
       /\ sort' \in [runs : Nat, bytes : Nat, pass : Nat, i : Nat, created : Nat, next : Nat]
  <2>1. sort.i + 2 \in Nat /\ sort.created + 1 \in Nat
        /\ sort \in [runs : Nat, bytes : Nat, pass : Nat, i : Nat, created : Nat, next : Nat]
    BY SortParts, SMTT(30) DEF Inv, TypeOK
  <2> QED
    BY <1>1, <1>14, <2>1
<1>16. OwnRuns' = (Waiting \ {Left, Right}) \cup Outputs \cup {Out}
  BY <1>3, <1>4, <1>5 DEF N
<1>17. sort'.next = Weight(fs', (Waiting \ {Left, Right}) \cup Outputs \cup {Out})
       /\ sort'.next <= 2 * Quota
  BY <1>14, <1>15 DEF N
<1>18. \A n \in DOMAIN fs : ~fs[n].own => n \in DOMAIN fs' /\ fs'[n] = fs[n]
  BY <1>3, <1>5, <1>6
<1>19. \A n \in DOMAIN fs' : n = Out \/ (n \in DOMAIN fs /\ fs'[n] = fs[n])
  BY <1>5
<1>20. merge' \in [on : BOOLEAN, a : Nat, b : Nat] /\ ~merge'.on
  BY <1>1 DEF NoMerge
<1> QED
  BY <1>1, <1>2, <1>5, <1>15, <1>16, <1>17, <1>18, <1>19, <1>20, PairDone

LEMMA MoveOddInv == ASSUME Inv, MoveOdd PROVE Inv' /\ ForeignKept
<1> DEFINE S == (Waiting \ {Left, Right}) \cup Outputs
<1>1. /\ pc = "merging" /\ sort.runs > 1 /\ ~merge.on /\ sort.i + 1 = sort.runs
      /\ Out \notin DOMAIN fs /\ fs' = Renamed(Left, Out)
      /\ sort' = [sort EXCEPT !.i = @ + 2, !.created = @ + 1]
      /\ UNCHANGED <<pc, merge, status, spill, pos, batch, out, groups, failed, total, rows>>
  BY DEF MoveOdd, MergingUnchanged, AddingUnchanged, OddRun, FreeRunName
<1>2. sort.i < sort.runs
  BY <1>1, SortParts
<1>3. Held = Waiting \cup Outputs /\ OwnRuns = Held /\ Left \in Waiting
  BY <1>1, <1>2, MergingNames DEF Writing
<1>4. Right \notin Waiting
  <2>1. sort.i + 1 \notin sort.i..(sort.runs - 1)
    BY <1>1, SortParts
  <2> QED
    BY <2>1 DEF Waiting, Right
<1>5. /\ IsFiniteSet(S) /\ Held = S \cup {Left} /\ Left \notin S /\ Out \notin S /\ S = Held \ {Left}
  <2>1. Waiting \cap Outputs = {}
    BY WaitingNames
  <2>2. S = Held \ {Left} /\ Held = S \cup {Left} /\ Left \notin S
    BY <1>3, <1>4, <2>1
  <2>3. S \subseteq Held /\ Out \notin Held
    BY <1>1, <2>2, OwnFiles
  <2> HIDE DEF S
  <2>4. IsFiniteSet(S) /\ Out \notin S
    BY <2>3, OwnFiles, FS_Subset
  <2> QED
    BY <2>2, <2>4
<1> HIDE DEF S
<1>6. /\ \A n \in DOMAIN fs' : fs'[n] \in [own : BOOLEAN, recs : Seq(Records), bytes : Nat]
      /\ OwnRuns' = (OwnRuns \ {Left}) \cup {Out}
      /\ fs'[Out] = fs[Left]
      /\ DOMAIN fs' = (DOMAIN fs \ {Left}) \cup {Out}
      /\ \A n \in DOMAIN fs : n # Left => fs'[n] = fs[n]
  BY <1>1, <1>3, FileRenamed
<1>7. \A n \in Held : n \in DOMAIN fs /\ fs[n].own /\ fs[n].bytes \in Nat
  BY OwnFiles
<1>8. \A n \in S : fs'[n] = fs[n] /\ fs[n].bytes \in Nat
  BY <1>5, <1>6, <1>7
<1>9. fs[Left].bytes \in Nat /\ \A n \in S \cup {Left} : fs[n].bytes \in Nat
  BY <1>5, <1>7
<1>10. Weight(fs, S \cup {Left}) = Weight(fs, S) + fs[Left].bytes
  BY <1>5, <1>9, WeightAdd
<1>11. Weight(fs', S) = Weight(fs, S)
  BY <1>8, WeightSame
<1>12. fs'[Out].bytes \in Nat /\ \A n \in S \cup {Out} : fs'[n].bytes \in Nat
  BY <1>6, <1>8, <1>9
<1>13. Weight(fs', S \cup {Out}) = Weight(fs', S) + fs'[Out].bytes
  BY <1>5, <1>12, WeightAdd
<1>14. Weight(fs', S \cup {Out}) = Weight(fs, Held)
  BY <1>5, <1>6, <1>10, <1>11, <1>13
<1>15. Weight(fs, Held) = sort.next /\ Weight(fs, Held) <= 2 * Quota
  BY <1>1, <1>3 DEF Inv, Account
<1>16. /\ sort'.runs = sort.runs /\ sort'.pass = sort.pass
       /\ sort'.i = sort.i + 2 /\ sort'.created = sort.created + 1 /\ sort'.next = sort.next
       /\ sort' \in [runs : Nat, bytes : Nat, pass : Nat, i : Nat, created : Nat, next : Nat]
  <2>1. sort.i + 2 \in Nat /\ sort.created + 1 \in Nat
        /\ sort \in [runs : Nat, bytes : Nat, pass : Nat, i : Nat, created : Nat, next : Nat]
    BY SortParts DEF Inv, TypeOK
  <2> QED
    BY <1>1, <2>1
<1>17. OwnRuns' = (Waiting \ {Left, Right}) \cup Outputs \cup {Out}
  BY <1>3, <1>5, <1>6 DEF S
<1>18. sort'.next = Weight(fs', (Waiting \ {Left, Right}) \cup Outputs \cup {Out})
       /\ sort'.next <= 2 * Quota
  BY <1>14, <1>15, <1>16 DEF S
<1>19. \A n \in DOMAIN fs : ~fs[n].own => n \in DOMAIN fs' /\ fs'[n] = fs[n]
  BY <1>3, <1>6, <1>7
<1>20. \A n \in DOMAIN fs' : n = Out \/ (n \in DOMAIN fs /\ fs'[n] = fs[n])
  BY <1>6
<1>21. merge' \in [on : BOOLEAN, a : Nat, b : Nat] /\ ~merge'.on
  BY <1>1 DEF Inv, TypeOK
<1> QED
  BY <1>1, <1>2, <1>6, <1>16, <1>17, <1>18, <1>19, <1>20, <1>21, PairDone

LEMMA EndPassInv == ASSUME Inv, EndPass PROVE Inv' /\ ForeignKept
<1>1. /\ pc = "merging" /\ sort.runs > 1 /\ ~merge.on /\ sort.i >= sort.runs
      /\ sort' = [runs |-> NextCount, bytes |-> sort.next, pass |-> sort.pass + 1,
                  i |-> 0, created |-> 0, next |-> sort.next]
      /\ UNCHANGED <<pc, fs, merge, status, spill, pos, batch, out, groups, failed, total, rows>>
  BY DEF EndPass, MergingUnchanged, AddingUnchanged
<1>2. /\ sort.runs \in Nat /\ sort.pass \in Nat /\ sort.created \in Nat /\ sort.next \in Nat
      /\ sort.i = 2 * sort.created /\ sort.i <= sort.runs + 1 /\ sort.i \in Nat
  BY <1>1, SortParts DEF Inv, Shape
<1>3. NextCount = sort.created /\ NextCount >= 1
  <2>1. \A r, c \in Nat : r > 1 /\ 2 * c >= r /\ 2 * c <= r + 1 =>
            (r \div 2) + (r % 2) = c /\ c >= 1
    OBVIOUS
  <2> QED
    BY <1>1, <1>2, <2>1 DEF NextCount
<1>4. /\ sort'.runs = sort.created /\ sort'.pass = sort.pass + 1 /\ sort'.i = 0
      /\ sort'.created = 0 /\ sort'.next = sort.next
      /\ sort' \in [runs : Nat, bytes : Nat, pass : Nat, i : Nat, created : Nat, next : Nat]
  BY <1>1, <1>2, <1>3
<1>5. TypeOK'
  BY <1>1, <1>4 DEF Inv, TypeOK
<1>6. Waiting = {} /\ Writing = {}
  <2>1. sort.i..(sort.runs - 1) = {}
    BY <1>1, <1>2
  <2> QED
    BY <1>1, <2>1 DEF Waiting, Writing
<1>7. /\ Waiting' = Outputs /\ Outputs' = {} /\ Writing' = {}
      /\ RunSet(sort.pass, sort.runs)' = Outputs
  <2>1. Waiting' = RunSet(sort.pass + 1, sort.created)
    BY <1>4 DEF Waiting, RunSet
  <2>2. Outputs' = {}
    BY <1>4 DEF Outputs, RunSet
  <2>3. Writing' = {}
    BY <1>1 DEF Writing
  <2>4. RunSet(sort.pass, sort.runs)' = RunSet(sort.pass + 1, sort.created)
    BY <1>4 DEF RunSet
  <2> QED
    BY <2>1, <2>2, <2>3, <2>4 DEF Outputs
<1>8. /\ Held = Outputs /\ Held' = Outputs /\ Claimed' = Outputs /\ OwnRuns' = OwnRuns
      /\ OwnRuns = Outputs
  BY <1>1, <1>6, <1>7, MergingNames DEF Held, Claimed, Busy, OwnRuns
<1>9. Shape'
  BY <1>1, <1>3, <1>4 DEF Shape
<1>10. Placed'
  BY <1>1, <1>8 DEF Placed, OwnRuns
<1>11. Account'
  <2>1. Weight(fs, Outputs) = sort.next /\ Weight(fs, Outputs) <= 2 * Quota
    BY <1>1, <1>6, <1>8 DEF Inv, Account
  <2>2. (Waiting \cup Outputs)' = Outputs
    BY <1>7
  <2> QED
    BY <1>1, <1>4, <1>8, <2>1, <2>2 DEF Account
<1> QED
  BY <1>1, <1>5, <1>9, <1>10, <1>11 DEF Inv, ForeignKept

LEMMA MergeFailsInv == ASSUME Inv, MergeFails PROVE Inv' /\ ForeignKept
<1>1. pc = "merging" /\ FinalizeFails(PassLeftovers)
  BY DEF MergeFails
<1>2. PassLeftovers = Claimed
  BY DEF PassLeftovers, Claimed, Writing, Outputs
<1>3. Held \subseteq Claimed
  BY <1>1, MergingNames, WaitingNames DEF Claimed
<1> QED
  BY <1>1, <1>2, <1>3, FinalizeFailsInv DEF Busy

-----------------------------------------------------------------------------
(* Giving the groups out *)

\* The one run that is left is all that finalize holds.
LEMMA LastRunLeft ==
    ASSUME Inv, pc \in {"merging", "emitting"}, sort.runs = 1
    PROVE  Held = {Final} /\ Final \in Claimed /\ OwnRuns = {Final} /\ ~merge.on
<1>1. sort.i = 0 /\ sort.created = 0 /\ ~merge.on
  BY SortParts DEF Inv, Shape
<1>2. Waiting = {Final} /\ Outputs = {} /\ Writing = {}
  <2>1. sort.i..(sort.runs - 1) = {0}
    BY <1>1
  <2>2. Waiting = {Final}
    BY <2>1 DEF Waiting, Final
  <2> QED
    BY <1>1, <2>2, RunSets DEF Outputs, Writing
<1>3. Held = {Final}
  BY <1>2 DEF Held, Busy
<1>4. Final \in Claimed
  BY <1>2, WaitingNames DEF Claimed
<1> QED
  BY <1>1, <1>3, <1>4 DEF Inv, Placed

LEMMA StartEmittingInv == ASSUME Inv, StartEmitting PROVE Inv' /\ ForeignKept
<1>1. /\ pc = "merging" /\ sort.runs = 1 /\ pc' = "emitting" /\ pos' = 0
      /\ UNCHANGED <<status, spill, batch, fs, sort, merge, out, groups, failed, total, rows>>
  BY DEF StartEmitting, AddingUnchanged
<1>2. ~merge.on
  BY <1>1, LastRunLeft
<1>3. TypeOK'
  BY <1>1 DEF Inv, TypeOK
<1>4. /\ Waiting' = Waiting /\ Outputs' = Outputs /\ Writing' = Writing /\ Busy /\ Busy'
      /\ RunSet(sort.pass, sort.runs)' = RunSet(sort.pass, sort.runs) /\ OwnRuns' = OwnRuns
  BY <1>1 DEF Waiting, Outputs, Writing, Out, Busy, RunSet, OwnRuns
<1>5. Held' = Held /\ Claimed' = Claimed
  BY <1>4 DEF Held, Claimed
<1>6. Shape'
  BY <1>1, <1>2 DEF Inv, Shape
<1>7. Placed'
  BY <1>1, <1>4, <1>5 DEF Inv, Placed
<1>8. Account'
  <2>1. (Waiting \cup Outputs)' = Waiting \cup Outputs
    BY <1>4
  <2> QED
    BY <1>1, <1>5, <2>1 DEF Inv, Account
<1> QED
  BY <1>1, <1>3, <1>6, <1>7, <1>8 DEF Inv, ForeignKept

LEMMA EmitGroupInv == ASSUME Inv, EmitGroup PROVE Inv' /\ ForeignKept
<1>1. /\ pc = "emitting" /\ pos < Len(fs[Final].recs) /\ pos' = pos + 1
      /\ out' = Append(out, fs[Final].recs[pos + 1])
      /\ UNCHANGED <<pc, status, spill, batch, fs, sort, merge, groups, failed, total, rows>>
  BY DEF EmitGroup, AddingUnchanged
<1>2. sort.runs = 1
  BY <1>1 DEF Inv, Shape
<1>3. fs[Final].recs \in Seq(Records) /\ pos \in Nat /\ out \in Seq(Records)
  BY <1>1, <1>2, LastRunLeft, OwnFiles DEF Inv, TypeOK
<1>4. fs[Final].recs[pos + 1] \in Records /\ pos + 1 \in Nat
  BY <1>1, <1>3
<1>5. out' \in Seq(Records)
  BY <1>1, <1>3, <1>4
<1>6. TypeOK'
  BY <1>1, <1>4, <1>5 DEF Inv, TypeOK
<1> QED
  BY <1>1, <1>6, Frame DEF Inv

LEMMA EmitEndInv == ASSUME Inv, EmitEnd PROVE Inv' /\ ForeignKept
<1>1. /\ pc = "emitting" /\ pc' = "done" /\ status' = "ok" /\ fs' = Without({Final})
      /\ UNCHANGED <<spill, pos, batch, sort, merge, out, groups, failed, total, rows>>
  BY DEF EmitEnd, AddingUnchanged
<1>2. sort.runs = 1
  BY <1>1 DEF Inv, Shape
<1>3. OwnRuns = {Final} /\ ~merge.on
  BY <1>1, <1>2, LastRunLeft
<1>4. /\ \A n \in DOMAIN fs' : fs'[n] \in [own : BOOLEAN, recs : Seq(Records), bytes : Nat]
      /\ OwnRuns' = OwnRuns \ {Final}
      /\ DOMAIN fs' = DOMAIN fs \ {Final}
      /\ \A n \in DOMAIN fs' : fs'[n] = fs[n]
  BY <1>1, FilesRemoved
<1>5. TypeOK'
  BY <1>1, <1>4 DEF Inv, TypeOK
<1>6. Held' = {} /\ OwnRuns' = {} /\ ~Busy'
  BY <1>1, <1>3, <1>4 DEF Held, Busy
<1>7. Shape' /\ Placed'
  BY <1>1, <1>3, <1>6 DEF Shape, Placed
<1>8. Account'
  <2>1. 0 <= 2 * Quota
    BY Constants
  <2> QED
    BY <1>1, <1>6, <2>1, WeightNone DEF Account
<1>9. ForeignKept
  BY <1>3, <1>4 DEF ForeignKept, OwnRuns
<1> QED
  BY <1>5, <1>7, <1>8, <1>9 DEF Inv

LEMMA EmitFailsInv == ASSUME Inv, EmitFails PROVE Inv' /\ ForeignKept
<1>1. pc \in {"merging", "emitting"} /\ sort.runs = 1 /\ FinalizeFails({Final})
  BY DEF EmitFails, Inv, Shape
<1>2. Held = {Final} /\ Final \in Claimed
  BY <1>1, LastRunLeft
<1> QED
  BY <1>1, <1>2, FinalizeFailsInv DEF Busy

-----------------------------------------------------------------------------
(* The theorems about the files *)

LEMMA NextInv == ASSUME Inv, [Next]_vars PROVE Inv' /\ ForeignKept
<1>1. CASE Add
  BY <1>1, AddFoundInv, AddNewInv, AddFlushInv DEF Add
<1>2. CASE Sort
  BY <1>2, FinalizeInv, ReadSourceInv, LastRunInv, NoRunsInv, StartMergingInv DEF Sort
<1>3. CASE MergeRuns
  BY <1>3, StartPairInv, MergeRecordInv, EndPairInv, MoveOddInv, EndPassInv DEF MergeRuns
<1>4. CASE EmitRun
  BY <1>4, StartEmittingInv, EmitGroupInv, EmitEndInv DEF EmitRun
<1>5. CASE Refuse
  BY <1>5, ReadFailsInv, MergeFailsInv DEF Refuse
<1>6. CASE Fault
  BY <1>6, FlushFailsInv, CloseSpillFailsInv, ReadFailsInv, MergeFailsInv, EmitFailsInv DEF Fault
<1>7. CASE UNCHANGED vars
  <2>1. UNCHANGED <<pc, status, groups, failed, spill, pos, batch, fs, sort, merge, out, total, rows>>
    BY <1>7 DEF vars
  <2>2. TypeOK'
    BY <2>1 DEF Inv, TypeOK
  <2> QED
    BY <2>1, <2>2, Frame DEF Inv
<1> QED
  BY <1>1, <1>2, <1>3, <1>4, <1>5, <1>6, <1>7 DEF Next, Spent

\* The reducer's files are the runs its place in the passes calls for, and its
\* account of bytes is the account of those files, in every reachable state.
THEOREM ReducerInvariant == Spec => []Inv
<1>1. Inv /\ [Next]_vars => Inv'
  BY NextInv
<1> QED
  BY InitInv, <1>1, PTL DEF Spec

\* Every variable of the reducer keeps its type: in particular no refused merge and
\* no refused observation ever becomes a record.
THEOREM TypeCorrect == Spec => []TypeOK
<1>1. Inv => TypeOK
  BY DEF Inv
<1> QED
  BY ReducerInvariant, <1>1, PTL

\* The runs on disk never take more than twice the spill quota, and run_bytes and
\* next_bytes are exactly what they take.
THEOREM TwoQuotasSuffice == Spec => []RunsWithinTwoQuotas
<1>1. Inv => RunsWithinTwoQuotas
  <2> SUFFICES ASSUME Inv PROVE RunsWithinTwoQuotas
    OBVIOUS
  <2>1. OwnRuns = Held
    BY DEF Inv, Placed
  <2>2. OwnBytes = Weight(fs, Held)
    BY <2>1, WeightSize DEF OwnBytes
  <2>3. (pc = "merging" /\ ~merge.on) => Held = Waiting \cup Outputs
    BY DEF Held, Busy, Writing
  <2> QED
    BY <2>2, <2>3 DEF Inv, Account, RunsWithinTwoQuotas
<1> QED
  BY ReducerInvariant, <1>1, PTL

\* Before finalize and after it, whatever made it return, no run of its own exists.
THEOREM NoRunIsLeft == Spec => []RunsCleanedUp
<1>1. Inv => RunsCleanedUp
  BY DEF Inv, Placed, Held, Busy, RunsCleanedUp
<1> QED
  BY ReducerInvariant, <1>1, PTL

\* No step, the clean-up of a failure included, overwrites or removes a file that had
\* a run's name before.
THEOREM ForeignRunsAreSafe == Spec => ForeignRunsStay
<1>1. Inv /\ [Next]_vars => [ForeignKept]_vars
  BY NextInv
<1>2. ForeignRunsStay <=> [][ForeignKept]_vars
  BY PTL DEF ForeignRunsStay, ForeignKept
<1> QED
  BY ReducerInvariant, <1>1, <1>2, PTL DEF Spec

-----------------------------------------------------------------------------
(* What is counted *)

\* The numbers among the values of a state: a state has one kind.
Ints(agg) == IF agg.kind = "int" THEN agg.count ELSE 0

\* What is conserved, each a natural: the sum is told with every number moved up by
\* MaxInt + 1.
Quantities == {"rows", "ints", "nulls", "invalid", "shift"}

\* How much of it a state holds.
Amount(q, agg) ==
    CASE q = "rows" -> Observed(agg)
      [] q = "ints" -> Ints(agg)
      [] q = "nulls" -> agg.nulls
      [] q = "invalid" -> agg.invalid
      [] q = "shift" -> agg.sum + Ints(agg) * (MaxInt + 1)

\* How much of it plain counting has seen.
Tally(q, t) ==
    CASE q = "rows" -> t.ints + t.floats + t.nulls + t.invalid
      [] q = "ints" -> t.ints
      [] q = "nulls" -> t.nulls
      [] q = "invalid" -> t.invalid
      [] q = "shift" -> t.sum + t.ints * (MaxInt + 1)

\* How much of it one observation is.
Unit(q, o) ==
    CASE q = "rows" -> 1
      [] q = "ints" -> IF o.type = "int" THEN 1 ELSE 0
      [] q = "nulls" -> IF o.type = "null" THEN 1 ELSE 0
      [] q = "invalid" -> IF o.type = "invalid" THEN 1 ELSE 0
      [] q = "shift" -> IF o.type = "int" THEN o.value + (MaxInt + 1) ELSE 0

\* What the first n records of a sequence hold of a key; what all of them do.
Share(q, k, r) == IF r.key = k THEN Amount(q, r.agg) ELSE 0
Shares(q, k, s) == [i \in 1..Len(s) |-> [bytes |-> Share(q, k, s[i])]]
Prefix(q, k, s, n) == Weight(Shares(q, k, s), 1..n)
Of(q, k, s) == Prefix(q, k, s, Len(s))

\* What the runs of these names hold of a key.
Stock(q, k, f) == [n \in DOMAIN f |-> [bytes |-> Of(q, k, f[n].recs)]]
Files(q, k, f, names) == Weight(Stock(q, k, f), names)

\* Keys strictly rise; every record stands for a row at least.
Ascending(s) == \A i, j \in 1..Len(s) : i < j => s[i].key < s[j].key
Solid(s) == \A i \in 1..Len(s) : Observed(s[i].agg) > 0

-----------------------------------------------------------------------------
(* The invariant of the refinement *)

Totals ==
    {t \in [ints : Nat, floats : Nat, nulls : Nat, invalid : Nat, sum : Int] :
        t = Promise!Nothing \/ Tally("rows", t) > 0}

Runs == Waiting \cup Outputs

Phases ==
    /\ (status = "none") <=> (pc # "done")
    /\ failed => pc = "adding"
    /\ total \in [Keys -> Totals]

Solids ==
    /\ Solid(groups) /\ Solid(spill.recs) /\ Solid(batch)
    /\ \A n \in Held : Solid(fs[n].recs) /\ Ascending(fs[n].recs)

\* Where the rows of a key are.
Conserved(q, k) ==
    /\ (pc = "adding" /\ ~failed) =>
        Of(q, k, groups) + Of(q, k, spill.recs) = Tally(q, total[k])
    /\ pc = "reading" =>
        /\ Of(q, k, spill.recs) = Tally(q, total[k])
        /\ Prefix(q, k, spill.recs, pos) = Of(q, k, batch) + Files(q, k, fs, Runs)
    /\ pc \in {"merging", "emitting"} => Files(q, k, fs, Runs) = Tally(q, total[k])
    /\ merge.on =>
        Of(q, k, fs[Out].recs) =
            Prefix(q, k, fs[Left].recs, merge.a) + Prefix(q, k, fs[Right].recs, merge.b)

AllConserved == \A q \in Quantities : \A k \in Keys : Conserved(q, k)

\* The pair being merged: what is written lies below what is left to read.
Below ==
    merge.on =>
        /\ merge.a <= Len(fs[Left].recs) /\ merge.b <= Len(fs[Right].recs)
        /\ \A i \in 1..Len(fs[Out].recs) :
            /\ HaveA => fs[Out].recs[i].key < HeadA.key
            /\ HaveB => fs[Out].recs[i].key < HeadB.key

Handed ==
    /\ pc \in {"adding", "reading", "merging"} => out = << >>
    /\ pc = "adding" => pos = 0 /\ batch = << >>
    /\ pc = "reading" => pos <= Len(spill.recs)
    /\ pc = "emitting" =>
        /\ pos <= Len(fs[Final].recs) /\ Len(out) = pos
        /\ \A i \in 1..pos : out[i] = fs[Final].recs[i]

Kept == Phases /\ Solids /\ AllConserved /\ Below /\ Handed

-----------------------------------------------------------------------------
(* Amounts *)

\* Moving every number of two groups up moves those of both together up.
LEMMA Distribute ==
    ASSUME NEW a \in Int, NEW b \in Int, NEW c \in Int
    PROVE  a * c \in Int /\ b * c \in Int /\ (a + b) * c = a * c + b * c
  OBVIOUS

\* A natural times a bound of INT64 covers the sum of that many numbers.
LEMMA ShiftNat ==
    ASSUME NEW n \in Nat, NEW c \in Nat
    PROVE  n * c \in Nat /\ (n > 0 => n * c >= c) /\ 0 * c = 0 /\ 1 * c = c
<1>1. n * c \in Nat /\ 0 * c = 0 /\ 1 * c = c
  OBVIOUS
<1>2. CASE n > 0
  <2>1. n - 1 \in Nat
    BY <1>2
  <2>2. (n - 1) * c \in Nat
    BY <2>1
  <2>3. ((n - 1) + 1) * c = (n - 1) * c + 1 * c
    BY <2>1, Distribute
  <2>4. (n - 1) + 1 = n
    OBVIOUS
  <2>5. n * c = (n - 1) * c + c
    BY <1>1, <2>3, <2>4
  <2>6. \A x, y \in Nat : y + x >= x
    OBVIOUS
  <2> QED
    BY <1>1, <2>2, <2>5, <2>6
<1> QED
  BY <1>1, <1>2

\* A state holds a natural amount of everything.
LEMMA AmountType ==
    ASSUME NEW s \in States, NEW q \in Quantities
    PROVE  Amount(q, s) \in Nat
<1>1. /\ s.count \in Nat /\ s.nulls \in Nat /\ s.invalid \in Nat
      /\ s.sum \in Int /\ s.sum \in Int64 /\ MaxInt \in Nat
      /\ (s.kind = "none") <=> (s.count = 0)
      /\ s.kind # "int" => s.sum = 0
  BY StateParts, Constants
<1>2. Ints(s) \in Nat /\ (Ints(s) = 0 => s.sum = 0) /\ MaxInt + 1 \in Nat
  BY <1>1 DEF Ints
<1>3. Ints(s) * (MaxInt + 1) \in Nat /\ (Ints(s) > 0 => Ints(s) * (MaxInt + 1) >= MaxInt + 1)
  BY <1>2, ShiftNat
<1> DEFINE m == Ints(s) * (MaxInt + 1)
<1>4. s.sum + m \in Nat
  <2>1. m \in Nat /\ (Ints(s) > 0 => m >= MaxInt + 1)
    BY <1>3
  <2>2. s.sum >= -MaxInt - 1
    BY <1>1 DEF Int64
  <2> HIDE DEF m
  <2>3. CASE Ints(s) = 0
    BY <1>2, <2>1, <2>3
  <2>4. CASE Ints(s) > 0
    BY <1>1, <2>1, <2>2, <2>4
  <2> QED
    BY <1>2, <2>3, <2>4
<1>5. Observed(s) \in Nat
  BY <1>1 DEF Observed
<1> HIDE DEF m
<1>6. Amount("shift", s) = s.sum + m
  BY DEF Amount, m
<1> QED
  BY <1>1, <1>2, <1>4, <1>5, <1>6 DEF Amount, Quantities

\* Two states that combine hold together what each of them held.
LEMMA AmountMerge ==
    ASSUME NEW s \in States, NEW t \in States, Merge(s, t) # Refused, NEW q \in Quantities
    PROVE  Amount(q, Merge(s, t)) = Amount(q, s) + Amount(q, t)
<1> DEFINE m == Merge(s, t)
<1>1. /\ ~(s.count # 0 /\ t.count # 0 /\ s.kind # t.kind)
      /\ m = [count |-> s.count + t.count, nulls |-> s.nulls + t.nulls,
              invalid |-> s.invalid + t.invalid,
              kind |-> IF s.count = 0 THEN t.kind ELSE s.kind,
              sum |-> s.sum + t.sum]
  BY DEF Merge
<1> HIDE DEF m
<1>2. /\ m.count = s.count + t.count /\ m.nulls = s.nulls + t.nulls
      /\ m.invalid = s.invalid + t.invalid /\ m.sum = s.sum + t.sum
      /\ m.kind = IF s.count = 0 THEN t.kind ELSE s.kind
  BY <1>1
<1>3. /\ s.count \in Nat /\ s.nulls \in Nat /\ s.invalid \in Nat /\ s.sum \in Int
      /\ (s.kind = "none") <=> (s.count = 0)
  BY StateParts
<1>4. /\ t.count \in Nat /\ t.nulls \in Nat /\ t.invalid \in Nat /\ t.sum \in Int
      /\ (t.kind = "none") <=> (t.count = 0)
  BY StateParts
<1>5. Ints(m) = Ints(s) + Ints(t) /\ Ints(s) \in Int /\ Ints(t) \in Int
  BY <1>1, <1>2, <1>3, <1>4 DEF Ints
<1>6. Observed(m) = Observed(s) + Observed(t)
  BY <1>2, <1>3, <1>4 DEF Observed
<1>7. Amount("shift", m) = Amount("shift", s) + Amount("shift", t)
  <2> DEFINE x == Ints(s) * (MaxInt + 1)
             y == Ints(t) * (MaxInt + 1)
  <2>1. MaxInt + 1 \in Int
    BY Constants
  <2>2. x \in Int /\ y \in Int /\ (Ints(s) + Ints(t)) * (MaxInt + 1) = x + y
    BY <1>5, <2>1, Distribute
  <2>3. Ints(m) * (MaxInt + 1) = x + y
    BY <1>5, <2>2
  <2>4. /\ Amount("shift", m) = m.sum + Ints(m) * (MaxInt + 1)
        /\ Amount("shift", s) = s.sum + x /\ Amount("shift", t) = t.sum + y
    BY DEF Amount
  <2> HIDE DEF x, y
  <2>5. (s.sum + t.sum) + (x + y) = (s.sum + x) + (t.sum + y)
    BY <1>3, <1>4, <2>2
  <2> QED
    BY <1>2, <2>3, <2>4, <2>5
<1>8. Amount(q, m) = Amount(q, s) + Amount(q, t)
  BY <1>2, <1>5, <1>6, <1>7 DEF Amount, Quantities
<1> QED
  BY <1>8 DEF m

\* One number more moves the shifted sum by the number and one shift.
LEMMA ShiftStep ==
    ASSUME NEW n \in Int, NEW sum \in Int, NEW v \in Int
    PROVE  (sum + v) + (n + 1) * (MaxInt + 1) = (sum + n * (MaxInt + 1)) + (v + (MaxInt + 1))
<1> DEFINE c == MaxInt + 1
           x == n * c
<1>1. c \in Int
  BY Constants
<1>2. x \in Int /\ (n + 1) * c = x + 1 * c /\ 1 * c = c
  BY <1>1, Distribute
<1> HIDE DEF x, c
<1>3. (sum + v) + (n + 1) * c = (sum + x) + (v + c)
  BY <1>1, <1>2
<1> QED
  BY <1>3 DEF x, c

\* Nothing is held at first.
LEMMA AmountNew ==
    ASSUME NEW q \in Quantities
    PROVE  Amount(q, NewState) = 0 /\ Tally(q, Promise!Nothing) = 0
<1>1. 0 * (MaxInt + 1) = 0
  BY Constants
<1>2. Ints(NewState) = 0 /\ Observed(NewState) = 0 /\ NewState.sum = 0
  BY DEF Ints, Observed, NewState
<1>3. Amount("shift", NewState) = 0 /\ Tally("shift", Promise!Nothing) = 0
  BY <1>1, <1>2 DEF Amount, Tally, Promise!Nothing
<1> QED
  BY <1>2, <1>3 DEF Amount, Tally, Quantities, NewState, Promise!Nothing

\* An observation that is taken is held from then on.
LEMMA AmountObserve ==
    ASSUME NEW s \in States, NEW k \in Keys, NEW o \in Observations[k],
           Observe(s, o) # Refused \/ s = NewState,
           NEW q \in Quantities
    PROVE  Amount(q, Observe(s, o)) = Amount(q, s) + Unit(q, o)
<1> DEFINE n == Observe(s, o)
           v == o.value
<1>0. /\ o.type \in {"int", "float", "null", "invalid"} /\ MaxInt \in Nat
      /\ o.type = "int" => v \in Int64 /\ v \in Int
  BY Constants DEF Int64
<1>1. /\ s.count \in Nat /\ s.nulls \in Nat /\ s.invalid \in Nat /\ s.sum \in Int
      /\ (s.kind = "none") <=> (s.count = 0)
  BY StateParts
<1>2. s = [count |-> s.count, nulls |-> s.nulls, invalid |-> s.invalid,
           kind |-> s.kind, sum |-> s.sum]
  BY StateParts
<1>3. s = NewState => s.count = 0 /\ s.sum = 0 /\ Observed(s) # MaxCount
  BY Constants DEF NewState, Observed
<1>4. Ints(s) \in Int
  BY <1>1 DEF Ints
<1>5. CASE o.type = "int"
  <2>1. n = AddInt(s, v)
    BY <1>5 DEF Observe
  <2>2. ~(s.count # 0 /\ s.kind # "int") /\ Observed(s) # MaxCount /\ s.sum + v \in Int64
    BY <1>0, <1>3, <1>5, <2>1 DEF AddInt
  <2>3. n = [s EXCEPT !.count = @ + 1, !.kind = "int", !.sum = @ + v]
    BY <2>1, <2>2 DEF AddInt
  <2>4. n = [count |-> s.count + 1, nulls |-> s.nulls, invalid |-> s.invalid,
             kind |-> "int", sum |-> s.sum + v]
    BY <1>2, <2>3
  <2> HIDE DEF n, v
  <2>5. Ints(n) = Ints(s) + 1 /\ Observed(n) = Observed(s) + 1
    BY <1>1, <2>2, <2>4 DEF Ints, Observed
  <2>6. n.nulls = s.nulls + 0 /\ n.invalid = s.invalid + 0 /\ n.sum = s.sum + v
    BY <1>1, <2>4
  <2>7. (s.sum + v) + (Ints(s) + 1) * (MaxInt + 1)
          = (s.sum + Ints(s) * (MaxInt + 1)) + (v + (MaxInt + 1))
    BY <1>0, <1>1, <1>4, <1>5, ShiftStep
  <2>8. Amount("shift", n) = Amount("shift", s) + Unit("shift", o)
    BY <1>5, <2>5, <2>6, <2>7 DEF Amount, Unit, v
  <2>9. Amount(q, n) = Amount(q, s) + Unit(q, o)
    BY <1>5, <2>5, <2>6, <2>8 DEF Amount, Unit, Quantities
  <2> QED
    BY <2>9 DEF n
<1>6. CASE o.type # "int"
  <2> DEFINE cnt == IF o.type = "float" THEN s.count + 1 ELSE s.count
             nul == IF o.type = "null" THEN s.nulls + 1 ELSE s.nulls
             inv == IF o.type = "invalid" THEN s.invalid + 1 ELSE s.invalid
             knd == IF o.type = "float" THEN "float" ELSE s.kind
  <2>1. n = [count |-> cnt, nulls |-> nul, invalid |-> inv, kind |-> knd, sum |-> s.sum]
    <3>1. CASE o.type = "float"
      <4>1. n = AddFloat(s)
        BY <3>1 DEF Observe
      <4>2. n = [s EXCEPT !.count = @ + 1, !.kind = "float"]
        BY <1>3, <4>1 DEF AddFloat
      <4> QED
        BY <1>2, <3>1, <4>2
    <3>2. CASE o.type = "null"
      <4>1. n = AddNull(s)
        BY <3>2 DEF Observe
      <4>2. n = [s EXCEPT !.nulls = @ + 1]
        BY <1>3, <4>1 DEF AddNull
      <4> QED
        BY <1>2, <3>2, <4>2
    <3>3. CASE o.type = "invalid"
      <4>1. n = AddInvalid(s)
        BY <3>3 DEF Observe
      <4>2. n = [s EXCEPT !.invalid = @ + 1]
        BY <1>3, <4>1 DEF AddInvalid
      <4> QED
        BY <1>2, <3>3, <4>2
    <3> QED
      BY <1>0, <1>6, <3>1, <3>2, <3>3
  <2>2. o.type = "float" => s.kind # "int"
    <3>1. ASSUME o.type = "float" PROVE ~(s.count # 0 /\ s.kind # "float")
      BY <1>3, <3>1 DEF Observe, AddFloat
    <3> QED
      BY <1>1, <3>1
  <2> HIDE DEF n
  <2>3. n.kind = knd /\ n.count = cnt /\ n.nulls = nul /\ n.invalid = inv /\ n.sum = s.sum
    BY <2>1
  <2>4. Ints(n) = Ints(s)
    BY <1>6, <2>2, <2>3 DEF Ints
  <2>5. Observed(n) = Observed(s) + 1
    BY <1>0, <1>1, <1>6, <2>3 DEF Observed
  <2>6. n.nulls = s.nulls + Unit("nulls", o) /\ n.invalid = s.invalid + Unit("invalid", o)
    BY <1>0, <1>1, <1>6, <2>3 DEF Unit
  <2>7. Amount("shift", n) = Amount("shift", s) /\ Amount("shift", s) \in Int
    <3>1. Amount("shift", n) = Amount("shift", s)
      BY <2>3, <2>4 DEF Amount
    <3>2. Amount("shift", s) \in Nat
      BY AmountType DEF Quantities
    <3> QED
      BY <3>1, <3>2
  <2>8. Ints(s) = Ints(s) + 0
    BY <1>4
  <2>9. Amount(q, n) = Amount(q, s) + Unit(q, o)
    BY <1>6, <2>4, <2>5, <2>6, <2>7, <2>8 DEF Amount, Unit, Quantities
  <2> QED
    BY <2>9 DEF n
<1> QED
  BY <1>5, <1>6

\* The parts of what plain counting has seen.
LEMMA TotalParts ==
    ASSUME NEW t \in Totals
    PROVE  /\ t.ints \in Nat /\ t.floats \in Nat /\ t.nulls \in Nat /\ t.invalid \in Nat
           /\ t.sum \in Int
           /\ t = Promise!Nothing \/ Tally("rows", t) > 0
           /\ \A q \in Quantities : Tally(q, t) \in Int
<1>1. /\ t.ints \in Nat /\ t.floats \in Nat /\ t.nulls \in Nat /\ t.invalid \in Nat
      /\ t.sum \in Int
      /\ t = Promise!Nothing \/ Tally("rows", t) > 0
  BY DEF Totals
<1>2. MaxInt + 1 \in Int /\ t.ints * (MaxInt + 1) \in Int
  BY <1>1, Constants, Distribute
<1>3. \A q \in Quantities : Tally(q, t) \in Int
  BY <1>1, <1>2 DEF Tally, Quantities
<1> QED
  BY <1>1, <1>3

\* Plain counting sees one observation more.
LEMMA TallyCounted ==
    ASSUME NEW t \in Totals, NEW k \in Keys, NEW o \in Observations[k]
    PROVE  /\ Promise!Counted(t, o) \in Totals
           /\ \A q \in Quantities : Tally(q, Promise!Counted(t, o)) = Tally(q, t) + Unit(q, o)
<1> DEFINE c == Promise!Counted(t, o)
<1>1. /\ o.type \in {"int", "float", "null", "invalid"} /\ MaxInt \in Nat
      /\ o.type = "int" => o.value \in Int
  BY Constants DEF Int64
<1>2. /\ t.ints \in Nat /\ t.floats \in Nat /\ t.nulls \in Nat /\ t.invalid \in Nat
      /\ t.sum \in Int
  BY TotalParts
<1>3. c = [ints    |-> t.ints    + (IF o.type = "int" THEN 1 ELSE 0),
           floats  |-> t.floats  + (IF o.type = "float" THEN 1 ELSE 0),
           nulls   |-> t.nulls   + (IF o.type = "null" THEN 1 ELSE 0),
           invalid |-> t.invalid + (IF o.type = "invalid" THEN 1 ELSE 0),
           sum     |-> t.sum     + (IF o.type = "int" THEN o.value ELSE 0)]
  BY DEF Promise!Counted
<1> HIDE DEF c
<1>4. /\ c.ints = t.ints + Unit("ints", o) /\ c.nulls = t.nulls + Unit("nulls", o)
      /\ c.invalid = t.invalid + Unit("invalid", o)
      /\ c.floats = t.floats + (IF o.type = "float" THEN 1 ELSE 0)
      /\ c.sum = t.sum + (IF o.type = "int" THEN o.value ELSE 0)
  BY <1>3 DEF Unit
<1>5. Tally("rows", c) = Tally("rows", t) + 1 /\ Tally("rows", c) > 0
  BY <1>1, <1>2, <1>4 DEF Tally, Unit
<1>6. c \in [ints : Nat, floats : Nat, nulls : Nat, invalid : Nat, sum : Int]
  <2>1. /\ t.ints + (IF o.type = "int" THEN 1 ELSE 0) \in Nat
        /\ t.floats + (IF o.type = "float" THEN 1 ELSE 0) \in Nat
        /\ t.nulls + (IF o.type = "null" THEN 1 ELSE 0) \in Nat
        /\ t.invalid + (IF o.type = "invalid" THEN 1 ELSE 0) \in Nat
        /\ t.sum + (IF o.type = "int" THEN o.value ELSE 0) \in Int
    BY <1>1, <1>2
  <2> QED
    BY <1>3, <2>1
<1>7. Tally("shift", c) = Tally("shift", t) + Unit("shift", o)
  <2>1. CASE o.type = "int"
    <3>1. c.ints = t.ints + 1 /\ c.sum = t.sum + o.value /\ o.value \in Int
      BY <1>1, <1>4, <2>1 DEF Unit
    <3>2. (t.sum + o.value) + (t.ints + 1) * (MaxInt + 1)
            = (t.sum + t.ints * (MaxInt + 1)) + (o.value + (MaxInt + 1))
      <4>1. t.ints \in Int /\ t.sum \in Int /\ o.value \in Int
        BY <1>2, <3>1
      <4> QED
        BY <4>1, ShiftStep
    <3> QED
      BY <2>1, <3>1, <3>2 DEF Tally, Unit
  <2>2. CASE o.type # "int"
    <3>1. c.ints = t.ints /\ c.sum = t.sum
      BY <1>2, <1>4, <2>2 DEF Unit
    <3>2. Tally("shift", c) = Tally("shift", t) /\ Tally("shift", t) \in Int
      BY <3>1, TotalParts DEF Tally, Quantities
    <3> QED
      BY <2>2, <3>2 DEF Unit
  <2> QED
    BY <2>1, <2>2
<1>8. \A q \in Quantities : Tally(q, c) = Tally(q, t) + Unit(q, o)
  <2> TAKE q \in Quantities
  <2>1. q \in {"ints", "nulls", "invalid"} => Tally(q, c) = Tally(q, t) + Unit(q, o)
    BY <1>4 DEF Tally
  <2>2. Unit("rows", o) = 1
    BY DEF Unit
  <2> QED
    BY <1>5, <1>7, <2>1, <2>2 DEF Quantities
<1>9. c \in Totals
  BY <1>5, <1>6 DEF Totals
<1> QED
  BY <1>8, <1>9 DEF c

\* A state that holds exactly what was counted is the report of it.
LEMMA ReportOf ==
    ASSUME NEW t \in Totals, NEW s \in States, \A q \in Quantities : Amount(q, s) = Tally(q, t)
    PROVE  Promise!Reportable(t) /\ s = Promise!Report(t)
<1>1. /\ s.count \in Nat /\ s.nulls \in Nat /\ s.invalid \in Nat
      /\ s.sum \in Int /\ s.sum \in Int64 /\ s.kind \in {"none", "float", "int"}
      /\ s = [count |-> s.count, nulls |-> s.nulls, invalid |-> s.invalid,
              kind |-> s.kind, sum |-> s.sum]
      /\ (s.kind = "none") <=> (s.count = 0)
  BY StateParts DEF Kinds
<1>2. /\ t.ints \in Nat /\ t.floats \in Nat /\ t.nulls \in Nat /\ t.invalid \in Nat
      /\ t.sum \in Int
  BY TotalParts
<1>3. Ints(s) = t.ints /\ s.nulls = t.nulls /\ s.invalid = t.invalid
  <2>1. /\ Amount("ints", s) = Tally("ints", t) /\ Amount("nulls", s) = Tally("nulls", t)
        /\ Amount("invalid", s) = Tally("invalid", t)
    BY DEF Quantities
  <2> QED
    BY <2>1 DEF Amount, Tally
<1>4. s.count = t.ints + t.floats
  <2>1. Amount("rows", s) = Tally("rows", t)
    BY DEF Quantities
  <2>2. s.count + s.nulls + s.invalid = t.ints + t.floats + t.nulls + t.invalid
    BY <2>1 DEF Amount, Tally, Observed
  <2>3. s.count + t.nulls + t.invalid = t.ints + t.floats + t.nulls + t.invalid
    BY <1>3, <2>2
  <2>4. s.count \in Nat
    BY <1>1
  <2> QED
    BY <1>2, <2>3, <2>4
<1>5. s.sum = t.sum
  <2> DEFINE x == t.ints * (MaxInt + 1)
  <2>1. Amount("shift", s) = Tally("shift", t)
    BY DEF Quantities
  <2>2. s.sum + x = t.sum + x
    BY <1>3, <2>1 DEF Amount, Tally
  <2>3. x \in Int
    BY <1>2, Constants, Distribute
  <2> HIDE DEF x
  <2> QED
    BY <1>1, <1>2, <2>2, <2>3
<1>6. (t.ints = 0 \/ t.floats = 0)
      /\ s.kind = CASE t.ints > 0 -> "int" [] t.floats > 0 -> "float" [] OTHER -> "none"
  <2>1. CASE s.kind = "int"
    <3>1. s.count = t.ints /\ s.count # 0
      BY <1>1, <1>3, <2>1 DEF Ints
    <3>2. t.ints > 0 /\ t.floats = 0
      BY <1>1, <1>2, <1>4, <3>1
    <3> QED
      BY <2>1, <3>2
  <2>2. CASE s.kind = "float"
    <3>1. t.ints = 0 /\ s.count # 0
      BY <1>1, <1>3, <2>2 DEF Ints
    <3>2. t.floats > 0 /\ ~(t.ints > 0)
      BY <1>1, <1>2, <1>4, <3>1
    <3> QED
      BY <2>2, <3>1, <3>2
  <2>3. CASE s.kind = "none"
    <3>1. ~(t.ints > 0) /\ ~(t.floats > 0) /\ t.ints = 0
      BY <1>1, <1>2, <1>4, <2>3
    <3> QED
      BY <2>3, <3>1
  <2> QED
    BY <1>1, <2>1, <2>2, <2>3
<1>7. Promise!Reportable(t)
  BY <1>1, <1>5, <1>6 DEF Promise!Reportable, Promise!Int64, Int64
<1>8. Promise!Report(t) = [count |-> s.count, nulls |-> s.nulls, invalid |-> s.invalid,
                           kind |-> s.kind, sum |-> s.sum]
  BY <1>3, <1>4, <1>5, <1>6 DEF Promise!Report
<1> QED
  BY <1>1, <1>7, <1>8

-----------------------------------------------------------------------------
(* What sequences of records hold *)

\* Things without bytes weigh nothing.
LEMMA WeightZero ==
    ASSUME NEW f, NEW names, \A n \in names : f[n].bytes = 0
    PROVE  Weight(f, names) = 0
<1>1. Room(f, names) = {}
  BY DEF Room
<1> QED
  BY <1>1, FS_EmptySet DEF Weight

\* What one thing weighs, and all the others.
LEMMA WeightPart ==
    ASSUME NEW f, NEW names, NEW n \in names, IsFiniteSet(names),
           \A m \in names : f[m].bytes \in Nat
    PROVE  /\ Weight(f, names) = Weight(f, names \ {n}) + f[n].bytes
           /\ Weight(f, names \ {n}) \in Nat
<1> DEFINE A == names \ {n}
<1>1. IsFiniteSet(A) /\ n \notin A /\ A \cup {n} = names
  BY FS_Subset
<1> HIDE DEF A
<1>2. Weight(f, A \cup {n}) = Weight(f, A) + f[n].bytes
  BY <1>1, WeightAdd
<1>3. Weight(f, A) \in Nat
  BY <1>1, WeightType
<1> QED
  BY <1>1, <1>2, <1>3 DEF A

\* A record holds a natural amount of a key.
LEMMA ShareType ==
    ASSUME NEW r \in Records, NEW q \in Quantities, NEW k
    PROVE  Share(q, k, r) \in Nat
  BY RecordParts, AmountType DEF Share

LEMMA SharesType ==
    ASSUME NEW s \in Seq(Records), NEW q \in Quantities, NEW k
    PROVE  \A i \in 1..Len(s) : Shares(q, k, s)[i].bytes = Share(q, k, s[i])
                                /\ Share(q, k, s[i]) \in Nat
  BY ShareType DEF Shares

\* A prefix holds a natural amount, the empty one nothing.
LEMMA PrefixType ==
    ASSUME NEW s \in Seq(Records), NEW q \in Quantities, NEW k, NEW n \in 0..Len(s)
    PROVE  Prefix(q, k, s, n) \in Nat /\ Prefix(q, k, s, 0) = 0
<1>1. \A i \in 1..n : i \in 1..Len(s)
  OBVIOUS
<1>2. IsFiniteSet(1..n)
  BY IntervalOf
<1>3. Weight(Shares(q, k, s), 1..n) \in Nat
  <2>1. \A i \in 1..n : Shares(q, k, s)[i].bytes \in Nat
    BY <1>1, SharesType
  <2> QED
    BY <1>2, <2>1, WeightType
<1>4. 1..0 = {}
  OBVIOUS
<1> QED
  BY <1>3, <1>4, WeightNone DEF Prefix

\* One record more.
LEMMA PrefixStep ==
    ASSUME NEW s \in Seq(Records), NEW q \in Quantities, NEW k, NEW n \in 0..(Len(s) - 1)
    PROVE  Prefix(q, k, s, n + 1) = Prefix(q, k, s, n) + Share(q, k, s[n + 1])
<1>1. /\ 1..(n + 1) = (1..n) \cup {n + 1} /\ n + 1 \notin 1..n /\ n + 1 \in 1..Len(s)
      /\ \A i \in (1..n) \cup {n + 1} : i \in 1..Len(s)
  OBVIOUS
<1>2. IsFiniteSet(1..n)
  BY IntervalOf
<1>3. \A i \in (1..n) \cup {n + 1} : Shares(q, k, s)[i].bytes \in Nat
  BY <1>1, SharesType
<1>4. Weight(Shares(q, k, s), (1..n) \cup {n + 1})
        = Weight(Shares(q, k, s), 1..n) + Shares(q, k, s)[n + 1].bytes
  BY <1>1, <1>2, <1>3, WeightAdd
<1>5. Shares(q, k, s)[n + 1].bytes = Share(q, k, s[n + 1])
  <2>1. \A i \in 1..Len(s) : Shares(q, k, s)[i].bytes = Share(q, k, s[i])
    BY SharesType
  <2> QED
    BY <1>1, <2>1
<1> QED
  BY <1>1, <1>4, <1>5 DEF Prefix

\* Sequences that start alike hold alike there.
LEMMA PrefixSame ==
    ASSUME NEW s \in Seq(Records), NEW t \in Seq(Records), NEW q \in Quantities, NEW k,
           NEW n \in Nat, n <= Len(s), n <= Len(t), \A i \in 1..n : s[i] = t[i]
    PROVE  Prefix(q, k, s, n) = Prefix(q, k, t, n)
<1>1. \A i \in 1..n : Shares(q, k, s)[i] = Shares(q, k, t)[i]
  BY DEF Shares
<1> QED
  BY <1>1, WeightSame DEF Prefix

\* The empty sequence, one record at the end, one record changed.
LEMMA OfEmpty ==
    ASSUME NEW q \in Quantities, NEW k
    PROVE  Of(q, k, << >>) = 0
<1>1. << >> \in Seq(Records) /\ Len(<< >>) = 0
  OBVIOUS
<1>2. 0 \in 0..Len(<< >>)
  OBVIOUS
<1>3. Prefix(q, k, << >>, 0) = 0
  BY <1>1, <1>2, PrefixType
<1> QED
  BY <1>1, <1>3 DEF Of

LEMMA OfType ==
    ASSUME NEW s \in Seq(Records), NEW q \in Quantities, NEW k
    PROVE  Of(q, k, s) \in Nat
<1>1. Len(s) \in 0..Len(s)
  OBVIOUS
<1> QED
  BY <1>1, PrefixType DEF Of

LEMMA OfAppend ==
    ASSUME NEW s \in Seq(Records), NEW r \in Records, NEW q \in Quantities, NEW k
    PROVE  Of(q, k, Append(s, r)) = Of(q, k, s) + Share(q, k, r)
<1> DEFINE t == Append(s, r)
           n == Len(s)
<1>1. t \in Seq(Records) /\ Len(t) = n + 1 /\ t[n + 1] = r /\ \A i \in 1..n : t[i] = s[i]
  OBVIOUS
<1>2. n \in Nat /\ n \in 0..(Len(t) - 1) /\ n <= Len(t) /\ n <= Len(s)
  BY <1>1
<1> HIDE DEF t, n
<1>3. Prefix(q, k, t, n + 1) = Prefix(q, k, t, n) + Share(q, k, t[n + 1])
  BY <1>1, <1>2, PrefixStep
<1>4. Prefix(q, k, t, n) = Prefix(q, k, s, n)
  BY <1>1, <1>2, PrefixSame
<1> QED
  BY <1>1, <1>3, <1>4 DEF Of, t, n

LEMMA OfOne ==
    ASSUME NEW r \in Records, NEW q \in Quantities, NEW k
    PROVE  Of(q, k, << r >>) = Share(q, k, r)
<1>1. << r >> = Append(<< >>, r) /\ << >> \in Seq(Records)
  OBVIOUS
<1>2. Of(q, k, << r >>) = Of(q, k, << >>) + Share(q, k, r)
  BY <1>1, OfAppend
<1> QED
  BY <1>2, OfEmpty, ShareType

LEMMA OfChanged ==
    ASSUME NEW s \in Seq(Records), NEW t \in Seq(Records), Len(t) = Len(s),
           NEW i \in 1..Len(s), \A j \in 1..Len(s) : j # i => t[j] = s[j],
           NEW q \in Quantities, NEW k
    PROVE  Of(q, k, t) + Share(q, k, s[i]) = Of(q, k, s) + Share(q, k, t[i])
<1> DEFINE n == Len(s)
           R == (1..n) \ {i}
           f == Shares(q, k, s)
           g == Shares(q, k, t)
<1>1. n \in Nat /\ IsFiniteSet(1..n) /\ i \in 1..n
  BY IntervalOf
<1>2. /\ \A j \in 1..n : f[j].bytes = Share(q, k, s[j]) /\ f[j].bytes \in Nat
      /\ \A j \in 1..n : g[j].bytes = Share(q, k, t[j]) /\ g[j].bytes \in Nat
  BY SharesType, SMTT(30)
<1>3. \A j \in R : f[j] = g[j]
  BY DEF Shares
<1>4. Of(q, k, s) = Weight(f, 1..n) /\ Of(q, k, t) = Weight(g, 1..n)
  BY DEF Of, Prefix
<1> HIDE DEF f, g, n
<1>5. Weight(f, 1..n) = Weight(f, R) + f[i].bytes /\ Weight(f, R) \in Nat
  BY <1>1, <1>2, WeightPart
<1>6. Weight(g, 1..n) = Weight(g, R) + g[i].bytes
  BY <1>1, <1>2, WeightPart
<1>7. Weight(f, R) = Weight(g, R)
  <2> HIDE DEF R
  <2> QED
    BY <1>3, WeightSame
<1>8. /\ f[i].bytes = Share(q, k, s[i]) /\ f[i].bytes \in Nat
      /\ g[i].bytes = Share(q, k, t[i]) /\ g[i].bytes \in Nat
  BY <1>1, <1>2
<1> HIDE DEF R
<1> QED
  BY <1>4, <1>5, <1>6, <1>7, <1>8

\* One sequence behind another.
LEMMA OfConcat ==
    ASSUME NEW s \in Seq(Records), NEW t \in Seq(Records), NEW q \in Quantities, NEW k
    PROVE  Of(q, k, s \o t) = Of(q, k, s) + Of(q, k, t)
<1> DEFINE u == s \o t
           a == Len(s)
           b == Len(t)
           T == {m \in 0..b : Prefix(q, k, u, a + m) # Of(q, k, s) + Prefix(q, k, t, m)}
<1>1. /\ u \in Seq(Records) /\ Len(u) = a + b /\ a \in Nat /\ b \in Nat
      /\ \A i \in 1..a : u[i] = s[i]
      /\ \A i \in 1..b : u[a + i] = t[i]
  OBVIOUS
<1>2. Of(q, k, s) \in Nat
  BY OfType
<1>3. T = {}
  <2> SUFFICES ASSUME T # {} PROVE FALSE
    OBVIOUS
  <2>1. T \subseteq Nat
    BY <1>1
  <2>2. PICK m \in T : \A n \in T : m <= n
    BY <2>1, LeastElement
  <2>3. m \in 0..b /\ Prefix(q, k, u, a + m) # Of(q, k, s) + Prefix(q, k, t, m)
    OBVIOUS
  <2> HIDE DEF u, a, b
  <2>4. CASE m = 0
    <3>1. a + 0 = a /\ a <= Len(u) /\ a <= Len(s)
      BY <1>1 DEF a
    <3>2. Prefix(q, k, u, a) = Prefix(q, k, s, a)
      BY <1>1, <3>1, PrefixSame, SMTT(30)
    <3>3. Prefix(q, k, s, a) = Of(q, k, s)
      BY DEF Of, a
    <3>4. Prefix(q, k, t, 0) = 0
      <4>1. 0 \in 0..Len(t)
        BY <1>1 DEF b
      <4> QED
        BY <4>1, PrefixType
    <3> QED
      BY <1>2, <2>3, <2>4, <3>1, <3>2, <3>3, <3>4
  <2>5. CASE m # 0
    <3> DEFINE c == m - 1
    <3>1. c \in 0..b /\ c \in Nat /\ m = c + 1 /\ ~(m <= c) /\ c + 1 \in 1..b
      BY <1>1, <2>3, <2>5
    <3>2. c \notin T
      <4> HIDE DEF T
      <4> QED
        BY <2>2, <3>1
    <3>3. Prefix(q, k, u, a + c) = Of(q, k, s) + Prefix(q, k, t, c)
      BY <3>1, <3>2
    <3> HIDE DEF c, T
    <3>4. c \in 0..(Len(t) - 1) /\ a + c \in 0..(Len(u) - 1) /\ (a + c) + 1 = a + m
      BY <1>1, <3>1 DEF b
    <3>5. Prefix(q, k, t, c + 1) = Prefix(q, k, t, c) + Share(q, k, t[c + 1])
      BY <3>4, PrefixStep
    <3>6. Prefix(q, k, u, (a + c) + 1) = Prefix(q, k, u, a + c) + Share(q, k, u[(a + c) + 1])
      BY <1>1, <3>4, PrefixStep
    <3>7. (a + c) + 1 = a + (c + 1)
      BY <1>1, <3>1
    <3>8. u[(a + c) + 1] = t[c + 1]
      BY <1>1, <3>1, <3>7
    <3>9. t[c + 1] \in Records /\ Prefix(q, k, t, c) \in Nat
      <4>1. c \in 0..Len(t) /\ c + 1 \in 1..Len(t)
        BY <3>1 DEF b
      <4> QED
        BY <4>1, PrefixType
    <3>10. Share(q, k, t[c + 1]) \in Nat
      BY <3>9, ShareType
    <3>11. Prefix(q, k, u, a + m) = (Of(q, k, s) + Prefix(q, k, t, c)) + Share(q, k, t[c + 1])
      BY <3>3, <3>4, <3>6, <3>8
    <3>12. Prefix(q, k, t, m) = Prefix(q, k, t, c) + Share(q, k, t[c + 1])
      BY <3>1, <3>5
    <3> QED
      BY <1>2, <2>3, <3>9, <3>10, <3>11, <3>12
  <2> QED
    BY <2>4, <2>5
<1>4. b \in 0..b
  BY <1>1
<1>5. Prefix(q, k, u, a + b) = Of(q, k, s) + Prefix(q, k, t, b)
  BY <1>3, <1>4
<1> QED
  BY <1>1, <1>5 DEF Of

\* A key without records, a key with one.
LEMMA OfNone ==
    ASSUME NEW s \in Seq(Records), NEW q \in Quantities, NEW k,
           \A i \in 1..Len(s) : s[i].key # k
    PROVE  Of(q, k, s) = 0
<1>1. \A i \in 1..Len(s) : Shares(q, k, s)[i].bytes = 0
  BY DEF Shares, Share
<1> QED
  BY <1>1, WeightZero DEF Of, Prefix

LEMMA OfPart ==
    ASSUME NEW s \in Seq(Records), NEW q \in Quantities, NEW k, NEW i \in 1..Len(s)
    PROVE  /\ Of(q, k, s) >= Share(q, k, s[i])
           /\ (\A j \in 1..Len(s) : j # i => s[j].key # k) => Of(q, k, s) = Share(q, k, s[i])
<1> DEFINE R == (1..Len(s)) \ {i}
           f == Shares(q, k, s)
<1>1. IsFiniteSet(1..Len(s))
  BY IntervalOf
<1>2. \A j \in 1..Len(s) : f[j].bytes = Share(q, k, s[j]) /\ f[j].bytes \in Nat
  BY SharesType
<1>3. (\A j \in 1..Len(s) : j # i => s[j].key # k) => \A j \in R : f[j].bytes = 0
  BY DEF Shares, Share
<1> HIDE DEF f
<1>4. Weight(f, 1..Len(s)) = Weight(f, R) + f[i].bytes /\ Weight(f, R) \in Nat
  BY <1>1, <1>2, WeightPart
<1>5. (\A j \in R : f[j].bytes = 0) => Weight(f, R) = 0
  <2> HIDE DEF R
  <2> QED
    BY WeightZero
<1>6. Of(q, k, s) = Weight(f, 1..Len(s))
  BY DEF Of, Prefix, f
<1>7. f[i].bytes = Share(q, k, s[i]) /\ f[i].bytes \in Nat
  BY <1>2
<1> HIDE DEF R
<1> QED
  BY <1>3, <1>4, <1>5, <1>6, <1>7

\* In records that stand for rows, the keys with rows are the keys of the records.
LEMMA RowsOf ==
    ASSUME NEW s \in Seq(Records), Solid(s), NEW k
    PROVE  /\ (Of("rows", k, s) > 0) <=> k \in KeysOf(s)
           /\ "rows" \in Quantities
<1>1. "rows" \in Quantities
  BY DEF Quantities
<1>2. Of("rows", k, s) \in Nat
  BY <1>1, OfType
<1>3. ASSUME k \in KeysOf(s) PROVE Of("rows", k, s) > 0
  <2>1. PICK i \in 1..Len(s) : s[i].key = k
    BY <1>3 DEF KeysOf
  <2>2. Share("rows", k, s[i]) = Observed(s[i].agg) /\ Observed(s[i].agg) > 0
    BY <2>1 DEF Share, Amount, Solid
  <2>3. Of("rows", k, s) >= Share("rows", k, s[i]) /\ Share("rows", k, s[i]) \in Nat
    <3>1. s[i] \in Records
      OBVIOUS
    <3> QED
      BY <1>1, <3>1, OfPart, ShareType
  <2> QED
    BY <1>2, <2>2, <2>3
<1>4. ASSUME k \notin KeysOf(s) PROVE Of("rows", k, s) = 0
  <2>1. \A i \in 1..Len(s) : s[i].key # k
    BY <1>4 DEF KeysOf
  <2> QED
    BY <1>1, <2>1, OfNone
<1>5. (Of("rows", k, s) > 0) <=> k \in KeysOf(s)
  BY <1>3, <1>4
<1> QED
  BY <1>1, <1>5

\* The keys of a sequence that rises are there once.
LEMMA AscendingOnce ==
    ASSUME NEW s \in Seq(Records), Ascending(s), NEW i \in 1..Len(s), NEW j \in 1..Len(s)
    PROVE  /\ i # j => s[i].key # s[j].key
           /\ s[i].key < s[j].key => i < j
           /\ i < j => s[i].key < s[j].key
<1>1. s[i].key \in Nat /\ s[j].key \in Nat
  <2>1. s[i] \in Records /\ s[j] \in Records
    OBVIOUS
  <2> QED
    BY <2>1, RecordParts, Constants
<1>2. /\ i < j => s[i].key < s[j].key
      /\ j < i => s[j].key < s[i].key
  BY DEF Ascending
<1>3. i \in Nat /\ j \in Nat /\ (i < j \/ j < i \/ i = j)
  OBVIOUS
<1> QED
  BY <1>1, <1>2, <1>3

\* What such a sequence holds of a key is what its record holds.
LEMMA OfAscending ==
    ASSUME NEW s \in Seq(Records), Ascending(s), NEW i \in 1..Len(s), NEW q \in Quantities
    PROVE  Of(q, s[i].key, s) = Amount(q, s[i].agg)
<1>1. \A j \in 1..Len(s) : j # i => s[j].key # s[i].key
  BY AscendingOnce
<1>2. Of(q, s[i].key, s) = Share(q, s[i].key, s[i])
  BY <1>1, OfPart
<1> QED
  BY <1>2 DEF Share

-----------------------------------------------------------------------------
(* What a batch holds, sorted and combined *)

\* The records of a key, combined, hold what they held one by one.
LEMMA MergeAllAmount ==
    ASSUME NEW s \in Seq(Records), NEW k, MergeAll(s, k) # Refused, NEW q \in Quantities
    PROVE  Amount(q, MergeAll(s, k)) = Of(q, k, s)
<1> DEFINE N == Len(s)
<1>1. PICK p \in [0..N -> Outcomes] :
        /\ p[0] = NewState
        /\ \A n \in 1..N :
            p[n] = IF s[n].key # k \/ p[n - 1] = Refused THEN p[n - 1]
                   ELSE Merge(p[n - 1], s[n].agg)
        /\ MergeAll(s, k) = p[N]
  BY MergeAllSteps
<1> DEFINE Exact(n) == p[n] = Refused \/ Amount(q, p[n]) = Prefix(q, k, s, n)
           T == {n \in 0..N : ~Exact(n)}
<1>2. N \in Nat
  OBVIOUS
<1>3. T = {}
  <2> SUFFICES ASSUME T # {} PROVE FALSE
    OBVIOUS
  <2>1. T \subseteq Nat
    BY <1>2
  <2>2. PICK n \in T : \A m \in T : n <= m
    BY <2>1, LeastElement
  <2>3. n \in 0..N /\ ~Exact(n)
    OBVIOUS
  <2>4. CASE n = 0
    <3>1. Prefix(q, k, s, 0) = 0
      BY <2>3, PrefixType
    <3>2. Amount(q, p[0]) = 0
      BY <1>1, AmountNew
    <3> QED
      BY <2>3, <2>4, <3>1, <3>2
  <2>5. CASE n # 0
    <3> DEFINE c == n - 1
    <3>1. c \in 0..N /\ n = c + 1 /\ ~(n <= c) /\ n \in 1..N /\ c \in 0..(N - 1) /\ c \in Nat
      BY <1>2, <2>3, <2>5
    <3>2. c \notin T
      <4> HIDE DEF T, c
      <4> QED
        BY <2>2, <3>1
    <3>3. Exact(c)
      BY <3>1, <3>2
    <3>4. p[n] = IF s[n].key # k \/ p[c] = Refused THEN p[c] ELSE Merge(p[c], s[n].agg)
      BY <1>1, <3>1
    <3>5. s[n] \in Records /\ s[n].agg \in States
      <4>1. s[n] \in Records
        BY <3>1
      <4> QED
        BY <4>1, RecordParts
    <3>6. p[c] \in Outcomes
      BY <1>1, <3>1
    <3> HIDE DEF c, T
    <3>7. p[c] # Refused => p[c] \in States /\ Amount(q, p[c]) = Prefix(q, k, s, c)
      BY <3>3, <3>6 DEF Outcomes
    <3>8. Prefix(q, k, s, n) = Prefix(q, k, s, c) + Share(q, k, s[n]) /\ Prefix(q, k, s, c) \in Nat
      <4>1. Prefix(q, k, s, c + 1) = Prefix(q, k, s, c) + Share(q, k, s[c + 1])
        BY <3>1, PrefixStep
      <4>2. Prefix(q, k, s, c) \in Nat
        BY <3>1, PrefixType
      <4> QED
        BY <3>1, <4>1, <4>2
    <3>9. CASE p[c] = Refused
      BY <2>3, <3>4, <3>9
    <3>10. CASE p[c] # Refused /\ s[n].key # k
      <4>1. p[n] = p[c] /\ Share(q, k, s[n]) = 0
        BY <3>4, <3>10 DEF Share
      <4> QED
        BY <2>3, <3>7, <3>8, <3>10, <4>1
    <3>11. CASE p[c] # Refused /\ s[n].key = k
      <4>1. p[n] = Merge(p[c], s[n].agg) /\ Share(q, k, s[n]) = Amount(q, s[n].agg)
        BY <3>4, <3>11 DEF Share
      <4>2. Merge(p[c], s[n].agg) # Refused =>
              Amount(q, Merge(p[c], s[n].agg)) = Amount(q, p[c]) + Amount(q, s[n].agg)
        BY <3>5, <3>7, <3>11, AmountMerge
      <4> QED
        BY <2>3, <3>7, <3>8, <3>11, <4>1, <4>2
    <3> QED
      BY <3>9, <3>10, <3>11
  <2> QED
    BY <2>4, <2>5
<1>4. N \in 0..N
  BY <1>2
<1>5. Exact(N)
  BY <1>3, <1>4
<1> QED
  BY <1>1, <1>5 DEF Of

\* The keys of a set come in their order, and each of them comes.
LEMMA KeyAtOrder ==
    ASSUME NEW ks, IsFiniteSet(ks), ks \subseteq Nat
    PROVE  /\ \A i, j \in 1..Cardinality(ks) : i < j => KeyAt(ks, i) < KeyAt(ks, j)
           /\ \A k \in ks : \E i \in 1..Cardinality(ks) : KeyAt(ks, i) = k
<1> DEFINE n == Cardinality(ks)
           Under(k) == {l \in ks : l < k}
<1>1. n \in Nat
  BY FS_CardinalityType
<1>2. ASSUME NEW i \in 1..n
      PROVE  /\ KeyAt(ks, i) \in ks /\ KeyAt(ks, i) \in Nat
             /\ Cardinality(Under(KeyAt(ks, i))) = i - 1
  BY KeyAtRank
<1>3. ASSUME NEW j \in ks, NEW k \in ks, j <= k
      PROVE  Cardinality(Under(j)) <= Cardinality(Under(k))
  <2>1. j \in Nat /\ k \in Nat /\ \A l \in ks : l \in Nat
    OBVIOUS
  <2>2. \A l \in ks : l < j => l < k
    BY <1>3, <2>1
  <2>3. Under(j) \in SUBSET Under(k) /\ Under(k) \in SUBSET ks
    BY <2>2
  <2> HIDE DEF Under
  <2>4. IsFiniteSet(Under(k))
    BY <2>3, FS_Subset
  <2> QED
    BY <2>3, <2>4, FS_Subset
<1> HIDE DEF Under
<1>4. ASSUME NEW i \in 1..n, NEW j \in 1..n, i < j
      PROVE  KeyAt(ks, i) < KeyAt(ks, j)
  <2> DEFINE a == KeyAt(ks, i)
             b == KeyAt(ks, j)
  <2>1. /\ a \in ks /\ a \in Nat /\ Cardinality(Under(a)) = i - 1
        /\ b \in ks /\ b \in Nat /\ Cardinality(Under(b)) = j - 1
    BY <1>2
  <2> HIDE DEF a, b
  <2>2. ~(b <= a)
    <3> SUFFICES ASSUME b <= a PROVE FALSE
      OBVIOUS
    <3>1. Cardinality(Under(b)) <= Cardinality(Under(a))
      BY <1>3, <2>1
    <3>2. j - 1 <= i - 1 /\ i \in Nat /\ j \in Nat
      BY <1>1, <2>1, <3>1
    <3> QED
      BY <1>4, <3>2
  <2>3. a < b
    BY <2>1, <2>2
  <2> QED
    BY <2>3 DEF a, b
<1>5. \A k \in ks : \E i \in 1..n : KeyAt(ks, i) = k
  <2> DEFINE g == [i \in 1..n |-> KeyAt(ks, i)]
  <2>1. g \in [1..n -> ks] /\ \A i \in 1..n : g[i] = KeyAt(ks, i)
    BY <1>2
  <2> HIDE DEF g
  <2>2. g \in Injection(1..n, ks)
    <3>1. ASSUME NEW i \in 1..n, NEW j \in 1..n, g[i] = g[j], i # j PROVE FALSE
      <4>1. i \in Nat /\ j \in Nat /\ g[i] \in Nat /\ g[j] \in Nat
        BY <1>1, <1>2, <2>1
      <4>2. i < j \/ j < i
        BY <3>1, <4>1
      <4>3. g[i] < g[j] \/ g[j] < g[i]
        BY <1>4, <2>1, <4>2
      <4> QED
        BY <3>1, <4>1, <4>3
    <3> QED
      BY <2>1, <3>1 DEF Injection, IsInjective
  <2>3. IsFiniteSet(1..n) /\ Cardinality(1..n) = Cardinality(ks)
    BY <1>1, IntervalOf
  <2> HIDE DEF n
  <2>4. g \in Surjection(1..n, ks)
    BY <2>2, <2>3, FS_Injection
  <2> QED
    BY <2>1, <2>4 DEF Surjection
<1> QED
  BY <1>4, <1>5

\* A batch sorted and combined rises, stands for rows, and holds what it held.
LEMMA CoalescedKeeps ==
    ASSUME NEW s \in Seq(Records), Solid(s),
           \A i \in 1..Len(Coalesced(s)) : Coalesced(s)[i].agg # Refused
    PROVE  /\ Coalesced(s) \in Seq(Records)
           /\ Ascending(Coalesced(s)) /\ Solid(Coalesced(s))
           /\ \A q \in Quantities : \A k : Of(q, k, Coalesced(s)) = Of(q, k, s)
<1> DEFINE n == Cardinality(KeysOf(s))
           c == Coalesced(s)
<1>1. c \in Seq(Records)
  BY CoalescedType
<1>2. IsFiniteSet(KeysOf(s)) /\ KeysOf(s) \subseteq Nat /\ n \in Nat
  BY KeysOfType, Constants
<1>3. c = [i \in 1..n |-> [key |-> KeyAt(KeysOf(s), i),
                           agg |-> MergeAll(s, KeyAt(KeysOf(s), i))]]
  BY DEF Coalesced
<1>4. \A i \in 1..Len(c) : c[i].agg # Refused
  OBVIOUS
<1>5. /\ \A i, j \in 1..n : i < j => KeyAt(KeysOf(s), i) < KeyAt(KeysOf(s), j)
      /\ \A k \in KeysOf(s) : \E i \in 1..n : KeyAt(KeysOf(s), i) = k
  BY <1>2, KeyAtOrder
<1>6. \A i \in 1..n : KeyAt(KeysOf(s), i) \in KeysOf(s)
  BY <1>2, KeyAtRank
<1> HIDE DEF c, n
<1>7. Len(c) = n
  BY <1>2, <1>3
<1>8. \A i \in 1..n : c[i].key = KeyAt(KeysOf(s), i) /\ c[i].agg = MergeAll(s, c[i].key)
  BY <1>3
<1>9. Ascending(c)
  BY <1>5, <1>7, <1>8 DEF Ascending
<1>10. ASSUME NEW q \in Quantities, NEW i \in 1..n
       PROVE  Amount(q, c[i].agg) = Of(q, c[i].key, s)
  BY <1>4, <1>7, <1>8, MergeAllAmount
<1>11. Solid(c)
  <2>1. ASSUME NEW i \in 1..n PROVE Observed(c[i].agg) > 0
    <3>1. c[i].key \in KeysOf(s)
      BY <1>6, <1>8
    <3>2. Of("rows", c[i].key, s) > 0 /\ "rows" \in Quantities
      BY <3>1, RowsOf
    <3>3. Amount("rows", c[i].agg) > 0
      BY <1>10, <3>2
    <3> QED
      BY <3>3 DEF Amount
  <2> QED
    BY <1>7, <2>1 DEF Solid
<1>12. ASSUME NEW q \in Quantities, NEW k
       PROVE  Of(q, k, c) = Of(q, k, s)
  <2>1. CASE k \in KeysOf(s)
    <3>1. PICK i \in 1..n : c[i].key = k
      BY <1>5, <1>8, <2>1
    <3>2. i \in 1..Len(c)
      BY <1>7
    <3>3. Of(q, c[i].key, c) = Amount(q, c[i].agg)
      BY <1>1, <1>9, <3>2, OfAscending
    <3> QED
      BY <1>10, <3>1, <3>3
  <2>2. CASE k \notin KeysOf(s)
    <3>1. \A i \in 1..Len(c) : c[i].key # k
      BY <1>6, <1>7, <1>8, <2>2
    <3>2. \A i \in 1..Len(s) : s[i].key # k
      BY <2>2 DEF KeysOf
    <3>3. Of(q, k, c) = 0
      BY <1>1, <3>1, OfNone
    <3>4. Of(q, k, s) = 0
      BY <3>2, OfNone
    <3> QED
      BY <3>3, <3>4
  <2> QED
    BY <2>1, <2>2
<1> QED
  BY <1>1, <1>9, <1>11, <1>12 DEF c

-----------------------------------------------------------------------------
(* What runs hold *)

LEMMA StockType ==
    ASSUME NEW f, NEW names, names \subseteq DOMAIN f, IsFiniteSet(names),
           \A n \in names : f[n].recs \in Seq(Records),
           NEW q \in Quantities, NEW k
    PROVE  /\ Files(q, k, f, names) \in Nat
           /\ \A n \in names : Stock(q, k, f)[n].bytes = Of(q, k, f[n].recs)
                               /\ Of(q, k, f[n].recs) \in Nat
<1>1. \A n \in names : Stock(q, k, f)[n].bytes = Of(q, k, f[n].recs)
  BY DEF Stock
<1>2. \A n \in names : Of(q, k, f[n].recs) \in Nat
  BY OfType
<1>3. \A n \in names : Stock(q, k, f)[n].bytes \in Nat
  BY <1>1, <1>2
<1> QED
  BY <1>1, <1>2, <1>3, WeightType DEF Files

\* One run more.
LEMMA FilesAdd ==
    ASSUME NEW f, NEW names, NEW n, n \notin names, names \cup {n} \subseteq DOMAIN f,
           IsFiniteSet(names), \A m \in names \cup {n} : f[m].recs \in Seq(Records),
           NEW q \in Quantities, NEW k
    PROVE  Files(q, k, f, names \cup {n}) = Files(q, k, f, names) + Of(q, k, f[n].recs)
<1>1. IsFiniteSet(names \cup {n})
  BY FS_AddElement
<1>2. \A m \in names \cup {n} : Stock(q, k, f)[m].bytes = Of(q, k, f[m].recs)
                                /\ Of(q, k, f[m].recs) \in Nat
  BY <1>1, StockType
<1>3. \A m \in names \cup {n} : Stock(q, k, f)[m].bytes \in Nat
  BY <1>2
<1>4. Weight(Stock(q, k, f), names \cup {n}) = Weight(Stock(q, k, f), names) + Stock(q, k, f)[n].bytes
  BY <1>3, WeightAdd
<1> QED
  BY <1>2, <1>4 DEF Files

\* Runs that hold the same records hold the same.
LEMMA FilesSame ==
    ASSUME NEW f, NEW g, NEW names, names \subseteq DOMAIN f, names \subseteq DOMAIN g,
           \A n \in names : f[n].recs = g[n].recs,
           NEW q \in Quantities, NEW k
    PROVE  Files(q, k, f, names) = Files(q, k, g, names)
<1>1. \A n \in names : Stock(q, k, f)[n] = Stock(q, k, g)[n]
  BY DEF Stock
<1> QED
  BY <1>1, WeightSame DEF Files

LEMMA FilesNone ==
    ASSUME NEW f, NEW q \in Quantities, NEW k
    PROVE  Files(q, k, f, {}) = 0
  BY WeightNone DEF Files

LEMMA FilesOne ==
    ASSUME NEW f, NEW n, n \in DOMAIN f, f[n].recs \in Seq(Records),
           NEW q \in Quantities, NEW k
    PROVE  Files(q, k, f, {n}) = Of(q, k, f[n].recs)
<1> DEFINE none == {}
<1>1. /\ IsFiniteSet(none) /\ none \cup {n} = {n} /\ n \notin none
      /\ none \cup {n} \subseteq DOMAIN f
      /\ \A m \in none \cup {n} : f[m].recs \in Seq(Records)
  BY FS_EmptySet
<1> HIDE DEF none
<1>2. Files(q, k, f, none \cup {n}) = Files(q, k, f, none) + Of(q, k, f[n].recs)
  BY <1>1, FilesAdd
<1> USE DEF none
<1>3. Files(q, k, f, {}) = 0 /\ Of(q, k, f[n].recs) \in Nat
  BY FilesNone, OfType
<1> QED
  BY <1>1, <1>2, <1>3

-----------------------------------------------------------------------------
(* Rows come in *)

\* Where the promise stands.
Phase ==
    CASE failed \/ status = "error" -> "failed"
      [] status = "ok" -> "done"
      [] pc = "adding" /\ ~failed -> "adding"
      [] OTHER -> "emitting"

LEMMA PhaseOf ==
    ASSUME Phases
    PROVE  /\ Usable => Phase = "adding"
           /\ Busy => Phase = "emitting" /\ ~failed /\ status = "none"
  BY DEF Phases, Phase, Usable, Busy

LEMMA UnitType ==
    ASSUME NEW k \in Keys, NEW o \in Observations[k], NEW q \in Quantities
    PROVE  Unit(q, o) \in Nat
<1>1. MaxInt \in Nat /\ (o.type = "int" => o.value \in Int64)
  BY Constants
<1>2. o.type = "int" => o.value + (MaxInt + 1) \in Nat
  BY <1>1 DEF Int64
<1> QED
  BY <1>2 DEF Unit, Quantities

\* A row is counted for its key and for no other.
LEMMA Counting ==
    ASSUME Phases, NEW k \in Keys, NEW o \in Observations[k], Accept(k, o)
    PROVE  /\ total' \in [Keys -> Totals]
           /\ \A q \in Quantities, j \in Keys :
                Tally(q, total'[j]) = Tally(q, total[j]) + (IF j = k THEN Unit(q, o) ELSE 0)
<1>1. total \in [Keys -> Totals] /\ total' = [total EXCEPT ![k] = Promise!Counted(@, o)]
  BY DEF Phases, Accept
<1>2. total[k] \in Totals
  BY <1>1
<1>3. /\ Promise!Counted(total[k], o) \in Totals
      /\ \A q \in Quantities :
            Tally(q, Promise!Counted(total[k], o)) = Tally(q, total[k]) + Unit(q, o)
  BY <1>2, TallyCounted
<1>4. total' \in [Keys -> Totals] /\ total'[k] = Promise!Counted(total[k], o)
      /\ \A j \in Keys : j # k => total'[j] = total[j]
  BY <1>1, <1>3
<1>5. ASSUME NEW q \in Quantities, NEW j \in Keys
      PROVE  Tally(q, total'[j]) = Tally(q, total[j]) + (IF j = k THEN Unit(q, o) ELSE 0)
  <2>1. total[j] \in Totals
    BY <1>1
  <2>2. Tally(q, total[j]) \in Int
    BY <2>1, TotalParts
  <2> QED
    BY <1>3, <1>4, <2>2
<1> QED
  BY <1>4, <1>5

\* A new group holds its first row.
LEMMA FreshHolds ==
    ASSUME NEW k \in Keys, NEW o \in Observations[k]
    PROVE  /\ Observed(Fresh(k, o).agg) > 0
           /\ \A q \in Quantities, j \in Keys :
                Share(q, j, Fresh(k, o)) = IF j = k THEN Unit(q, o) ELSE 0
<1>1. Fresh(k, o).key = k /\ Fresh(k, o).agg = Observe(NewState, o)
  BY DEF Fresh
<1>2. ASSUME NEW q \in Quantities PROVE Amount(q, Observe(NewState, o)) = Unit(q, o)
  <2>1. Amount(q, Observe(NewState, o)) = Amount(q, NewState) + Unit(q, o)
    BY NewStateType, AmountObserve
  <2>2. Amount(q, NewState) = 0 /\ Unit(q, o) \in Nat
    BY AmountNew, UnitType
  <2> QED
    BY <2>1, <2>2
<1>3. Amount("rows", Observe(NewState, o)) = 1
  BY <1>2 DEF Quantities, Unit
<1>4. Observed(Fresh(k, o).agg) > 0
  BY <1>1, <1>3 DEF Amount
<1> QED
  BY <1>1, <1>2, <1>4 DEF Share

\* What a step that takes rows has to keep.
LEMMA AddKept ==
    ASSUME Inv, Kept, Usable, FinalizeUnchanged,
           Solid(groups'), Solid(spill'.recs), total' \in [Keys -> Totals],
           ~failed' => \A q \in Quantities, k \in Keys :
                Of(q, k, groups') + Of(q, k, spill'.recs) = Tally(q, total'[k])
    PROVE  Kept'
<1>1. /\ pc = "adding" /\ pc' = "adding" /\ status' = status /\ ~merge.on
      /\ UNCHANGED <<pos, batch, fs, sort, merge, out>>
  BY DEF Usable, FinalizeUnchanged, Inv, Shape
<1>2. Phases'
  BY <1>1 DEF Kept, Phases
<1>3. Held' = {}
  BY <1>1 DEF Held, Busy
<1>4. Solids'
  BY <1>1, <1>3 DEF Kept, Solids
<1>5. AllConserved'
  BY <1>1 DEF AllConserved, Conserved
<1>6. Below' /\ Handed'
  BY <1>1 DEF Kept, Below, Handed
<1> QED
  BY <1>2, <1>4, <1>5, <1>6 DEF Kept

LEMMA AddFoundKept ==
    ASSUME Inv, Kept, Inv', NEW k \in Keys, NEW o \in Observations[k], AddFound(k, o)
    PROVE  Kept'
<1>1. PICK i \in Find(k) :
        /\ Observe(groups[i].agg, o) # Refused
        /\ groups' = [groups EXCEPT ![i].agg = Observe(groups[i].agg, o)]
  BY DEF AddFound
<1>2. Usable /\ Accept(k, o) /\ UNCHANGED <<failed, spill>> /\ FinalizeUnchanged
  BY DEF AddFound
<1>3. groups \in Seq(Records) /\ groups' \in Seq(Records) /\ spill.recs \in Seq(Records)
  BY DEF Inv, TypeOK
<1>4. i \in 1..Len(groups) /\ groups[i].key = k /\ groups[i] \in Records
  BY <1>3 DEF Find
<1>5. groups[i].agg \in States
  BY <1>4, RecordParts
<1>6. /\ Len(groups') = Len(groups)
      /\ \A j \in 1..Len(groups) : j # i => groups'[j] = groups[j]
      /\ groups'[i] = [key |-> k, agg |-> Observe(groups[i].agg, o)]
  <2>1. groups[i] = [key |-> k, agg |-> groups[i].agg]
    BY <1>4 DEF Records
  <2>2. [groups[i] EXCEPT !.agg = Observe(groups[i].agg, o)] =
          [key |-> k, agg |-> Observe(groups[i].agg, o)]
    BY <2>1
  <2> QED
    BY <1>1, <1>3, <1>4, <2>2
<1>7. \A q \in Quantities : /\ Amount(q, groups'[i].agg) = Amount(q, groups[i].agg) + Unit(q, o)
                            /\ Amount(q, groups[i].agg) \in Nat /\ Unit(q, o) \in Nat
  <2> TAKE q \in Quantities
  <2>1. Amount(q, Observe(groups[i].agg, o)) = Amount(q, groups[i].agg) + Unit(q, o)
    BY <1>1, <1>5, AmountObserve
  <2> QED
    BY <1>5, <1>6, <2>1, AmountType, UnitType
<1>8. ~failed /\ pc = "adding"
  BY <1>2 DEF Usable
<1>9. ASSUME NEW q \in Quantities, NEW j \in Keys
      PROVE  Of(q, j, groups') + Of(q, j, spill'.recs) = Tally(q, total'[j])
  <2>1. Of(q, j, groups') + Share(q, j, groups[i]) = Of(q, j, groups) + Share(q, j, groups'[i])
    BY <1>3, <1>4, <1>6, OfChanged
  <2>2. Share(q, j, groups'[i]) = Share(q, j, groups[i]) + (IF j = k THEN Unit(q, o) ELSE 0)
        /\ Share(q, j, groups[i]) \in Nat /\ Unit(q, o) \in Nat
    BY <1>4, <1>6, <1>7 DEF Share
  <2>3. Of(q, j, groups) + Of(q, j, spill.recs) = Tally(q, total[j])
    BY <1>8 DEF Kept, AllConserved, Conserved
  <2>4. Of(q, j, groups) \in Nat /\ Of(q, j, groups') \in Nat /\ Of(q, j, spill.recs) \in Nat
    BY <1>3, OfType
  <2>5. Tally(q, total'[j]) = Tally(q, total[j]) + (IF j = k THEN Unit(q, o) ELSE 0)
    BY <1>2, Counting DEF Kept
  <2>6. spill'.recs = spill.recs
    BY <1>2
  <2> QED
    BY <2>1, <2>2, <2>3, <2>4, <2>5, <2>6
<1>10. Solid(groups')
  <2>1. Solid(groups)
    BY DEF Kept, Solids
  <2>2. Amount("rows", groups[i].agg) > 0
    BY <1>4, <2>1 DEF Solid, Amount
  <2>3. Observed(groups'[i].agg) > 0
    <3>1. "rows" \in Quantities
      BY DEF Quantities
    <3>2. Amount("rows", groups'[i].agg) > 0
      BY <1>7, <2>2, <3>1
    <3> QED
      BY <3>2 DEF Amount
  <2> QED
    BY <1>6, <2>1, <2>3 DEF Solid
<1>11. Solid(spill'.recs) /\ total' \in [Keys -> Totals]
  BY <1>2, Counting DEF Kept, Solids
<1> QED
  BY <1>2, <1>9, <1>10, <1>11, AddKept

LEMMA AddNewKept ==
    ASSUME Inv, Kept, NEW k \in Keys, NEW o \in Observations[k], AddNew(k, o)
    PROVE  Kept'
<1>1. Usable /\ Accept(k, o) /\ UNCHANGED <<failed, spill>> /\ FinalizeUnchanged
      /\ groups' = Append(groups, Fresh(k, o))
  BY DEF AddNew
<1>2. groups \in Seq(Records) /\ spill.recs \in Seq(Records) /\ Fresh(k, o) \in Records
  BY FreshType DEF Inv, TypeOK
<1>3. ~failed /\ pc = "adding"
  BY <1>1 DEF Usable
<1>4. ASSUME NEW q \in Quantities, NEW j \in Keys
      PROVE  Of(q, j, groups') + Of(q, j, spill'.recs) = Tally(q, total'[j])
  <2>1. Of(q, j, groups') = Of(q, j, groups) + Share(q, j, Fresh(k, o))
    BY <1>1, <1>2, OfAppend
  <2>2. Share(q, j, Fresh(k, o)) = (IF j = k THEN Unit(q, o) ELSE 0) /\ Unit(q, o) \in Nat
    BY FreshHolds, UnitType
  <2>3. Of(q, j, groups) + Of(q, j, spill.recs) = Tally(q, total[j])
    BY <1>3 DEF Kept, AllConserved, Conserved
  <2>4. Of(q, j, groups) \in Nat /\ Of(q, j, spill.recs) \in Nat
    BY <1>2, OfType
  <2>5. Tally(q, total'[j]) = Tally(q, total[j]) + (IF j = k THEN Unit(q, o) ELSE 0)
    BY <1>1, Counting DEF Kept
  <2>6. spill'.recs = spill.recs
    BY <1>1
  <2> QED
    BY <2>1, <2>2, <2>3, <2>4, <2>5, <2>6
<1>5. Solid(groups')
  <2>1. Solid(groups) /\ Observed(Fresh(k, o).agg) > 0
    BY FreshHolds DEF Kept, Solids
  <2>2. Len(groups') = Len(groups) + 1 /\ groups'[Len(groups) + 1] = Fresh(k, o)
        /\ \A i \in 1..Len(groups) : groups'[i] = groups[i]
    BY <1>1, <1>2
  <2>3. \A i \in 1..Len(groups') : i \in 1..Len(groups) \/ i = Len(groups) + 1
    BY <1>2, <2>2
  <2> QED
    BY <2>1, <2>2, <2>3 DEF Solid
<1>6. Solid(spill'.recs) /\ total' \in [Keys -> Totals]
  BY <1>1, Counting DEF Kept, Solids
<1> QED
  BY <1>1, <1>4, <1>5, <1>6, AddKept

\* Records behind records.
LEMMA SolidConcat ==
    ASSUME NEW s \in Seq(Records), NEW t \in Seq(Records), Solid(s), Solid(t)
    PROVE  Solid(s \o t)
<1> DEFINE u == s \o t
           a == Len(s)
<1>1. /\ a \in Nat /\ Len(t) \in Nat /\ Len(u) = a + Len(t)
      /\ \A i \in 1..a : u[i] = s[i]
      /\ \A i \in 1..Len(u) : i > a => u[i] = t[i - a]
  OBVIOUS
<1> HIDE DEF u
<1>2. ASSUME NEW i \in 1..Len(u) PROVE Observed(u[i].agg) > 0
  <2>1. CASE i <= a
    <3>1. i \in 1..a
      BY <1>1, <2>1
    <3> QED
      BY <1>1, <3>1 DEF Solid
  <2>2. CASE i > a
    <3>1. i - a \in 1..Len(t)
      BY <1>1, <2>2
    <3> QED
      BY <1>1, <2>2, <3>1 DEF Solid
  <2> QED
    BY <1>1, <2>1, <2>2
<1>3. Solid(u)
  BY <1>2 DEF Solid
<1> QED
  BY <1>3 DEF u

\* A flush of the whole map.
LEMMA FlushHolds ==
    ASSUME Inv, Kept
    PROVE  /\ Flushed(Len(groups)).recs \in Seq(Records)
           /\ Solid(Flushed(Len(groups)).recs)
           /\ \A q \in Quantities : \A k :
                Of(q, k, Flushed(Len(groups)).recs) = Of(q, k, spill.recs) + Of(q, k, groups)
<1>1. groups \in Seq(Records) /\ spill.recs \in Seq(Records)
  BY DEF Inv, TypeOK
<1>2. Flushed(Len(groups)).recs = spill.recs \o groups
  <2>1. SubSeq(groups, 1, Len(groups)) = groups
    BY <1>1
  <2> QED
    BY <2>1 DEF Flushed
<1>3. Solid(spill.recs) /\ Solid(groups)
  BY DEF Kept, Solids
<1>4. Solid(spill.recs \o groups)
  BY <1>1, <1>3, SolidConcat
<1>5. spill.recs \o groups \in Seq(Records)
  BY <1>1
<1> QED
  BY <1>1, <1>2, <1>4, <1>5, OfConcat

LEMMA AddFlushKept ==
    ASSUME Inv, Kept, NEW k \in Keys, NEW o \in Observations[k], AddFlush(k, o)
    PROVE  Kept'
<1>1. Usable /\ Accept(k, o) /\ UNCHANGED failed /\ FinalizeUnchanged
      /\ groups' = << Fresh(k, o) >> /\ spill' = Flushed(Len(groups))
  BY DEF AddFlush
<1>2. groups \in Seq(Records) /\ spill.recs \in Seq(Records) /\ Fresh(k, o) \in Records
  BY FreshType DEF Inv, TypeOK
<1>3. ~failed /\ pc = "adding"
  BY <1>1 DEF Usable
<1>4. ASSUME NEW q \in Quantities, NEW j \in Keys
      PROVE  Of(q, j, groups') + Of(q, j, spill'.recs) = Tally(q, total'[j])
  <2>1. Of(q, j, groups') = Share(q, j, Fresh(k, o))
    BY <1>1, <1>2, OfOne
  <2>2. Share(q, j, Fresh(k, o)) = (IF j = k THEN Unit(q, o) ELSE 0) /\ Unit(q, o) \in Nat
    BY FreshHolds, UnitType
  <2>3. Of(q, j, groups) + Of(q, j, spill.recs) = Tally(q, total[j])
    BY <1>3 DEF Kept, AllConserved, Conserved
  <2>4. Of(q, j, groups) \in Nat /\ Of(q, j, spill.recs) \in Nat
    BY <1>2, OfType
  <2>5. Tally(q, total'[j]) = Tally(q, total[j]) + (IF j = k THEN Unit(q, o) ELSE 0)
    BY <1>1, Counting DEF Kept
  <2>6. Of(q, j, spill'.recs) = Of(q, j, spill.recs) + Of(q, j, groups)
    BY <1>1, FlushHolds
  <2> QED
    BY <2>1, <2>2, <2>3, <2>4, <2>5, <2>6
<1>5. Solid(groups')
  <2>1. Observed(Fresh(k, o).agg) > 0
    BY FreshHolds
  <2>2. Len(groups') = 1 /\ groups'[1] = Fresh(k, o) /\ \A i \in 1..1 : i = 1
    BY <1>1
  <2> QED
    BY <2>1, <2>2 DEF Solid
<1>6. Solid(spill'.recs) /\ total' \in [Keys -> Totals]
  BY <1>1, Counting, FlushHolds DEF Kept
<1> QED
  BY <1>1, <1>4, <1>5, <1>6, AddKept

\* What a failed flush left on disk is not looked at again.
LEMMA FlushFailsKept ==
    ASSUME Inv, Kept, NEW n \in 0..GroupCapacity, FlushFails(n)
    PROVE  Kept'
<1>1. Usable /\ FinalizeUnchanged /\ failed' /\ UNCHANGED <<groups, total, rows>>
      /\ spill' = Flushed(n) /\ n < Len(groups)
  BY DEF FlushFails
<1>2. groups \in Seq(Records) /\ spill.recs \in Seq(Records) /\ n \in Nat
  BY Constants DEF Inv, TypeOK
<1>3. Solid(spill'.recs)
  <2> DEFINE t == SubSeq(groups, 1, n)
  <2>1. t \in Seq(Records) /\ Len(t) = n /\ \A i \in 1..n : t[i] = groups[i] /\ i \in 1..Len(groups)
    BY <1>1, <1>2
  <2>2. spill'.recs = spill.recs \o t
    BY <1>1 DEF Flushed
  <2> HIDE DEF t
  <2>3. Solid(spill.recs) /\ Solid(groups)
    BY DEF Kept, Solids
  <2>4. Solid(t)
    BY <2>1, <2>3 DEF Solid
  <2> QED
    BY <1>2, <2>1, <2>2, <2>3, <2>4, SolidConcat
<1>4. Solid(groups') /\ total' \in [Keys -> Totals]
  BY <1>1 DEF Kept, Solids, Phases
<1> QED
  BY <1>1, <1>3, <1>4, AddKept

LEMMA CloseSpillFailsKept ==
    ASSUME Inv, Kept, CloseSpillFails
    PROVE  Kept'
<1>1. Usable /\ FinalizeUnchanged /\ failed' /\ groups' = << >> /\ UNCHANGED <<total, rows>>
      /\ spill' = Flushed(Len(groups))
  BY DEF CloseSpillFails
<1>2. Solid(groups')
  BY <1>1 DEF Solid
<1>3. Solid(spill'.recs) /\ total' \in [Keys -> Totals]
  BY <1>1, FlushHolds DEF Kept, Phases
<1> QED
  BY <1>1, <1>2, <1>3, AddKept

-----------------------------------------------------------------------------
(* Finalize reads the rows back *)

\* The runs finalize has, but for the output it is writing.
HeldRuns ==
    /\ IsFiniteSet(Runs) /\ Out \notin Waiting
    /\ Busy =>
        /\ Held = Runs \cup Writing /\ OwnRuns = Held
        /\ Runs \subseteq DOMAIN fs
        /\ \A n \in Held : n \in DOMAIN fs /\ fs[n].recs \in Seq(Records)
    /\ (Busy /\ ~merge.on) => Runs = OwnRuns /\ Runs = Held
    /\ pc \in {"merging", "emitting"} => Out \notin Runs

LEMMA RunsAreHeld == Inv => HeldRuns
<1> SUFFICES ASSUME Inv PROVE HeldRuns
  OBVIOUS
<1>1. IsFiniteSet(Runs) /\ Out \notin Waiting
  BY WaitingNames, FS_Union DEF Runs
<1>2. Busy => Held = Runs \cup Writing /\ OwnRuns = Held
  BY DEF Held, Runs, Inv, Placed
<1>3. \A n \in Held : n \in DOMAIN fs /\ fs[n].recs \in Seq(Records)
  BY OwnFiles
<1>4. ~merge.on => Writing = {}
  BY DEF Writing
<1>5. pc \in {"merging", "emitting"} => Out \notin Runs
  BY WaitingNames, NextOutput DEF Runs
<1> QED
  BY <1>1, <1>2, <1>3, <1>4, <1>5 DEF HeldRuns

\* What is known of the records while finalize works.
LEMMA BusyParts ==
    ASSUME Inv, Kept, Busy
    PROVE  /\ ~failed /\ status = "none" /\ total \in [Keys -> Totals]
           /\ Solid(groups) /\ Solid(spill.recs) /\ Solid(batch)
           /\ \A n \in Held : Solid(fs[n].recs) /\ Ascending(fs[n].recs)
           /\ \A q \in Quantities : \A k \in Keys : Conserved(q, k)
           /\ spill.recs \in Seq(Records) /\ batch \in Seq(Records)
  BY DEF Kept, Phases, Solids, AllConserved, Busy, Inv, TypeOK

\* finalize has returned.
LEMMA DoneKept ==
    ASSUME Inv, Kept, Busy, pc' = "done", status' \in {"ok", "error"}, ~merge'.on,
           UNCHANGED <<spill, batch, groups, failed, total>>
    PROVE  Kept'
<1>1. ~failed /\ total \in [Keys -> Totals] /\ Solid(groups) /\ Solid(spill.recs) /\ Solid(batch)
  BY BusyParts
<1>2. Phases'
  BY <1>1 DEF Phases
<1>3. Held' = {}
  BY DEF Held, Busy
<1>4. Solids'
  BY <1>1, <1>3 DEF Solids
<1>5. AllConserved' /\ Below' /\ Handed'
  BY DEF AllConserved, Conserved, Below, Handed
<1> QED
  BY <1>2, <1>4, <1>5 DEF Kept

LEMMA FinalizeFailsKept ==
    ASSUME Inv, Kept, Busy, NEW names, FinalizeFails(names)
    PROVE  Kept'
<1>1. pc' = "done" /\ status' = "error" /\ merge' = NoMerge
      /\ UNCHANGED <<spill, batch, groups, failed, total>>
  BY DEF FinalizeFails, AddingUnchanged
<1>2. ~merge'.on
  BY <1>1 DEF NoMerge
<1> QED
  BY <1>1, <1>2, DoneKept

LEMMA FinalizeKept ==
    ASSUME Corruption = FALSE, Inv, Kept, Finalize
    PROVE  Kept'
<1>1. /\ pc = "adding" /\ ~failed /\ pc' = "reading" /\ groups' = << >>
      /\ UNCHANGED <<status, failed, pos, batch, fs, sort, merge, out, total, rows>>
  BY DEF Finalize, Usable
<1>2. sort = NoSort /\ ~merge.on /\ pos = 0 /\ batch = << >> /\ out = << >>
  BY <1>1 DEF Inv, Shape, Kept, Handed
<1>3. /\ spill'.recs = Flushed(Len(groups)).recs
      /\ spill'.recs \in Seq(Records) /\ Solid(spill'.recs)
      /\ \A q \in Quantities : \A k : Of(q, k, spill'.recs) = Of(q, k, spill.recs) + Of(q, k, groups)
  <2> DEFINE F == Flushed(Len(groups))
  <2>1. F.recs \in Seq(Records)
    BY FlushHolds
  <2>2. spill' = [F EXCEPT !.recs = SubSeq(@, 1, Len(F.recs))]
    BY DEF Finalize
  <2>3. F = [recs |-> F.recs, bytes |-> F.bytes]
    BY DEF Flushed
  <2> HIDE DEF F
  <2>4. SubSeq(F.recs, 1, Len(F.recs)) = F.recs
    BY <2>1
  <2>5. spill'.recs = F.recs
    BY <2>2, <2>3, <2>4
  <2> USE DEF F
  <2> QED
    BY <2>1, <2>5, FlushHolds
<1>4. Waiting' = {} /\ Outputs' = {} /\ Writing' = {} /\ Runs' = {} /\ Held' = {}
  <2>1. sort'.i = 0 /\ sort'.runs = 0 /\ sort'.created = 0 /\ 0..(0 - 1) = {}
    BY <1>1, <1>2 DEF NoSort
  <2>2. Waiting' = {} /\ Outputs' = {}
    BY <2>1 DEF Waiting, Outputs, RunSet
  <2>3. Writing' = {}
    BY <1>1, <1>2 DEF Writing
  <2> QED
    BY <2>2, <2>3 DEF Runs, Held
<1>5. Phases'
  BY <1>1 DEF Kept, Phases
<1>6. Solids'
  BY <1>1, <1>2, <1>3, <1>4 DEF Solids, Solid
<1>7. ASSUME NEW q \in Quantities, NEW k \in Keys PROVE Conserved(q, k)'
  <2>1. Of(q, k, groups) + Of(q, k, spill.recs) = Tally(q, total[k])
    BY <1>1 DEF Kept, AllConserved, Conserved
  <2>2. Of(q, k, groups) \in Nat /\ Of(q, k, spill.recs) \in Nat
    BY OfType DEF Inv, TypeOK
  <2>3. Of(q, k, spill'.recs) = Tally(q, total'[k])
    BY <1>1, <1>3, <2>1, <2>2
  <2>4. Prefix(q, k, spill'.recs, 0) = 0
    <3>1. 0 \in 0..Len(spill'.recs)
      BY <1>3
    <3> QED
      BY <1>3, <3>1, PrefixType
  <2>5. Of(q, k, batch') = 0
    BY <1>1, <1>2, OfEmpty
  <2>6. Files(q, k, fs', Runs') = 0
    BY <1>4, FilesNone
  <2> QED
    BY <1>1, <1>2, <2>3, <2>4, <2>5, <2>6 DEF Conserved
<1>8. AllConserved'
  BY <1>7 DEF AllConserved
<1>9. Below' /\ Handed'
  <2>1. 0 <= Len(spill'.recs)
    BY <1>3
  <2> QED
    BY <1>1, <1>2, <2>1 DEF Below, Handed
<1> QED
  BY <1>5, <1>6, <1>8, <1>9 DEF Kept

\* A run takes over what the batch holds.
LEMMA RunTakesBatch ==
    ASSUME Inv, Kept, Inv', WriteRun, pc = "reading", UNCHANGED <<pc, merge>>
    PROVE  /\ \A q \in Quantities : \A k :
                Files(q, k, fs', Runs') = Files(q, k, fs, Runs) + Of(q, k, batch)
           /\ \A n \in Held' : Solid(fs'[n].recs) /\ Ascending(fs'[n].recs)
           /\ \A q \in Quantities : \A k : Files(q, k, fs, Runs) \in Nat
<1> DEFINE name == <<0, sort.runs>>
           recs == SortedBatch
<1>1. Busy /\ ~merge.on /\ Busy' /\ ~merge'.on
  BY FirstRuns DEF Busy
<1>2. /\ batch \in Seq(Records) /\ Solid(batch)
      /\ \A n \in Held : Solid(fs[n].recs) /\ Ascending(fs[n].recs)
  BY <1>1, BusyParts
<1>3. /\ recs \in Seq(Records) /\ Ascending(recs) /\ Solid(recs)
      /\ \A q \in Quantities : \A k : Of(q, k, recs) = Of(q, k, batch)
  <2>1. \A i \in 1..Len(Coalesced(batch)) : Coalesced(batch)[i].agg # Refused
    BY DEF WriteRun, CanWriteRun, SortedBatch
  <2> QED
    BY <1>2, <2>1, CoalescedKeeps DEF SortedBatch
<1>4. HeldRuns /\ HeldRuns'
  <2>1. (Inv => HeldRuns)'
    BY RunsAreHeld, PTL
  <2> QED
    BY <2>1, RunsAreHeld
<1> HIDE DEF recs
<1> DEFINE file == [own |-> TRUE, recs |-> recs, bytes |-> BytesOf(recs)]
<1>5. name \notin DOMAIN fs /\ fs' = With(name, file)
  BY DEF WriteRun, CanWriteRun, FreeRunName, recs
<1>6. file \in [own : BOOLEAN, recs : Seq(Records), bytes : Nat] /\ file.own /\ file.recs = recs
  BY <1>3, BytesOfType
<1> HIDE DEF file, name
<1>7. /\ OwnRuns' = OwnRuns \cup {name}
      /\ fs'[name] = file
      /\ \A n \in DOMAIN fs : n # name /\ n \in DOMAIN fs' /\ fs'[n] = fs[n]
  BY <1>5, <1>6, FileAdded
<1>8. Runs' = Runs \cup {name} /\ Held' = Held \cup {name} /\ Runs = Held /\ name \notin Runs
      /\ Runs \subseteq DOMAIN fs
  BY <1>1, <1>4, <1>5, <1>7 DEF HeldRuns
<1>9. \A n \in Held' : Solid(fs'[n].recs) /\ Ascending(fs'[n].recs)
  BY <1>2, <1>3, <1>6, <1>7, <1>8
<1>10. \A n \in Runs : n \in DOMAIN fs' /\ fs'[n].recs = fs[n].recs /\ fs'[n].recs \in Seq(Records)
  BY <1>1, <1>4, <1>7, <1>8 DEF HeldRuns
<1>11. /\ IsFiniteSet(Runs) /\ name \in DOMAIN fs' /\ fs'[name].recs \in Seq(Records)
  <2>1. name \in DOMAIN fs'
    BY <1>5 DEF With
  <2> QED
    BY <1>3, <1>4, <1>6, <1>7, <2>1 DEF HeldRuns
<1> DEFINE S == Runs
<1>12. ASSUME NEW q \in Quantities, NEW k
       PROVE  /\ Files(q, k, fs', S \cup {name}) = Files(q, k, fs, S) + Of(q, k, batch)
              /\ Files(q, k, fs, S) \in Nat
  <2>0. /\ S \subseteq DOMAIN fs /\ IsFiniteSet(S) /\ name \notin S
        /\ \A n \in S : n \in DOMAIN fs' /\ fs'[n].recs = fs[n].recs /\ fs'[n].recs \in Seq(Records)
    BY <1>8, <1>10, <1>11
  <2> HIDE DEF S
  <2>1. /\ S \cup {name} \subseteq DOMAIN fs' /\ S \subseteq DOMAIN fs'
        /\ \A n \in S \cup {name} : fs'[n].recs \in Seq(Records)
        /\ \A n \in S : fs[n].recs \in Seq(Records)
    BY <2>0, <1>11
  <2>2. Files(q, k, fs', S \cup {name}) = Files(q, k, fs', S) + Of(q, k, fs'[name].recs)
    BY <2>0, <2>1, FilesAdd
  <2>3. Files(q, k, fs', S) = Files(q, k, fs, S)
    BY <2>0, <2>1, FilesSame
  <2>4. Files(q, k, fs, S) \in Nat
    BY <2>0, <2>1, StockType
  <2>5. Of(q, k, fs'[name].recs) = Of(q, k, batch)
    BY <1>3, <1>6, <1>7
  <2> QED
    BY <2>2, <2>3, <2>4, <2>5
<1> QED
  BY <1>8, <1>9, <1>12

LEMMA ReadSourceKept ==
    ASSUME Inv, Kept, Inv', ReadSource
    PROVE  Kept'
<1> DEFINE r == spill.recs[pos + 1]
<1>1. /\ pc = "reading" /\ pos < Len(spill.recs) /\ pos' = pos + 1
      /\ UNCHANGED <<pc, status, spill, merge, out, groups, failed, total, rows>>
  BY DEF ReadSource, AddingUnchanged
<1>2. Busy /\ Busy' /\ ~merge.on /\ ~merge'.on /\ pos \in Nat /\ out = << >>
  BY <1>1, FirstRuns DEF Busy, Inv, TypeOK, Kept, Handed
<1>3. /\ ~failed /\ status = "none" /\ total \in [Keys -> Totals]
      /\ Solid(groups) /\ Solid(spill.recs) /\ Solid(batch)
      /\ \A n \in Held : Solid(fs[n].recs) /\ Ascending(fs[n].recs)
      /\ \A q \in Quantities : \A k \in Keys : Conserved(q, k)
      /\ spill.recs \in Seq(Records) /\ batch \in Seq(Records)
  BY <1>2, BusyParts
<1>4. pos + 1 \in 1..Len(spill.recs) /\ pos \in 0..(Len(spill.recs) - 1)
  BY <1>1, <1>2, <1>3
<1>5. r \in Records /\ Observed(r.agg) > 0
  BY <1>3, <1>4 DEF Solid
<1> HIDE DEF r
<1>6. /\ Solid(batch') /\ \A n \in Held' : Solid(fs'[n].recs) /\ Ascending(fs'[n].recs)
      /\ \A q \in Quantities : \A k :
            Of(q, k, batch') + Files(q, k, fs', Runs')
              = (Of(q, k, batch) + Files(q, k, fs, Runs)) + Share(q, k, r)
  <2>1. CASE Len(batch) = BatchCapacity
    <3>1. WriteRun /\ batch' = << r >>
      BY <2>1 DEF ReadSource, r
    <3>2. /\ \A q \in Quantities : \A k :
                Files(q, k, fs', Runs') = Files(q, k, fs, Runs) + Of(q, k, batch)
          /\ \A n \in Held' : Solid(fs'[n].recs) /\ Ascending(fs'[n].recs)
          /\ \A q \in Quantities : \A k : Files(q, k, fs, Runs) \in Nat
      BY <1>1, <3>1, RunTakesBatch
    <3>3. Solid(batch')
      <4>1. Len(batch') = 1 /\ batch'[1] = r /\ \A i \in 1..1 : i = 1
        BY <3>1
      <4> QED
        BY <1>5, <4>1 DEF Solid
    <3>4. ASSUME NEW q \in Quantities, NEW k
          PROVE  Of(q, k, batch') + Files(q, k, fs', Runs')
                  = (Of(q, k, batch) + Files(q, k, fs, Runs)) + Share(q, k, r)
      <4>1. Of(q, k, batch') = Share(q, k, r)
        BY <1>5, <3>1, OfOne
      <4>2. Of(q, k, batch) \in Nat /\ Share(q, k, r) \in Nat /\ Files(q, k, fs, Runs) \in Nat
        BY <1>3, <1>5, <3>2, OfType, ShareType
      <4>3. Files(q, k, fs', Runs') = Files(q, k, fs, Runs) + Of(q, k, batch)
        BY <3>2
      <4> QED
        BY <4>1, <4>2, <4>3
    <3> QED
      BY <3>2, <3>3, <3>4
  <2>2. CASE Len(batch) # BatchCapacity
    <3>1. batch' = Append(batch, r) /\ UNCHANGED <<fs, sort>>
      BY <2>2 DEF ReadSource, r
    <3>2. Runs' = Runs /\ Held' = Held
      BY <1>1, <3>1 DEF Runs, Waiting, Outputs, Writing, Held, Busy, Out
    <3>3. Solid(batch')
      <4>1. Len(batch') = Len(batch) + 1 /\ batch'[Len(batch) + 1] = r
            /\ \A i \in 1..Len(batch) : batch'[i] = batch[i]
        BY <1>3, <1>5, <3>1
      <4>2. \A i \in 1..Len(batch') : i \in 1..Len(batch) \/ i = Len(batch) + 1
        BY <1>3, <4>1
      <4> QED
        BY <1>3, <1>5, <4>1, <4>2 DEF Solid
    <3>4. ASSUME NEW q \in Quantities, NEW k
          PROVE  Of(q, k, batch') + Files(q, k, fs', Runs')
                  = (Of(q, k, batch) + Files(q, k, fs, Runs)) + Share(q, k, r)
      <4>1. Of(q, k, batch') = Of(q, k, batch) + Share(q, k, r)
        BY <1>3, <1>5, <3>1, OfAppend
      <4>2. Of(q, k, batch) \in Nat /\ Share(q, k, r) \in Nat
        BY <1>3, <1>5, OfType, ShareType
      <4>3. Files(q, k, fs, Runs) \in Nat
        <5>1. HeldRuns
          BY RunsAreHeld
        <5>2. Runs \subseteq DOMAIN fs /\ IsFiniteSet(Runs)
              /\ \A n \in Runs : fs[n].recs \in Seq(Records)
          BY <1>2, <5>1 DEF HeldRuns
        <5> QED
          BY <5>2, StockType
      <4>4. Files(q, k, fs', Runs') = Files(q, k, fs, Runs)
        BY <3>1, <3>2
      <4> QED
        BY <4>1, <4>2, <4>3, <4>4
    <3>5. \A n \in Held' : Solid(fs'[n].recs) /\ Ascending(fs'[n].recs)
      BY <1>3, <3>1, <3>2
    <3> QED
      BY <3>3, <3>4, <3>5
  <2> QED
    BY <2>1, <2>2
<1>7. Phases'
  BY <1>1 DEF Kept, Phases
<1>8. Solids'
  BY <1>1, <1>3, <1>6 DEF Solids
<1>9. ASSUME NEW q \in Quantities, NEW k \in Keys PROVE Conserved(q, k)'
  <2>1. /\ Of(q, k, spill.recs) = Tally(q, total[k])
        /\ Prefix(q, k, spill.recs, pos) = Of(q, k, batch) + Files(q, k, fs, Runs)
    BY <1>1, <1>3 DEF Conserved
  <2>2. Prefix(q, k, spill.recs, pos + 1) = Prefix(q, k, spill.recs, pos) + Share(q, k, r)
    BY <1>3, <1>4, PrefixStep DEF r
  <2>3. Prefix(q, k, spill.recs, pos + 1) = Of(q, k, batch') + Files(q, k, fs', Runs')
    BY <1>6, <2>1, <2>2
  <2> QED
    BY <1>1, <1>2, <2>1, <2>3 DEF Conserved
<1>10. AllConserved'
  BY <1>9 DEF AllConserved
<1>11. Below' /\ Handed'
  <2>1. pos + 1 <= Len(spill.recs)
    BY <1>4
  <2> QED
    BY <1>1, <1>2, <2>1 DEF Below, Handed
<1> QED
  BY <1>7, <1>8, <1>10, <1>11 DEF Kept

LEMMA LastRunKept ==
    ASSUME Inv, Kept, Inv', LastRun
    PROVE  Kept'
<1>1. /\ pc = "reading" /\ WriteRun /\ batch' = << >>
      /\ UNCHANGED <<pc, status, spill, pos, merge, out, groups, failed, total, rows>>
  BY DEF LastRun, AddingUnchanged
<1>2. Busy /\ Busy' /\ ~merge.on /\ ~merge'.on /\ out = << >>
  BY <1>1, FirstRuns DEF Busy, Kept, Handed
<1>3. /\ ~failed /\ status = "none" /\ total \in [Keys -> Totals]
      /\ Solid(groups) /\ Solid(spill.recs)
      /\ \A q \in Quantities : \A k \in Keys : Conserved(q, k)
      /\ batch \in Seq(Records)
  BY <1>2, BusyParts
<1>4. /\ \A q \in Quantities : \A k :
            Files(q, k, fs', Runs') = Files(q, k, fs, Runs) + Of(q, k, batch)
      /\ \A n \in Held' : Solid(fs'[n].recs) /\ Ascending(fs'[n].recs)
      /\ \A q \in Quantities : \A k : Files(q, k, fs, Runs) \in Nat
  BY <1>1, RunTakesBatch
<1>5. Phases'
  BY <1>1 DEF Kept, Phases
<1>6. Solids'
  BY <1>1, <1>3, <1>4 DEF Solids, Solid
<1>7. ASSUME NEW q \in Quantities, NEW k \in Keys PROVE Conserved(q, k)'
  <2>1. /\ Of(q, k, spill.recs) = Tally(q, total[k])
        /\ Prefix(q, k, spill.recs, pos) = Of(q, k, batch) + Files(q, k, fs, Runs)
    BY <1>1, <1>3 DEF Conserved
  <2>2. Of(q, k, batch') = 0 /\ Of(q, k, batch) \in Nat /\ Files(q, k, fs, Runs) \in Nat
    BY <1>1, <1>3, <1>4, OfEmpty, OfType
  <2>3. Files(q, k, fs', Runs') = Files(q, k, fs, Runs) + Of(q, k, batch)
    BY <1>4
  <2>4. Prefix(q, k, spill.recs, pos) = Of(q, k, batch') + Files(q, k, fs', Runs')
    BY <2>1, <2>2, <2>3
  <2> QED
    BY <1>1, <1>2, <2>1, <2>4 DEF Conserved
<1>8. AllConserved'
  BY <1>7 DEF AllConserved
<1>9. Below' /\ Handed'
  BY <1>1, <1>2 DEF Kept, Below, Handed
<1> QED
  BY <1>5, <1>6, <1>8, <1>9 DEF Kept

\* Everything that was spilled is in the runs.
LEMMA AllRead ==
    ASSUME Inv, Kept, pc = "reading", pos = Len(spill.recs), batch = << >>
    PROVE  \A q \in Quantities : \A k \in Keys : Files(q, k, fs, Runs) = Tally(q, total[k])
<1>1. Busy
  BY DEF Busy
<1>2. HeldRuns
  BY RunsAreHeld
<1>3. Runs \subseteq DOMAIN fs /\ IsFiniteSet(Runs) /\ \A n \in Runs : fs[n].recs \in Seq(Records)
  BY <1>1, <1>2 DEF HeldRuns
<1>4. ASSUME NEW q \in Quantities, NEW k \in Keys
      PROVE  Files(q, k, fs, Runs) = Tally(q, total[k])
  <2>1. /\ Of(q, k, spill.recs) = Tally(q, total[k])
        /\ Prefix(q, k, spill.recs, pos) = Of(q, k, batch) + Files(q, k, fs, Runs)
    BY <1>1, BusyParts DEF Conserved
  <2>2. Of(q, k, batch) = 0 /\ Files(q, k, fs, Runs) \in Nat
    BY <1>3, OfEmpty, StockType
  <2> QED
    BY <2>1, <2>2 DEF Of
<1> QED
  BY <1>4

LEMMA NoRunsKept == ASSUME Inv, Kept, NoRuns PROVE Kept'
<1>1. /\ pc = "reading" /\ pc' = "done" /\ status' = "ok"
      /\ UNCHANGED <<spill, batch, merge, groups, failed, total>>
  BY DEF NoRuns, AddingUnchanged
<1>2. Busy /\ ~merge.on
  BY <1>1, FirstRuns DEF Busy
<1> QED
  BY <1>1, <1>2, DoneKept

LEMMA StartMergingKept == ASSUME Inv, Kept, StartMerging PROVE Kept'
<1>1. /\ pc = "reading" /\ pc' = "merging" /\ pos = Len(spill.recs) /\ batch = << >>
      /\ sort' = [sort EXCEPT !.next = sort.bytes]
      /\ UNCHANGED <<status, spill, pos, batch, fs, merge, out, groups, failed, total, rows>>
  BY DEF StartMerging, AddingUnchanged
<1>2. Busy /\ Busy' /\ ~merge.on /\ ~merge'.on /\ out = << >>
  BY <1>1, FirstRuns DEF Busy, Kept, Handed
<1>3. /\ sort'.runs = sort.runs /\ sort'.pass = sort.pass /\ sort'.i = sort.i
      /\ sort'.created = sort.created
  BY <1>1 DEF Inv, TypeOK
<1>4. Runs' = Runs /\ Held' = Held
  BY <1>1, <1>2, <1>3 DEF Runs, Waiting, Outputs, Writing, Held, RunSet
<1>5. \A q \in Quantities : \A k \in Keys : Files(q, k, fs, Runs) = Tally(q, total[k])
  BY <1>1, AllRead
<1>6. Phases'
  BY <1>1 DEF Kept, Phases
<1>7. Solids'
  BY <1>1, <1>4 DEF Kept, Solids
<1>8. AllConserved'
  BY <1>1, <1>2, <1>4, <1>5 DEF AllConserved, Conserved
<1>9. Below' /\ Handed'
  BY <1>1, <1>2 DEF Below, Handed
<1> QED
  BY <1>6, <1>7, <1>8, <1>9 DEF Kept

-----------------------------------------------------------------------------
(* Runs are merged *)

\* A step that writes the output of a pair.
LEMMA WritingKept ==
    ASSUME Inv, Kept, pc = "merging", MergingUnchanged, UNCHANGED <<pc, sort>>, merge'.on,
           \A n \in DOMAIN fs : n # Out => n \in DOMAIN fs' /\ fs'[n] = fs[n],
           Left \in Runs, Right \in Runs,
           Solid(fs'[Out].recs), Ascending(fs'[Out].recs),
           merge'.a <= Len(fs[Left].recs), merge'.b <= Len(fs[Right].recs),
           \A i \in 1..Len(fs'[Out].recs) :
            /\ merge'.a < Len(fs[Left].recs) =>
                fs'[Out].recs[i].key < fs[Left].recs[merge'.a + 1].key
            /\ merge'.b < Len(fs[Right].recs) =>
                fs'[Out].recs[i].key < fs[Right].recs[merge'.b + 1].key,
           \A q \in Quantities, k \in Keys :
            Of(q, k, fs'[Out].recs) =
                Prefix(q, k, fs[Left].recs, merge'.a) + Prefix(q, k, fs[Right].recs, merge'.b)
    PROVE  Kept'
<1>1. Busy /\ Busy' /\ UNCHANGED <<pc, sort, status, spill, pos, batch, out, groups, failed, total>>
  BY DEF Busy, MergingUnchanged, AddingUnchanged
<1>2. /\ \A n \in Held : Solid(fs[n].recs) /\ Ascending(fs[n].recs)
      /\ \A q \in Quantities : \A k \in Keys : Conserved(q, k)
  BY <1>1, BusyParts
<1>3. Runs' = Runs /\ Left' = Left /\ Right' = Right /\ Out' = Out /\ Held' = Runs \cup {Out}
  BY <1>1 DEF Runs, Waiting, Outputs, RunSet, Left, Right, Out, Held, Writing
<1>4. Runs \subseteq Held /\ Runs \subseteq DOMAIN fs /\ Out \notin Runs
  <2>1. HeldRuns
    BY RunsAreHeld
  <2> QED
    BY <1>1, <2>1 DEF HeldRuns
<1>5. \A n \in Runs : n \in DOMAIN fs' /\ fs'[n] = fs[n]
  BY <1>4
<1>6. Phases'
  BY <1>1 DEF Kept, Phases
<1>7. Solids'
  <2>1. \A n \in Held' : Solid(fs'[n].recs) /\ Ascending(fs'[n].recs)
    BY <1>2, <1>3, <1>4, <1>5
  <2> QED
    BY <1>1, <2>1 DEF Kept, Solids
<1>8. fs'[Left'] = fs[Left] /\ fs'[Right'] = fs[Right] /\ fs'[Out'] = fs'[Out]
  BY <1>3, <1>5
<1>9. ASSUME NEW q \in Quantities, NEW k \in Keys PROVE Conserved(q, k)'
  <2> DEFINE S == Runs
  <2>1. Files(q, k, fs, S) = Tally(q, total[k])
    BY <1>2 DEF Conserved
  <2>2. S \subseteq DOMAIN fs /\ S \subseteq DOMAIN fs' /\ \A n \in S : fs'[n].recs = fs[n].recs
    BY <1>4, <1>5
  <2> HIDE DEF S
  <2>3. Files(q, k, fs', S) = Files(q, k, fs, S)
    BY <2>2, FilesSame
  <2>4. Files(q, k, fs', Runs') = Tally(q, total'[k])
    BY <1>1, <1>3, <2>1, <2>3 DEF S
  <2> QED
    BY <1>1, <1>8, <2>4 DEF Conserved
<1>10. AllConserved'
  BY <1>9 DEF AllConserved
<1>11. Below'
  BY <1>8 DEF Below, HaveA, HaveB, HeadA, HeadB
<1>12. Handed'
  BY <1>1 DEF Kept, Handed
<1> QED
  BY <1>6, <1>7, <1>10, <1>11, <1>12 DEF Kept

LEMMA StartPairKept == ASSUME Inv, Kept, StartPair PROVE Kept'
<1> DEFINE file == [own |-> TRUE, recs |-> << >>, bytes |-> 0]
<1>1. /\ pc = "merging" /\ ~merge.on /\ sort.i + 1 < sort.runs /\ Out \notin DOMAIN fs
      /\ fs' = With(Out, file) /\ merge' = [on |-> TRUE, a |-> 0, b |-> 0]
      /\ UNCHANGED <<pc, sort>> /\ MergingUnchanged
  BY DEF StartPair, FreeRunName
<1>2. Left \in Runs /\ Right \in Runs /\ Left \in Held /\ Right \in Held
  <2>1. sort.i < sort.runs
    BY <1>1, SortParts
  <2> QED
    BY <1>1, <2>1, MergingNames DEF Runs
<1>3. fs[Left].recs \in Seq(Records) /\ fs[Right].recs \in Seq(Records)
  BY <1>2, OwnFiles
<1>4. fs'[Out].recs = << >> /\ \A n \in DOMAIN fs : n # Out => n \in DOMAIN fs' /\ fs'[n] = fs[n]
  BY <1>1 DEF With
<1>5. merge'.on /\ merge'.a = 0 /\ merge'.b = 0
  BY <1>1
<1>6. 0 <= Len(fs[Left].recs) /\ 0 <= Len(fs[Right].recs)
      /\ 0 \in 0..Len(fs[Left].recs) /\ 0 \in 0..Len(fs[Right].recs)
  BY <1>3
<1>7. ASSUME NEW q \in Quantities, NEW k \in Keys
      PROVE  Of(q, k, fs'[Out].recs) =
                Prefix(q, k, fs[Left].recs, merge'.a) + Prefix(q, k, fs[Right].recs, merge'.b)
  <2>1. Prefix(q, k, fs[Left].recs, 0) = 0 /\ Prefix(q, k, fs[Right].recs, 0) = 0
    BY <1>3, <1>6, PrefixType
  <2>2. Of(q, k, fs'[Out].recs) = 0
    BY <1>4, OfEmpty
  <2> QED
    BY <1>5, <2>1, <2>2
<1>8. 1..Len(fs'[Out].recs) = {}
  BY <1>4
<1>9. Solid(fs'[Out].recs) /\ Ascending(fs'[Out].recs)
  BY <1>8 DEF Solid, Ascending
<1> QED
  BY <1>1, <1>2, <1>4, <1>5, <1>6, <1>7, <1>8, <1>9, WritingKept

\* One more record behind those that are lower.
LEMMA AppendRises ==
    ASSUME NEW s \in Seq(Records), NEW r \in Records, Solid(s), Ascending(s),
           Observed(r.agg) > 0, \A i \in 1..Len(s) : s[i].key < r.key
    PROVE  Solid(Append(s, r)) /\ Ascending(Append(s, r))
<1> DEFINE t == Append(s, r)
           n == Len(s)
<1>1. n \in Nat /\ Len(t) = n + 1 /\ t[n + 1] = r /\ \A i \in 1..n : t[i] = s[i]
  OBVIOUS
<1>2. \A i \in 1..Len(t) : i \in 1..n \/ i = n + 1
  BY <1>1
<1> HIDE DEF t
<1>3. Solid(t)
  BY <1>1, <1>2 DEF Solid
<1>4. ASSUME NEW i \in 1..Len(t), NEW j \in 1..Len(t), i < j
      PROVE  t[i].key < t[j].key
  <2>1. i \in 1..n
    BY <1>1, <1>4
  <2>2. CASE j = n + 1
    BY <1>1, <2>1, <2>2
  <2>3. CASE j \in 1..n
    <3>1. s[i].key < s[j].key
      BY <1>4, <2>1, <2>3 DEF Ascending
    <3> QED
      BY <1>1, <2>1, <2>3, <3>1
  <2> QED
    BY <1>2, <2>2, <2>3
<1>5. Ascending(t)
  BY <1>4 DEF Ascending
<1> QED
  BY <1>3, <1>5 DEF t

\* What is left of a side lies above all that has gone by.
LEMMA HeadRises ==
    ASSUME NEW s \in Seq(Records), Ascending(s), NEW a \in Nat, a + 1 < Len(s)
    PROVE  /\ s[a + 1].key < s[(a + 1) + 1].key
           /\ s[a + 1].key \in Nat /\ s[(a + 1) + 1].key \in Nat
<1>1. a + 1 \in 1..Len(s) /\ (a + 1) + 1 \in 1..Len(s) /\ a + 1 < (a + 1) + 1
  OBVIOUS
<1>2. s[a + 1] \in Records /\ s[(a + 1) + 1] \in Records
  BY <1>1
<1> QED
  BY <1>1, <1>2, RecordParts, Constants DEF Ascending

\* A record moves from one or both sides to the output.
LEMMA MergeRecordKept == ASSUME Inv, Kept, MergeRecord PROVE Kept'
<1> DEFINE L == fs[Left].recs
           R == fs[Right].recs
           O == fs[Out].recs
           a == merge.a
           b == merge.b
           r == Chosen
           x == IF TakeB THEN a ELSE a + 1
           y == IF TakeA THEN b ELSE b + 1
<1>1. /\ merge.on /\ (HaveA \/ HaveB) /\ Chosen.agg # Refused
      /\ fs' = With(Out, Appended(fs[Out], Chosen))
      /\ merge' = [merge EXCEPT !.a = x, !.b = y]
      /\ UNCHANGED <<pc, sort>> /\ MergingUnchanged
  BY DEF MergeRecord
<1>2. /\ pc = "merging" /\ sort.i + 1 < sort.runs
      /\ Left \in Held /\ Right \in Held /\ Out \in Held
      /\ L \in Seq(Records) /\ R \in Seq(Records) /\ O \in Seq(Records)
      /\ fs[Out] \in [own : BOOLEAN, recs : Seq(Records), bytes : Nat]
      /\ a \in Nat /\ b \in Nat
      /\ (HaveA => HeadA \in Records) /\ (HaveB => HeadB \in Records)
      /\ r \in Records
  BY ChosenType
<1>3. Busy
  BY <1>2 DEF Busy
<1>4. /\ Solid(L) /\ Ascending(L) /\ Solid(R) /\ Ascending(R) /\ Solid(O) /\ Ascending(O)
      /\ \A q \in Quantities : \A k \in Keys : Conserved(q, k)
  BY <1>2, <1>3, BusyParts
<1>5. /\ a <= Len(L) /\ b <= Len(R)
      /\ \A i \in 1..Len(O) : /\ HaveA => O[i].key < HeadA.key
                              /\ HaveB => O[i].key < HeadB.key
  BY <1>1 DEF Kept, Below
<1>6. /\ HaveA <=> a < Len(L)
      /\ HaveB <=> b < Len(R)
      /\ HeadA = L[a + 1] /\ HeadB = R[b + 1]
  BY DEF HaveA, HaveB, HeadA, HeadB
<1>7. /\ HaveA => HeadA.key \in Nat /\ HeadA.agg \in States /\ Observed(HeadA.agg) > 0
      /\ HaveB => HeadB.key \in Nat /\ HeadB.agg \in States /\ Observed(HeadB.agg) > 0
  <2>1. HaveA => a + 1 \in 1..Len(L)
    BY <1>2, <1>6
  <2>2. HaveB => b + 1 \in 1..Len(R)
    BY <1>2, <1>6
  <2>3. HaveA => Observed(HeadA.agg) > 0
    BY <1>4, <1>6, <2>1 DEF Solid
  <2>4. HaveB => Observed(HeadB.agg) > 0
    BY <1>4, <1>6, <2>2 DEF Solid
  <2> QED
    BY <1>2, <2>3, <2>4, RecordParts, Constants
<1>8. /\ TakeA <=> HaveA /\ (HaveB => HeadA.key < HeadB.key)
      /\ TakeB <=> HaveB /\ (HaveA => HeadA.key > HeadB.key)
  BY DEF TakeA, TakeB
<1>9. \/ /\ TakeA /\ ~TakeB /\ HaveA /\ r = HeadA /\ x = a + 1 /\ y = b
         /\ HaveB => HeadA.key < HeadB.key
      \/ /\ TakeB /\ ~TakeA /\ HaveB /\ r = HeadB /\ x = a /\ y = b + 1
         /\ HaveA => HeadB.key < HeadA.key
      \/ /\ HaveA /\ HaveB /\ HeadA.key = HeadB.key /\ x = a + 1 /\ y = b + 1
         /\ r = [HeadA EXCEPT !.agg = Merge(HeadA.agg, HeadB.agg)]
  <2>1. ~(TakeA /\ TakeB)
    BY <1>7, <1>8
  <2>2. CASE TakeA
    BY <1>8, <2>1, <2>2 DEF Chosen
  <2>3. CASE TakeB
    <3>1. HaveA => HeadB.key < HeadA.key
      BY <1>7, <1>8, <2>3
    <3> QED
      BY <1>8, <2>1, <2>3, <3>1 DEF Chosen
  <2>4. CASE ~TakeA /\ ~TakeB
    <3>1. HaveA /\ HaveB /\ HeadA.key = HeadB.key
      BY <1>1, <1>7, <1>8, <2>4
    <3> QED
      BY <2>4, <3>1 DEF Chosen
  <2> QED
    BY <2>2, <2>3, <2>4
<1>10. (HaveA /\ HaveB /\ r = [HeadA EXCEPT !.agg = Merge(HeadA.agg, HeadB.agg)]) =>
          r.key = HeadA.key /\ r.agg = Merge(HeadA.agg, HeadB.agg)
  <2> DEFINE h == HeadA
             m == Merge(HeadA.agg, HeadB.agg)
  <2>1. HaveA => h \in Records
    BY <1>2
  <2> HIDE DEF h, m
  <2>2. h \in Records => [h EXCEPT !.agg = m].key = h.key /\ [h EXCEPT !.agg = m].agg = m
    BY DEF Records
  <2> QED
    BY <2>1, <2>2 DEF h, m
<1>11. /\ fs'[Out].recs = Append(O, r)
       /\ \A n \in DOMAIN fs : n # Out => n \in DOMAIN fs' /\ fs'[n] = fs[n]
  <2>1. fs'[Out] = Appended(fs[Out], Chosen) /\ Out \in DOMAIN fs'
        /\ \A n \in DOMAIN fs : n # Out => n \in DOMAIN fs' /\ fs'[n] = fs[n]
    BY <1>1 DEF With
  <2>2. Appended(fs[Out], Chosen).recs = Append(O, r)
    <3> DEFINE f == fs[Out]
               c == Chosen
    <3>1. f \in [own : BOOLEAN, recs : Seq(Records), bytes : Nat]
      BY <1>2
    <3> HIDE DEF f, c
    <3>2. Appended(f, c).recs = Append(f.recs, c)
      BY <3>1 DEF Appended
    <3> QED
      BY <3>2 DEF f, c
  <2> QED
    BY <2>1, <2>2
<1>12. merge'.on /\ merge'.a = x /\ merge'.b = y
  BY <1>1 DEF Inv, TypeOK
<1>13. Left \in Runs /\ Right \in Runs
  <2>1. sort.i < sort.runs
    BY <1>2, SortParts
  <2> QED
    BY <1>2, <2>1, MergingNames DEF Runs
<1>14. \A i \in 1..Len(O) : O[i].key \in Nat
  <2> TAKE i \in 1..Len(O)
  <2>1. O[i] \in Records
    BY <1>2
  <2> QED
    BY <2>1, RecordParts, Constants
<1>15. ASSUME NEW q \in Quantities, NEW k \in Keys
       PROVE  Of(q, k, fs'[Out].recs) = Prefix(q, k, L, merge'.a) + Prefix(q, k, R, merge'.b)
  <2>1. Of(q, k, O) = Prefix(q, k, L, a) + Prefix(q, k, R, b)
    BY <1>1, <1>4 DEF Conserved
  <2>2. Of(q, k, Append(O, r)) = Of(q, k, O) + Share(q, k, r)
    BY <1>2, OfAppend
  <2>3. HaveA => /\ Prefix(q, k, L, a + 1) = Prefix(q, k, L, a) + Share(q, k, HeadA)
                 /\ Share(q, k, HeadA) \in Nat
    <3>1. HaveA => a \in 0..(Len(L) - 1)
      BY <1>2, <1>6
    <3>2. HaveA => Share(q, k, HeadA) \in Nat
      BY <1>2, ShareType
    <3>3. a \in 0..(Len(L) - 1) =>
            Prefix(q, k, L, a + 1) = Prefix(q, k, L, a) + Share(q, k, L[a + 1])
      BY <1>2, PrefixStep
    <3> QED
      BY <1>6, <3>1, <3>2, <3>3
  <2>4. HaveB => /\ Prefix(q, k, R, b + 1) = Prefix(q, k, R, b) + Share(q, k, HeadB)
                 /\ Share(q, k, HeadB) \in Nat
    <3>1. HaveB => b \in 0..(Len(R) - 1)
      BY <1>2, <1>6
    <3>2. HaveB => Share(q, k, HeadB) \in Nat
      BY <1>2, ShareType
    <3>3. b \in 0..(Len(R) - 1) =>
            Prefix(q, k, R, b + 1) = Prefix(q, k, R, b) + Share(q, k, R[b + 1])
      BY <1>2, PrefixStep
    <3> QED
      BY <1>6, <3>1, <3>2, <3>3
  <2>5. Prefix(q, k, L, a) \in Nat /\ Prefix(q, k, R, b) \in Nat
    <3>1. a \in 0..Len(L) /\ b \in 0..Len(R)
      BY <1>2, <1>5
    <3> QED
      BY <1>2, <3>1, PrefixType
  <2>6. (HaveA /\ HaveB /\ HeadA.key = HeadB.key
            /\ r = [HeadA EXCEPT !.agg = Merge(HeadA.agg, HeadB.agg)]) =>
          Share(q, k, r) = Share(q, k, HeadA) + Share(q, k, HeadB)
    <3> SUFFICES ASSUME HaveA, HaveB, HeadA.key = HeadB.key,
                        r = [HeadA EXCEPT !.agg = Merge(HeadA.agg, HeadB.agg)]
                 PROVE  Share(q, k, r) = Share(q, k, HeadA) + Share(q, k, HeadB)
      OBVIOUS
    <3>1. r.key = HeadA.key /\ r.agg = Merge(HeadA.agg, HeadB.agg)
      BY <1>10
    <3>2. Amount(q, r.agg) = Amount(q, HeadA.agg) + Amount(q, HeadB.agg)
      BY <1>1, <1>7, <3>1, AmountMerge
    <3> HIDE DEF r
    <3> QED
      BY <3>1, <3>2 DEF Share
  <2> HIDE DEF L, R, O, a, b, r, x, y
  <2>7. Prefix(q, k, L, x) + Prefix(q, k, R, y) =
          (Prefix(q, k, L, a) + Prefix(q, k, R, b)) + Share(q, k, r)
    <3>1. CASE HaveA /\ r = HeadA /\ x = a + 1 /\ y = b
      BY <2>3, <2>5, <3>1
    <3>2. CASE HaveB /\ r = HeadB /\ x = a /\ y = b + 1
      BY <2>4, <2>5, <3>2
    <3>3. CASE /\ HaveA /\ HaveB /\ HeadA.key = HeadB.key /\ x = a + 1 /\ y = b + 1
               /\ r = [HeadA EXCEPT !.agg = Merge(HeadA.agg, HeadB.agg)]
      BY <2>3, <2>4, <2>5, <2>6, <3>3
    <3> QED
      BY <1>9, <3>1, <3>2, <3>3
  <2> QED
    BY <1>11, <1>12, <2>1, <2>2, <2>7
<1>16. Observed(r.agg) > 0 /\ \A i \in 1..Len(O) : O[i].key < r.key
  <2>1. CASE HaveA /\ r = HeadA
    BY <1>5, <1>7, <2>1
  <2>2. CASE HaveB /\ r = HeadB
    BY <1>5, <1>7, <2>2
  <2>3. CASE /\ HaveA /\ HaveB
             /\ r = [HeadA EXCEPT !.agg = Merge(HeadA.agg, HeadB.agg)]
    <3>1. r.key = HeadA.key /\ r.agg = Merge(HeadA.agg, HeadB.agg)
      BY <1>10, <2>3
    <3>2. Amount("rows", r.agg) = Amount("rows", HeadA.agg) + Amount("rows", HeadB.agg)
      <4>1. "rows" \in Quantities
        BY DEF Quantities
      <4> QED
        BY <1>1, <1>7, <2>3, <3>1, <4>1, AmountMerge
    <3>3. Observed(r.agg) = Observed(HeadA.agg) + Observed(HeadB.agg)
      BY <3>2 DEF Amount
    <3>4. Observed(HeadA.agg) \in Nat /\ Observed(HeadB.agg) \in Nat
      BY <1>7, <2>3, StateParts DEF Observed
    <3>5. Observed(r.agg) > 0
      BY <1>7, <2>3, <3>3, <3>4
    <3> QED
      BY <1>5, <2>3, <3>1, <3>5
  <2> QED
    BY <1>9, <2>1, <2>2, <2>3
<1>17. Solid(Append(O, r)) /\ Ascending(Append(O, r))
  BY <1>2, <1>4, <1>16, AppendRises
<1>18. x <= Len(L) /\ y <= Len(R)
  <2> HIDE DEF L, R, x, y, r
  <2> QED
    BY <1>2, <1>5, <1>6, <1>9
<1>19. ASSUME NEW i \in 1..Len(Append(O, r))
       PROVE  /\ x < Len(L) => Append(O, r)[i].key < L[x + 1].key
              /\ y < Len(R) => Append(O, r)[i].key < R[y + 1].key
  <2> DEFINE k == Append(O, r)[i].key
  <2>1. (i \in 1..Len(O) /\ k = O[i].key) \/ k = r.key
    <3> HIDE DEF O, r
    <3>1. O \in Seq(Records) /\ r \in Records
      BY <1>2
    <3>2. (i \in 1..Len(O) /\ Append(O, r)[i] = O[i]) \/ Append(O, r)[i] = r
      BY <3>1
    <3> QED
      BY <3>2
  <2>2. r.key \in Nat /\ k \in Nat
    BY <1>2, <1>14, <2>1, RecordParts, Constants
  <2>3. k <= r.key
    BY <1>14, <1>16, <2>1, <2>2
  <2>4. /\ (x = a + 1 /\ x < Len(L)) =>
            L[a + 1].key < L[x + 1].key /\ L[a + 1].key \in Nat /\ L[x + 1].key \in Nat
        /\ (y = b + 1 /\ y < Len(R)) =>
            R[b + 1].key < R[y + 1].key /\ R[b + 1].key \in Nat /\ R[y + 1].key \in Nat
    <3> HIDE DEF L, R, x, y, a, b
    <3> QED
      BY <1>2, <1>4, HeadRises
  <2> HIDE DEF k, L, R, O, a, b, r, x, y
  <2>5. CASE /\ HaveA /\ r = HeadA /\ x = a + 1 /\ y = b
             /\ HaveB => HeadA.key < HeadB.key
    <3>1. x < Len(L) => k < L[x + 1].key
      BY <1>6, <2>2, <2>3, <2>4, <2>5
    <3>2. y < Len(R) => k < R[y + 1].key
      BY <1>6, <1>7, <2>2, <2>3, <2>5
    <3> QED
      BY <3>1, <3>2 DEF k
  <2>6. CASE /\ HaveB /\ r = HeadB /\ x = a /\ y = b + 1
             /\ HaveA => HeadB.key < HeadA.key
    <3>1. x < Len(L) => k < L[x + 1].key
      BY <1>6, <1>7, <2>2, <2>3, <2>6
    <3>2. y < Len(R) => k < R[y + 1].key
      BY <1>6, <2>2, <2>3, <2>4, <2>6
    <3> QED
      BY <3>1, <3>2 DEF k
  <2>7. CASE /\ HaveA /\ HaveB /\ HeadA.key = HeadB.key /\ x = a + 1 /\ y = b + 1
             /\ r = [HeadA EXCEPT !.agg = Merge(HeadA.agg, HeadB.agg)]
    <3>0. r.key = HeadA.key
      BY <1>10, <2>7
    <3>1. x < Len(L) => k < L[x + 1].key
      BY <1>6, <2>2, <2>3, <2>4, <2>7, <3>0
    <3>2. y < Len(R) => k < R[y + 1].key
      BY <1>6, <2>2, <2>3, <2>4, <2>7, <3>0
    <3> QED
      BY <3>1, <3>2 DEF k
  <2> QED
    BY <1>9, <2>5, <2>6, <2>7
<1> HIDE DEF r, x, y
<1> QED
  BY <1>1, <1>2, <1>11, <1>12, <1>13, <1>15, <1>17, <1>18, <1>19, WritingKept

\* A step between two pairs, or after the last: the same rows, in other runs.
LEMMA PassKept ==
    ASSUME Inv, Kept, pc = "merging", pc' \in {"merging", "emitting"}, ~merge'.on,
           UNCHANGED <<status, spill, batch, groups, failed, total>>,
           \A n \in Held' : Solid(fs'[n].recs) /\ Ascending(fs'[n].recs),
           \A q \in Quantities, k \in Keys : Files(q, k, fs', Runs') = Files(q, k, fs, Runs),
           Handed'
    PROVE  Kept'
<1>1. Busy
  BY DEF Busy
<1>2. \A q \in Quantities : \A k \in Keys : Files(q, k, fs, Runs) = Tally(q, total[k])
  BY <1>1, BusyParts DEF Conserved
<1>3. Phases'
  BY DEF Kept, Phases
<1>4. Solids'
  BY DEF Kept, Solids
<1>5. AllConserved'
  BY <1>2 DEF AllConserved, Conserved
<1>6. Below'
  BY DEF Below
<1> QED
  BY <1>3, <1>4, <1>5, <1>6 DEF Kept

\* The output of a pair holds what its two inputs held.
LEMMA EndPairKept ==
    ASSUME Inv, Kept, Inv', EndPair
    PROVE  Kept'
<1> DEFINE L == fs[Left].recs
           R == fs[Right].recs
           O == fs[Out].recs
           N == Runs \ {Left, Right}
           o == Out
<1>1. /\ merge.on /\ ~HaveA /\ ~HaveB /\ fs' = Without({Left, Right}) /\ merge' = NoMerge
      /\ UNCHANGED <<pc, status, spill, pos, batch, out, groups, failed, total, rows>>
  BY DEF EndPair, MergingUnchanged, AddingUnchanged
<1>2. pc = "merging" /\ Busy /\ Busy' /\ ~merge'.on /\ sort.i + 1 < sort.runs /\ sort.i < sort.runs
  BY <1>1, SortParts DEF Inv, Shape, Busy, NoMerge
<1>3. /\ Left \in Runs /\ Right \in Runs /\ Left # Right /\ o \in Held
  BY <1>1, <1>2, MergingNames DEF Runs
<1>4. HeldRuns /\ HeldRuns'
  <2>1. (Inv => HeldRuns)'
    BY RunsAreHeld, PTL
  <2> QED
    BY <2>1, RunsAreHeld
<1>5. /\ IsFiniteSet(Runs) /\ o \notin Runs /\ Runs \subseteq DOMAIN fs
      /\ Held = Runs \cup {o} /\ OwnRuns = Held
      /\ \A n \in Held : n \in DOMAIN fs /\ fs[n].recs \in Seq(Records)
      /\ Runs' = OwnRuns' /\ Runs' = Held'
  BY <1>1, <1>2, <1>4 DEF HeldRuns, Writing
<1>6. /\ OwnRuns' = OwnRuns \ {Left, Right}
      /\ DOMAIN fs' = DOMAIN fs \ {Left, Right}
      /\ \A n \in DOMAIN fs' : fs'[n] = fs[n]
  BY <1>1, FilesRemoved
<1>7. /\ Runs' = N \cup {o} /\ o \notin N /\ IsFiniteSet(N) /\ N \cup {o} \subseteq DOMAIN fs'
      /\ N \cup {o} \subseteq Held /\ Runs = (N \cup {Left}) \cup {Right}
      /\ Left \notin N /\ Right \notin N \cup {Left}
  <2>1. N \subseteq Runs
    OBVIOUS
  <2>2. IsFiniteSet(N)
    BY <1>5, <2>1, FS_Subset
  <2>3. o # Left /\ o # Right
    BY <1>3, <1>5
  <2> HIDE DEF o
  <2> QED
    BY <1>3, <1>5, <1>6, <2>2, <2>3
<1>8. \A n \in N \cup {o} : fs'[n] = fs[n] /\ fs'[n].recs \in Seq(Records)
  BY <1>5, <1>6, <1>7
<1>9. /\ \A n \in Held : Solid(fs[n].recs) /\ Ascending(fs[n].recs)
      /\ \A q \in Quantities : \A k \in Keys : Conserved(q, k)
  BY <1>2, BusyParts
<1>10. \A n \in Held' : Solid(fs'[n].recs) /\ Ascending(fs'[n].recs)
  BY <1>5, <1>7, <1>8, <1>9
<1>11. merge.a = Len(L) /\ merge.b = Len(R)
  <2>1. merge.a \in Nat /\ merge.b \in Nat /\ merge.a <= Len(L) /\ merge.b <= Len(R)
    BY <1>1 DEF Inv, TypeOK, Kept, Below
  <2>2. ~(merge.a < Len(L)) /\ ~(merge.b < Len(R))
    BY <1>1 DEF HaveA, HaveB
  <2>3. L \in Seq(Records) /\ R \in Seq(Records)
    BY <1>3, <1>5
  <2>4. Len(L) \in Nat /\ Len(R) \in Nat
    BY <2>3
  <2> HIDE DEF L, R
  <2> QED
    BY <2>1, <2>2, <2>4
<1>12. ASSUME NEW q \in Quantities, NEW k \in Keys
       PROVE  Files(q, k, fs', Runs') = Files(q, k, fs, Runs)
  <2>1. Of(q, k, O) = Of(q, k, L) + Of(q, k, R)
    BY <1>1, <1>9, <1>11 DEF Conserved, Of
  <2> DEFINE l == Left
             t == Right
             A == N \cup {l}
             M == Runs
  <2>2. /\ M \subseteq DOMAIN fs /\ IsFiniteSet(M) /\ \A n \in M : fs[n].recs \in Seq(Records)
        /\ l \in M /\ t \in M
    BY <1>3, <1>5
  <2>3. /\ M = A \cup {t} /\ l \notin N /\ t \notin A /\ IsFiniteSet(N) /\ N \subseteq DOMAIN fs'
        /\ o \notin N /\ N \cup {o} \subseteq DOMAIN fs'
    BY <1>7
  <2>4. /\ \A n \in N : fs'[n].recs = fs[n].recs
        /\ \A n \in N \cup {o} : fs'[n].recs \in Seq(Records)
        /\ fs'[o].recs = O
    BY <1>8
  <2>5. N \subseteq DOMAIN fs /\ N \cup {l} \subseteq M
    BY <2>2, <2>3
  <2> HIDE DEF l, t, N, o, M
  <2>6. IsFiniteSet(A)
    BY <2>3, FS_AddElement
  <2>7. /\ A \cup {t} \subseteq DOMAIN fs /\ N \cup {l} \subseteq DOMAIN fs
        /\ \A n \in A \cup {t} : fs[n].recs \in Seq(Records)
        /\ \A n \in N \cup {l} : fs[n].recs \in Seq(Records)
    BY <2>2, <2>3, <2>5
  <2>8. Files(q, k, fs, N \cup {l}) = Files(q, k, fs, N) + Of(q, k, fs[l].recs)
    BY <2>3, <2>7, FilesAdd
  <2> HIDE DEF A
  <2>9. Files(q, k, fs, A \cup {t}) = Files(q, k, fs, A) + Of(q, k, fs[t].recs)
    BY <2>3, <2>6, <2>7, FilesAdd
  <2>10. Files(q, k, fs', N \cup {o}) = Files(q, k, fs', N) + Of(q, k, fs'[o].recs)
    BY <2>3, <2>4, FilesAdd
  <2>11. Files(q, k, fs', N) = Files(q, k, fs, N)
    BY <2>3, <2>4, <2>5, FilesSame
  <2>12. Files(q, k, fs, N) \in Nat
    <3>1. \A n \in N : fs[n].recs \in Seq(Records)
      BY <2>2, <2>5
    <3> QED
      BY <2>3, <2>5, <3>1, StockType
  <2>13. Of(q, k, fs[l].recs) \in Nat /\ Of(q, k, fs[t].recs) \in Nat
    BY <2>2, OfType
  <2>14. Files(q, k, fs', Runs') = Files(q, k, fs, N) + Of(q, k, O)
    BY <1>7, <2>4, <2>10, <2>11
  <2>15. Files(q, k, fs, M) =
          (Files(q, k, fs, N) + Of(q, k, fs[l].recs)) + Of(q, k, fs[t].recs)
    BY <2>3, <2>8, <2>9 DEF A
  <2>16. Of(q, k, O) = Of(q, k, fs[l].recs) + Of(q, k, fs[t].recs)
    BY <2>1 DEF l, t
  <2>17. Files(q, k, fs', Runs') = Files(q, k, fs, M)
    BY <2>12, <2>13, <2>14, <2>15, <2>16
  <2> QED
    BY <2>17 DEF M
<1>13. Handed'
  BY <1>1, <1>2 DEF Kept, Handed
<1> QED
  BY <1>1, <1>2, <1>10, <1>12, <1>13, PassKept

\* A run that moves keeps its records.
LEMMA MoveOddKept ==
    ASSUME Inv, Kept, Inv', MoveOdd
    PROVE  Kept'
<1> DEFINE N == Runs \ {Left}
           o == Out
           l == Left
<1>1. /\ pc = "merging" /\ ~merge.on /\ sort.i + 1 = sort.runs
      /\ o \notin DOMAIN fs /\ fs' = Renamed(l, o)
      /\ UNCHANGED <<pc, merge, status, spill, pos, batch, out, groups, failed, total, rows>>
  BY DEF MoveOdd, MergingUnchanged, AddingUnchanged, OddRun, FreeRunName
<1>2. Busy /\ Busy' /\ ~merge'.on /\ sort.i < sort.runs
  BY <1>1, SortParts DEF Busy
<1>3. HeldRuns /\ HeldRuns'
  <2>1. (Inv => HeldRuns)'
    BY RunsAreHeld, PTL
  <2> QED
    BY <2>1, RunsAreHeld
<1>4. /\ IsFiniteSet(Runs) /\ Runs \subseteq DOMAIN fs /\ Runs = Held /\ Runs = OwnRuns
      /\ \A n \in Runs : fs[n].recs \in Seq(Records)
      /\ Runs' = OwnRuns' /\ Runs' = Held' /\ l \in Runs
  BY <1>1, <1>2, <1>3, MergingNames DEF HeldRuns, Runs
<1>5. /\ OwnRuns' = (OwnRuns \ {l}) \cup {o}
      /\ fs'[o] = fs[l]
      /\ DOMAIN fs' = (DOMAIN fs \ {l}) \cup {o}
      /\ \A n \in DOMAIN fs : n # l => fs'[n] = fs[n]
  BY <1>1, <1>4, FileRenamed
<1>6. /\ Runs' = N \cup {o} /\ o \notin N /\ l \notin N /\ Runs = N \cup {l}
      /\ N \cup {o} \subseteq DOMAIN fs' /\ N \subseteq DOMAIN fs /\ N \cup {l} \subseteq DOMAIN fs
  <2> HIDE DEF o
  <2> QED
    BY <1>1, <1>4, <1>5
<1>7. IsFiniteSet(N)
  BY <1>4, FS_Subset
<1>8. \A n \in N : fs'[n] = fs[n] /\ fs[n].recs \in Seq(Records)
  BY <1>4, <1>5, <1>6
<1>9. \A n \in Held : Solid(fs[n].recs) /\ Ascending(fs[n].recs)
  BY <1>2, BusyParts
<1>10. \A n \in Held' : Solid(fs'[n].recs) /\ Ascending(fs'[n].recs)
  BY <1>4, <1>5, <1>6, <1>8, <1>9
<1> HIDE DEF N, l, o
<1>11. ASSUME NEW q \in Quantities, NEW k \in Keys
       PROVE  Files(q, k, fs', Runs') = Files(q, k, fs, Runs)
  <2>1. \A n \in N \cup {o} : fs'[n].recs \in Seq(Records)
    BY <1>4, <1>5, <1>8
  <2>2. \A n \in N \cup {l} : fs[n].recs \in Seq(Records)
    BY <1>4, <1>6
  <2>3. Files(q, k, fs', N \cup {o}) = Files(q, k, fs', N) + Of(q, k, fs'[o].recs)
    BY <1>6, <1>7, <2>1, FilesAdd
  <2>4. Files(q, k, fs, N \cup {l}) = Files(q, k, fs, N) + Of(q, k, fs[l].recs)
    BY <1>6, <1>7, <2>2, FilesAdd
  <2>5. Files(q, k, fs', N) = Files(q, k, fs, N)
    <3>1. N \subseteq DOMAIN fs' /\ N \subseteq DOMAIN fs /\ \A n \in N : fs'[n].recs = fs[n].recs
      BY <1>6, <1>8
    <3> QED
      BY <3>1, FilesSame
  <2> QED
    BY <1>5, <1>6, <2>3, <2>4, <2>5
<1>12. Handed'
  BY <1>1, <1>2 DEF Kept, Handed
<1> QED
  BY <1>1, <1>2, <1>10, <1>11, <1>12, PassKept

\* The runs of the next pass become those of this one.
LEMMA EndPassKept ==
    ASSUME Inv, Kept, Inv', EndPass
    PROVE  Kept'
<1>1. /\ pc = "merging" /\ ~merge.on
      /\ UNCHANGED <<pc, fs, merge, status, spill, pos, batch, out, groups, failed, total, rows>>
  BY DEF EndPass, MergingUnchanged, AddingUnchanged
<1>2. Busy /\ Busy' /\ ~merge'.on
  BY <1>1 DEF Busy
<1>3. HeldRuns /\ HeldRuns'
  <2>1. (Inv => HeldRuns)'
    BY RunsAreHeld, PTL
  <2> QED
    BY <2>1, RunsAreHeld
<1>4. OwnRuns' = OwnRuns
  BY <1>1 DEF OwnRuns
<1>5. Runs' = Runs /\ Held' = Held
  BY <1>1, <1>2, <1>3, <1>4 DEF HeldRuns
<1>6. \A n \in Held : Solid(fs[n].recs) /\ Ascending(fs[n].recs)
  BY <1>2, BusyParts
<1>7. Handed'
  BY <1>1, <1>2 DEF Kept, Handed
<1> QED
  BY <1>1, <1>2, <1>5, <1>6, <1>7, PassKept

-----------------------------------------------------------------------------
(* The last run goes out *)

LEMMA StartEmittingKept == ASSUME Inv, Kept, StartEmitting PROVE Kept'
<1>1. /\ pc = "merging" /\ sort.runs = 1 /\ pc' = "emitting" /\ pos' = 0
      /\ UNCHANGED <<status, spill, batch, fs, sort, merge, out, groups, failed, total, rows>>
  BY DEF StartEmitting, AddingUnchanged
<1>2. Held = {Final} /\ ~merge.on /\ Busy /\ Busy'
  BY <1>1, LastRunLeft DEF Busy
<1>3. Runs' = Runs /\ Held' = Held /\ Final' = Final
  BY <1>1, <1>2 DEF Runs, Waiting, Outputs, Writing, Held, RunSet, Final
<1>4. \A n \in Held : Solid(fs[n].recs) /\ Ascending(fs[n].recs)
  BY <1>2, BusyParts
<1>5. fs[Final].recs \in Seq(Records)
  BY <1>2, OwnFiles
<1>6. Handed'
  <2>1. out = << >> /\ 0 <= Len(fs[Final].recs)
    BY <1>1, <1>5 DEF Kept, Handed
  <2> QED
    BY <1>1, <1>3, <2>1 DEF Handed
<1> QED
  BY <1>1, <1>2, <1>3, <1>4, <1>6, PassKept

\* What is given out is the beginning of the last run.
LEMMA EmitGroupKept == ASSUME Inv, Kept, EmitGroup PROVE Kept'
<1> DEFINE F == fs[Final].recs
<1>1. /\ pc = "emitting" /\ pos < Len(F) /\ pos' = pos + 1
      /\ out' = Append(out, F[pos + 1])
      /\ UNCHANGED <<pc, status, spill, batch, fs, sort, merge, groups, failed, total, rows>>
  BY DEF EmitGroup, AddingUnchanged
<1>2. sort.runs = 1 /\ ~merge.on
  BY <1>1 DEF Inv, Shape
<1>3. Runs' = Runs /\ Held' = Held /\ Final' = Final
  BY <1>1 DEF Runs, Waiting, Outputs, Writing, Held, RunSet, Final, Busy, Out
<1>4. F \in Seq(Records) /\ pos \in Nat /\ out \in Seq(Records)
  BY <1>1, <1>2, LastRunLeft, OwnFiles DEF Inv, TypeOK
<1>5. Len(out) = pos /\ \A i \in 1..pos : out[i] = F[i]
  BY <1>1 DEF Kept, Handed
<1>6. Phases'
  BY <1>1 DEF Kept, Phases
<1>7. Solids'
  BY <1>1, <1>3 DEF Kept, Solids
<1>8. AllConserved'
  BY <1>1, <1>2, <1>3 DEF Kept, AllConserved, Conserved
<1>9. Below'
  BY <1>1, <1>2 DEF Below
<1>10. Handed'
  <2> DEFINE r == F[pos + 1]
  <2> HIDE DEF F, r
  <2>1. pos + 1 <= Len(F) /\ pos + 1 \in 1..Len(F)
    BY <1>1, <1>4
  <2>2. r \in Records
    BY <1>4, <2>1 DEF r
  <2>3. Len(Append(out, r)) = pos + 1 /\ Append(out, r)[pos + 1] = r
        /\ \A i \in 1..pos : Append(out, r)[i] = out[i]
    BY <1>4, <1>5, <2>2
  <2>4. \A i \in 1..(pos + 1) : i \in 1..pos \/ i = pos + 1
    BY <1>4
  <2>5. \A i \in 1..(pos + 1) : Append(out, r)[i] = F[i]
    BY <1>5, <2>3, <2>4 DEF r
  <2>6. fs'[Final'].recs = F /\ out' = Append(out, r)
    BY <1>1, <1>3 DEF F, r
  <2> QED
    BY <1>1, <2>1, <2>3, <2>5, <2>6 DEF Handed
<1> QED
  BY <1>6, <1>7, <1>8, <1>9, <1>10 DEF Kept

LEMMA EmitEndKept == ASSUME Inv, Kept, EmitEnd PROVE Kept'
<1>1. /\ pc = "emitting" /\ pc' = "done" /\ status' = "ok"
      /\ UNCHANGED <<spill, batch, merge, groups, failed, total>>
  BY DEF EmitEnd, AddingUnchanged
<1>2. Busy /\ ~merge.on
  BY <1>1 DEF Busy, Inv, Shape
<1> QED
  BY <1>1, <1>2, DoneKept

\* A failure keeps what there is to keep.
LEMMA FailsKept == ASSUME Inv, Kept, ReadFails \/ MergeFails \/ EmitFails PROVE Kept'
<1>1. PICK names : FinalizeFails(names)
  BY DEF ReadFails, MergeFails, EmitFails
<1>2. Busy
  BY DEF ReadFails, MergeFails, EmitFails, Busy
<1> QED
  BY <1>1, <1>2, FinalizeFailsKept

LEMMA InitKept == Init => Kept
<1> SUFFICES ASSUME Init PROVE Kept
  OBVIOUS
<1>1. /\ pc = "adding" /\ status = "none" /\ groups = << >> /\ ~failed /\ spill = NoFile
      /\ pos = 0 /\ batch = << >> /\ merge = NoMerge /\ out = << >>
      /\ total = [k \in Keys |-> Promise!Nothing]
  BY DEF Init
<1>2. Promise!Nothing \in Totals
  BY DEF Promise!Nothing, Totals
<1>3. Phases
  BY <1>1, <1>2 DEF Phases
<1>4. Solid(<< >>)
  BY DEF Solid
<1>5. Solids
  BY <1>1, <1>4 DEF Solids, NoFile, Held, Busy
<1>6. ASSUME NEW q \in Quantities, NEW k \in Keys
      PROVE  Of(q, k, groups) + Of(q, k, spill.recs) = Tally(q, total[k])
  <2>1. Of(q, k, << >>) = 0
    BY OfEmpty
  <2>2. Tally(q, Promise!Nothing) = 0
    BY AmountNew
  <2> QED
    BY <1>1, <2>1, <2>2 DEF NoFile
<1>7. AllConserved
  BY <1>1, <1>6 DEF AllConserved, Conserved, NoMerge
<1>8. Below /\ Handed
  BY <1>1 DEF Below, Handed, NoMerge
<1> QED
  BY <1>3, <1>5, <1>7, <1>8 DEF Kept

LEMMA NextKept == ASSUME Corruption = FALSE, Inv, Kept, [Next]_vars PROVE Kept'
<1>0. Inv'
  BY NextInv
<1>1. CASE Add
  BY <1>0, <1>1, AddFoundKept, AddNewKept, AddFlushKept DEF Add
<1>2. CASE Sort
  BY <1>0, <1>2, FinalizeKept, ReadSourceKept, LastRunKept, NoRunsKept, StartMergingKept DEF Sort
<1>3. CASE MergeRuns
  BY <1>0, <1>3, StartPairKept, MergeRecordKept, EndPairKept, MoveOddKept, EndPassKept DEF MergeRuns
<1>4. CASE EmitRun
  BY <1>4, StartEmittingKept, EmitGroupKept, EmitEndKept DEF EmitRun
<1>5. CASE Refuse
  BY <1>5, FailsKept DEF Refuse
<1>6. CASE Fault
  BY <1>6, FlushFailsKept, CloseSpillFailsKept, FailsKept DEF Fault
<1>7. CASE UNCHANGED vars
  <2>1. UNCHANGED <<pc, status, groups, failed, spill, pos, batch, fs, sort, merge, out, total, rows>>
    BY <1>7 DEF vars
  <2>2. Held' = Held /\ Runs' = Runs /\ Left' = Left /\ Right' = Right /\ Out' = Out /\ Final' = Final
    BY <2>1 DEF Held, Busy, Runs, Waiting, Outputs, Writing, RunSet, Left, Right, Out, Final
  <2>3. Phases' /\ Solids'
    BY <2>1, <2>2 DEF Kept, Phases, Solids
  <2>4. AllConserved'
    BY <2>1, <2>2 DEF Kept, AllConserved, Conserved
  <2>5. Below'
    BY <2>1, <2>2 DEF Kept, Below, HaveA, HaveB, HeadA, HeadB
  <2>6. Handed'
    BY <2>1, <2>2 DEF Kept, Handed
  <2> QED
    BY <2>3, <2>4, <2>5, <2>6 DEF Kept
<1> QED
  BY <1>1, <1>2, <1>3, <1>4, <1>5, <1>6, <1>7 DEF Next, Spent

-----------------------------------------------------------------------------
(* Every step is a step of the promise, or changes nothing it speaks of *)

Seen == <<total, out, Phase>>

\* The promise's actions, told by Phase.
LEMMA PromiseSteps ==
    /\ Promise!Init <=>
        total = [k \in Keys |-> Promise!Nothing] /\ out = << >> /\ Phase = "adding"
    /\ \A k \in Keys : \A o \in Observations[k] :
        (/\ Phase = "adding" /\ Phase' = Phase /\ out' = out
         /\ total' = [total EXCEPT ![k] = Promise!Counted(@, o)]) => Promise!Next
    /\ (Phase = "adding" /\ Phase' = "emitting" /\ UNCHANGED <<total, out>>) => Promise!Next
    /\ (/\ Phase = "emitting" /\ Phase' = "emitting" /\ total' = total
        /\ \E k \in Promise!Pending :
            /\ \A j \in Promise!Pending : k <= j
            /\ Promise!Reportable(total[k])
            /\ out' = Append(out, [key |-> k, agg |-> Promise!Report(total[k])])) => Promise!Next
    /\ (/\ Phase = "emitting" /\ Promise!Pending = {} /\ Phase' = "done"
        /\ UNCHANGED <<total, out>>) => Promise!Next
    /\ (/\ Phase \in {"adding", "emitting"} /\ Phase' = "failed"
        /\ UNCHANGED <<total, out>>) => Promise!Next
<1>1. Promise!Init <=>
        total = [k \in Keys |-> Promise!Nothing] /\ out = << >> /\ Phase = "adding"
  BY DEF Promise!Init, Phase
<1>2. ASSUME NEW k \in Keys, NEW o \in Observations[k], Phase = "adding", Phase' = Phase,
             out' = out, total' = [total EXCEPT ![k] = Promise!Counted(@, o)]
      PROVE  Promise!Next
  <2>1. Promise!Add(k, o)
    BY <1>2 DEF Promise!Add, Phase
  <2> QED
    BY <2>1 DEF Promise!Next
<1>3. ASSUME Phase = "adding", Phase' = "emitting", UNCHANGED <<total, out>>
      PROVE  Promise!Next
  BY <1>3 DEF Promise!Seal, Promise!Next, Phase
<1>4. ASSUME Phase = "emitting", Phase' = "emitting", total' = total,
             \E k \in Promise!Pending :
                /\ \A j \in Promise!Pending : k <= j
                /\ Promise!Reportable(total[k])
                /\ out' = Append(out, [key |-> k, agg |-> Promise!Report(total[k])])
      PROVE  Promise!Next
  <2>1. Promise!Emit
    BY <1>4 DEF Promise!Emit, Phase
  <2> QED
    BY <2>1 DEF Promise!Next
<1>5. ASSUME Phase = "emitting", Promise!Pending = {}, Phase' = "done", UNCHANGED <<total, out>>
      PROVE  Promise!Next
  BY <1>5 DEF Promise!Finish, Promise!Next, Phase
<1>6. ASSUME Phase \in {"adding", "emitting"}, Phase' = "failed", UNCHANGED <<total, out>>
      PROVE  Promise!Next
  BY <1>6 DEF Promise!GiveUp, Promise!Next, Phase
<1> QED
  BY <1>1, <1>2, <1>3, <1>4, <1>5, <1>6

LEMMA InitPromised == Init => Promise!Init
<1> SUFFICES ASSUME Init PROVE Promise!Init
  OBVIOUS
<1>1. total = [k \in Keys |-> Promise!Nothing] /\ out = << >> /\ Phase = "adding"
  BY DEF Init, Phase
<1> QED
  BY <1>1, PromiseSteps

LEMMA AddPromised ==
    ASSUME Kept, NEW k \in Keys, NEW o \in Observations[k],
           AddFound(k, o) \/ AddNew(k, o) \/ AddFlush(k, o)
    PROVE  Promise!Next
<1>1. /\ Usable /\ Accept(k, o) /\ FinalizeUnchanged /\ UNCHANGED failed
  BY DEF AddFound, AddNew, AddFlush
<1>2. Phase = "adding"
  BY <1>1, PhaseOf DEF Kept
<1>3. Phase' = Phase /\ out' = out
  BY <1>1 DEF FinalizeUnchanged, Phase
<1>4. total' = [total EXCEPT ![k] = Promise!Counted(@, o)]
  BY <1>1 DEF Accept
<1> QED
  BY <1>2, <1>3, <1>4, PromiseSteps

\* A handle that is spoiled gives up; so does a finalize that fails.
LEMMA SpoiledPromised ==
    ASSUME Kept, CloseSpillFails \/ \E n \in 0..GroupCapacity : FlushFails(n)
    PROVE  Promise!Next
<1>1. Usable /\ FinalizeUnchanged /\ failed' /\ total' = total
  BY DEF CloseSpillFails, FlushFails
<1>2. Phase = "adding"
  BY <1>1, PhaseOf DEF Kept
<1>3. status' = "none" /\ out' = out
  BY <1>1 DEF FinalizeUnchanged, Kept, Phases, Usable
<1>4. Phase' = "failed"
  BY <1>1, <1>3 DEF Phase
<1> QED
  BY <1>1, <1>2, <1>3, <1>4, PromiseSteps

LEMMA FailsPromised ==
    ASSUME Kept, ReadFails \/ MergeFails \/ EmitFails
    PROVE  Promise!Next
<1>1. PICK names : FinalizeFails(names)
  BY DEF ReadFails, MergeFails, EmitFails
<1>2. Busy
  BY DEF ReadFails, MergeFails, EmitFails, Busy
<1>3. Phase = "emitting"
  BY <1>2, PhaseOf DEF Kept
<1>4. Phase' = "failed" /\ total' = total /\ out' = out
  BY <1>1 DEF FinalizeFails, AddingUnchanged, Phase
<1> QED
  BY <1>3, <1>4, PromiseSteps

LEMMA FinalizePromised == ASSUME Kept, Finalize PROVE Promise!Next
<1>1. Usable /\ pc' = "reading" /\ UNCHANGED <<status, failed, out, total>>
  BY DEF Finalize
<1>2. Phase = "adding"
  BY <1>1, PhaseOf DEF Kept
<1>3. ~failed' /\ status' = "none"
  BY <1>1 DEF Kept, Phases, Usable
<1>4. Phase' = "emitting"
  BY <1>1, <1>3 DEF Phase
<1> QED
  BY <1>1, <1>2, <1>4, PromiseSteps

\* Nothing was spilled, because nothing was added.
LEMMA NoRunsPromised == ASSUME Inv, Kept, NoRuns PROVE Promise!Next
<1>1. /\ pc = "reading" /\ pos = Len(spill.recs) /\ batch = << >> /\ sort.runs = 0
      /\ pc' = "done" /\ status' = "ok" /\ UNCHANGED <<failed, out, total>>
  BY DEF NoRuns, AddingUnchanged
<1>2. Busy
  BY <1>1 DEF Busy
<1>3. Phase = "emitting" /\ ~failed
  BY <1>2, PhaseOf DEF Kept
<1>4. Phase' = "done"
  BY <1>1, <1>3 DEF Phase
<1>5. Runs = {}
  BY <1>1, FirstRuns, RunSets DEF Runs
<1>6. ASSUME NEW k \in Keys PROVE total[k] = Promise!Nothing
  <2>1. "rows" \in Quantities
    BY DEF Quantities
  <2>2. Files("rows", k, fs, Runs) = Tally("rows", total[k])
    BY <1>1, <2>1, AllRead
  <2>3. Tally("rows", total[k]) = 0
    BY <1>5, <2>1, <2>2, FilesNone
  <2>4. total[k] \in Totals
    BY DEF Kept, Phases
  <2> QED
    BY <2>3, <2>4, TotalParts
<1>7. Promise!Pending = {}
  BY <1>6 DEF Promise!Pending
<1> QED
  BY <1>1, <1>3, <1>4, <1>7, PromiseSteps

\* The last run holds, in key order, one record for each key that has rows.
LEMMA LastRunExact ==
    ASSUME Inv, Kept, pc = "emitting"
    PROVE  LET F == fs[Final].recs IN
           /\ F \in Seq(Records) /\ Solid(F) /\ Ascending(F)
           /\ \A q \in Quantities, k \in Keys : Of(q, k, F) = Tally(q, total[k])
           /\ \A k \in Keys : total[k] # Promise!Nothing <=> k \in KeysOf(F)
           /\ pos \in Nat /\ pos <= Len(F) /\ Len(out) = pos /\ \A i \in 1..pos : out[i] = F[i]
<1> DEFINE F == fs[Final].recs
<1>1. Busy /\ sort.runs = 1
  BY DEF Busy, Inv, Shape
<1>2. Held = {Final} /\ ~merge.on
  BY <1>1, LastRunLeft
<1>3. Runs = {Final}
  BY <1>1, <1>2, RunsAreHeld DEF HeldRuns
<1>4. Final \in DOMAIN fs /\ F \in Seq(Records)
  BY <1>2, OwnFiles
<1>5. Solid(F) /\ Ascending(F) /\ total \in [Keys -> Totals]
  BY <1>1, <1>2, BusyParts
<1>6. ASSUME NEW q \in Quantities, NEW k \in Keys PROVE Of(q, k, F) = Tally(q, total[k])
  <2>1. Files(q, k, fs, Runs) = Tally(q, total[k])
    BY <1>1, BusyParts DEF Conserved
  <2>2. Files(q, k, fs, {Final}) = Of(q, k, F)
    BY <1>4, FilesOne
  <2> QED
    BY <1>3, <2>1, <2>2
<1>7. ASSUME NEW k \in Keys PROVE total[k] # Promise!Nothing <=> k \in KeysOf(F)
  <2>1. /\ (Of("rows", k, F) > 0) <=> k \in KeysOf(F)
        /\ "rows" \in Quantities
    BY <1>4, <1>5, RowsOf
  <2>2. Of("rows", k, F) = Tally("rows", total[k])
    BY <1>6, <2>1
  <2>3. total[k] = Promise!Nothing \/ Tally("rows", total[k]) > 0
    BY <1>5, TotalParts
  <2>4. Tally("rows", Promise!Nothing) = 0
    BY <2>1, AmountNew
  <2> QED
    BY <2>1, <2>2, <2>3, <2>4
<1>8. pos \in Nat /\ pos <= Len(F) /\ Len(out) = pos /\ \A i \in 1..pos : out[i] = F[i]
  BY DEF Inv, TypeOK, Kept, Handed
<1> QED
  BY <1>4, <1>5, <1>6, <1>7, <1>8

\* What is still pending is what the run holds behind the position.
LEMMA PendingRest ==
    ASSUME Inv, Kept, pc = "emitting"
    PROVE  /\ \A k \in Promise!Pending :
                \E i \in 1..Len(fs[Final].recs) : pos < i /\ fs[Final].recs[i].key = k
           /\ \A i \in 1..Len(fs[Final].recs) :
                pos < i => fs[Final].recs[i].key \in Promise!Pending
<1> DEFINE F == fs[Final].recs
<1>1. /\ F \in Seq(Records) /\ Ascending(F)
      /\ \A k \in Keys : total[k] # Promise!Nothing <=> k \in KeysOf(F)
      /\ pos \in Nat /\ pos <= Len(F) /\ Len(out) = pos /\ \A i \in 1..pos : out[i] = F[i]
  BY LastRunExact
<1> HIDE DEF F
<1>2. \A i \in 1..Len(F) : F[i].key \in Keys /\ F[i].key \in KeysOf(F)
  <2>1. \A i \in 1..Len(F) : F[i] \in Records
    BY <1>1
  <2> QED
    BY <2>1 DEF Records, KeysOf
<1>3. ASSUME NEW k \in Promise!Pending
      PROVE  \E i \in 1..Len(F) : pos < i /\ F[i].key = k
  <2>1. /\ k \in Keys /\ total[k] # Promise!Nothing
        /\ \A i \in 1..Len(out) : out[i].key < k
    BY DEF Promise!Pending
  <2>2. PICK i \in 1..Len(F) : F[i].key = k
    BY <1>1, <2>1 DEF KeysOf
  <2>3. ASSUME i <= pos PROVE FALSE
    <3>1. i \in 1..pos /\ i \in 1..Len(out)
      BY <1>1, <2>3
    <3>2. k < k
      BY <1>1, <2>1, <2>2, <3>1
    <3>3. k \in Nat
      BY <2>1, Constants
    <3> QED
      BY <3>2, <3>3
  <2>4. pos < i
    BY <1>1, <2>3
  <2> QED
    BY <2>2, <2>4
<1>4. ASSUME NEW i \in 1..Len(F), pos < i
      PROVE  F[i].key \in Promise!Pending
  <2>1. ASSUME NEW j \in 1..Len(out) PROVE out[j].key < F[i].key
    <3>1. j \in 1..pos /\ j \in 1..Len(F) /\ j < i
      BY <1>1, <1>4
    <3>2. F[j].key < F[i].key
      BY <1>1, <3>1 DEF Ascending
    <3> QED
      BY <1>1, <3>1, <3>2
  <2>2. F[i].key \in Keys /\ total[F[i].key] # Promise!Nothing
    BY <1>1, <1>2
  <2> QED
    BY <2>1, <2>2 DEF Promise!Pending
<1> QED
  BY <1>3, <1>4 DEF F

\* The visitor is given the least pending key, with all its rows.
LEMMA EmitGroupPromised == ASSUME Inv, Kept, EmitGroup PROVE Promise!Next
<1> DEFINE F == fs[Final].recs
           r == F[pos + 1]
<1>1. /\ pc = "emitting" /\ pos < Len(F) /\ out' = Append(out, r)
      /\ UNCHANGED <<pc, status, failed, total>>
  BY DEF EmitGroup, AddingUnchanged
<1>2. Phase = "emitting" /\ Phase' = "emitting"
  <2>1. Phase = "emitting"
    BY <1>1, PhaseOf DEF Kept, Busy
  <2> QED
    BY <1>1, <2>1 DEF Phase
<1>3. /\ F \in Seq(Records) /\ Ascending(F) /\ pos \in Nat
      /\ \A q \in Quantities, k \in Keys : Of(q, k, F) = Tally(q, total[k])
  BY <1>1, LastRunExact
<1>4. /\ \A k \in Promise!Pending : \E i \in 1..Len(F) : pos < i /\ F[i].key = k
      /\ \A i \in 1..Len(F) : pos < i => F[i].key \in Promise!Pending
  BY <1>1, PendingRest
<1> HIDE DEF F
<1>5. pos + 1 \in 1..Len(F)
  BY <1>1, <1>3
<1>6. r \in Records
  BY <1>3, <1>5
<1>7. r.key \in Promise!Pending
  BY <1>3, <1>4, <1>5
<1>8. ASSUME NEW j \in Promise!Pending PROVE r.key <= j
  <2>1. PICK i \in 1..Len(F) : pos < i /\ F[i].key = j
    BY <1>4
  <2>2. i = pos + 1 \/ pos + 1 < i
    BY <1>3, <2>1
  <2>3. pos + 1 < i => r.key < F[i].key
    BY <1>3, <1>5 DEF Ascending
  <2>4. r.key \in Nat /\ j \in Nat
    BY <1>6, Constants DEF Records, Promise!Pending
  <2> QED
    BY <2>1, <2>2, <2>3, <2>4
<1>9. Promise!Reportable(total[r.key]) /\ r.agg = Promise!Report(total[r.key])
  <2>1. r.key \in Keys /\ r.agg \in States
    BY <1>6 DEF Records
  <2>2. total[r.key] \in Totals
    BY <2>1 DEF Kept, Phases
  <2>3. ASSUME NEW q \in Quantities PROVE Amount(q, r.agg) = Tally(q, total[r.key])
    <3>1. Of(q, r.key, F) = Amount(q, r.agg)
      BY <1>3, <1>5, OfAscending
    <3> QED
      BY <1>3, <2>1, <3>1
  <2> QED
    BY <2>1, <2>2, <2>3, ReportOf
<1>10. out' = Append(out, [key |-> r.key, agg |-> Promise!Report(total[r.key])])
  <2>1. r = [key |-> r.key, agg |-> r.agg]
    BY <1>6 DEF Records
  <2> QED
    BY <1>1, <1>9, <2>1
<1> HIDE DEF r
<1>11. \E k \in Promise!Pending :
        /\ \A j \in Promise!Pending : k <= j
        /\ Promise!Reportable(total[k])
        /\ out' = Append(out, [key |-> k, agg |-> Promise!Report(total[k])])
  BY <1>7, <1>8, <1>9, <1>10
<1> QED
  BY <1>1, <1>2, <1>11, PromiseSteps

LEMMA EmitEndPromised == ASSUME Inv, Kept, EmitEnd PROVE Promise!Next
<1>1. /\ pc = "emitting" /\ pos = Len(fs[Final].recs) /\ pc' = "done" /\ status' = "ok"
      /\ UNCHANGED <<failed, out, total>>
  BY DEF EmitEnd, AddingUnchanged
<1>2. Phase = "emitting" /\ ~failed
  BY <1>1, PhaseOf DEF Kept, Busy
<1>3. Phase' = "done"
  BY <1>1, <1>2 DEF Phase
<1>4. fs[Final].recs \in Seq(Records)
  BY <1>1, LastRunExact
<1>5. Promise!Pending = {}
  BY <1>1, <1>4, PendingRest
<1> QED
  BY <1>1, <1>2, <1>3, <1>5, PromiseSteps

\* What finalize does on disk is not spoken of.
LEMMA InnerUnseen ==
    ASSUME Inv, Kept, ReadSource \/ LastRun \/ StartMerging \/ MergeRuns \/ StartEmitting
    PROVE  UNCHANGED Seen
<1>1. UNCHANGED <<status, failed, out, total>>
  BY DEF ReadSource, LastRun, StartMerging, MergeRuns, StartEmitting, StartPair, MergeRecord,
         EndPair, MoveOdd, EndPass, MergingUnchanged, AddingUnchanged
<1>2. merge.on => pc = "merging"
  BY DEF Inv, Shape
<1>3. Busy /\ pc' \in {"reading", "merging", "emitting"}
  BY <1>2 DEF ReadSource, LastRun, StartMerging, MergeRuns, StartEmitting, StartPair, MergeRecord,
         EndPair, MoveOdd, EndPass, Busy
<1>4. Phase = "emitting" /\ ~failed /\ status = "none"
  BY <1>3, PhaseOf DEF Kept
<1>5. Phase' = "emitting"
  BY <1>1, <1>3, <1>4 DEF Phase
<1> QED
  BY <1>1, <1>4, <1>5 DEF Seen

LEMMA NextPromised == ASSUME Inv, Kept, [Next]_vars PROVE Promise!Next \/ UNCHANGED Seen
<1>1. CASE Add
  BY <1>1, AddPromised DEF Add
<1>2. CASE Sort
  BY <1>2, FinalizePromised, InnerUnseen, NoRunsPromised DEF Sort
<1>3. CASE MergeRuns
  BY <1>3, InnerUnseen
<1>4. CASE EmitRun
  BY <1>4, InnerUnseen, EmitGroupPromised, EmitEndPromised DEF EmitRun
<1>5. CASE Refuse
  BY <1>5, FailsPromised DEF Refuse
<1>6. CASE Fault
  BY <1>6, SpoiledPromised, FailsPromised DEF Fault
<1>7. CASE UNCHANGED vars
  BY <1>7 DEF vars, Seen, Phase
<1> QED
  BY <1>1, <1>2, <1>3, <1>4, <1>5, <1>6, <1>7 DEF Next, Spent

-----------------------------------------------------------------------------
(* The refinement *)

\* When the closed spill reads back as it was written, the reducer is an implementation
\* of GroupBy: every call of add, every record moved between batches, runs and passes
\* and every callback is a step of the promise or invisible to it.  In particular each
\* group reaches the visitor once, in key order and with exactly its rows, and finalize
\* returns OK only when none is missing.
THEOREM KeepsThePromise == ASSUME Corruption = FALSE PROVE Spec => KeepsPromise
<1>1. Init => Inv /\ Kept /\ Promise!Init
  BY InitInv, InitKept, InitPromised
<1>2. Inv /\ Kept /\ [Next]_vars => Inv' /\ Kept'
  BY NextInv, NextKept
<1>3. Inv /\ Kept /\ [Next]_vars => [Promise!Next]_Seen
  BY NextPromised
<1>4. Promise!Spec <=> Promise!Init /\ [][Promise!Next]_Seen
  BY DEF Promise!Spec, Seen, Phase
<1> QED
  BY <1>1, <1>2, <1>3, <1>4, PTL DEF Spec, KeepsPromise

-----------------------------------------------------------------------------
(* What the promise is worth *)

\* A key with rows is still to come, or has been given out with all of them.
GivenOut(k) == \E i \in 1..Len(out) : out[i] = [key |-> k, agg |-> Promise!Report(total[k])]

Delivered ==
    /\ Phase = "adding" => out = << >>
    /\ Phase = "done" => Promise!Pending = {}
    /\ \A k \in Keys : total[k] # Promise!Nothing => k \in Promise!Pending \/ GivenOut(k)

\* The promise's steps, told by Phase.
LEMMA StepsOfPromise ==
    ASSUME Promise!Next
    PROVE  \/ /\ Phase = "adding" /\ Phase' = Phase /\ out' = out
              /\ \E k \in Keys : \E o \in Observations[k] :
                    total' = [total EXCEPT ![k] = Promise!Counted(@, o)]
           \/ Phase = "adding" /\ Phase' = "emitting" /\ UNCHANGED <<total, out>>
           \/ /\ Phase = "emitting" /\ Phase' = "emitting" /\ total' = total
              /\ \E k \in Promise!Pending :
                    /\ \A j \in Promise!Pending : k <= j
                    /\ out' = Append(out, [key |-> k, agg |-> Promise!Report(total[k])])
           \/ Promise!Pending = {} /\ Phase' = "done" /\ UNCHANGED <<total, out>>
           \/ Phase' = "failed" /\ UNCHANGED <<total, out>>
<1>1. CASE \E k \in Keys : \E o \in Observations[k] : Promise!Add(k, o)
  BY <1>1 DEF Promise!Add, Phase
<1>2. CASE Promise!Seal
  BY <1>2 DEF Promise!Seal, Phase
<1>3. CASE Promise!Emit
  BY <1>3 DEF Promise!Emit, Phase
<1>4. CASE Promise!Finish
  BY <1>4 DEF Promise!Finish, Phase
<1>5. CASE Promise!GiveUp
  BY <1>5 DEF Promise!GiveUp, Phase
<1> QED
  BY <1>1, <1>2, <1>3, <1>4, <1>5 DEF Promise!Next

LEMMA DeliveredKept ==
    ASSUME Delivered, out \in Seq(Records), [Promise!Next]_Seen
    PROVE  Delivered'
<1>1. CASE UNCHANGED Seen
  BY <1>1 DEF Delivered, Seen, GivenOut, Promise!Pending
<1>2. ASSUME Phase = "adding", Phase' = Phase, out' = out PROVE Delivered'
  <2>1. Len(out') = 0 /\ out' = << >>
    BY <1>2 DEF Delivered
  <2>2. \A k \in Keys : total'[k] # Promise!Nothing => k \in Promise!Pending'
    BY <2>1 DEF Promise!Pending
  <2> QED
    BY <1>2, <2>1, <2>2 DEF Delivered
<1>3. ASSUME UNCHANGED <<total, out>>, Phase' # "adding",
             Phase' = "done" => Promise!Pending = {}
      PROVE  Delivered'
  BY <1>3 DEF Delivered, GivenOut, Promise!Pending
<1>4. ASSUME Phase' = "emitting", total' = total, NEW e \in Promise!Pending,
             \A j \in Promise!Pending : e <= j,
             out' = Append(out, [key |-> e, agg |-> Promise!Report(total[e])])
      PROVE  Delivered'
  <2> DEFINE r == [key |-> e, agg |-> Promise!Report(total[e])]
             n == Len(out)
  <2>1. /\ n \in Nat /\ Len(out') = n + 1 /\ out'[n + 1] = r
        /\ \A i \in 1..n : out'[i] = out[i]
    BY <1>4
  <2>2. \A i \in 1..(n + 1) : i \in 1..n \/ i = n + 1
    BY <2>1
  <2>3. n + 1 \in 1..(n + 1) /\ \A i \in 1..n : i \in 1..(n + 1)
    BY <2>1
  <2>4. ASSUME NEW k \in Keys, total'[k] # Promise!Nothing
        PROVE  k \in Promise!Pending' \/ GivenOut(k)'
    <3>1. CASE k \in Promise!Pending /\ k # e
      <4>1. e \in Nat /\ k \in Nat /\ e <= k
        BY <1>4, <3>1, Constants DEF Promise!Pending
      <4>2. r.key < k
        BY <3>1, <4>1
      <4>3. \A i \in 1..n : out[i].key < k
        BY <3>1 DEF Promise!Pending
      <4>4. \A i \in 1..Len(out') : out'[i].key < k
        BY <2>1, <2>2, <4>2, <4>3
      <4> QED
        BY <2>4, <4>4 DEF Promise!Pending
    <3>2. CASE k = e
      BY <1>4, <2>1, <2>3, <3>2 DEF GivenOut
    <3>3. CASE GivenOut(k)
      BY <1>4, <2>1, <2>3, <3>3 DEF GivenOut
    <3> QED
      BY <1>4, <2>4, <3>1, <3>2, <3>3 DEF Delivered
  <2> QED
    BY <1>4, <2>4 DEF Delivered
<1> QED
  BY <1>1, <1>2, <1>3, <1>4, StepsOfPromise

\* A corollary of the refinement: when the spill reads back as it was written, an OK
\* of finalize means that every key that was added was given out with all its rows.
\* Without the assumption this is false, as the run on a damaged spill shows.
THEOREM OkIsComplete == ASSUME Corruption = FALSE PROVE Spec => []OkMeansComplete
<1>1. Init => Delivered
  <2> SUFFICES ASSUME Init PROVE Delivered
    OBVIOUS
  <2>1. total = [k \in Keys |-> Promise!Nothing] /\ out = << >> /\ Phase = "adding"
    BY InitPromised, PromiseSteps
  <2> QED
    BY <2>1 DEF Delivered
<1>2. Inv /\ Kept /\ Delivered /\ [Next]_vars => Inv' /\ Kept' /\ Delivered'
  <2> SUFFICES ASSUME Inv, Kept, Delivered, [Next]_vars PROVE Inv' /\ Kept' /\ Delivered'
    OBVIOUS
  <2>1. [Promise!Next]_Seen
    BY NextPromised
  <2>2. out \in Seq(Records)
    BY DEF Inv, TypeOK
  <2> QED
    BY <2>1, <2>2, NextInv, NextKept, DeliveredKept
<1>3. Kept /\ Delivered => OkMeansComplete
  <2> SUFFICES ASSUME Kept, Delivered, status = "ok" PROVE OkMeansComplete
    BY DEF OkMeansComplete
  <2>1. ~failed
    BY DEF Kept, Phases
  <2>2. Phase = "done"
    BY <2>1 DEF Phase, Kept, Phases
  <2> QED
    BY <2>2 DEF Delivered, GivenOut, OkMeansComplete
<1>4. Init => Inv /\ Kept
  BY InitInv, InitKept
<1> QED
  BY <1>1, <1>2, <1>3, <1>4, PTL DEF Spec

=============================================================================
