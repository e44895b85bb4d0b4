--------------------------- MODULE MetricsProofs ---------------------------
(***************************************************************************)
(* Proofs about Metrics, for every number of writers and whatever they are *)
(* given to write.                                                         *)
(***************************************************************************)
EXTENDS Metrics, SequenceTheorems, FiniteSetTheorems, RecencyOrderProofs, TLAPS

---------------------------------------------------------------------------
(***************************************************************************)
(* The statistics of a list of times.                                      *)
(***************************************************************************)
\* A list has as many places as its length.
LEMMA PlacesOfList ==
  ASSUME NEW n \in Nat
  PROVE  IsFiniteSet(1..n) /\ Cardinality(1..n) = n
<1>1. 1 \in Int /\ n \in Int
  OBVIOUS
<1>2. IsFiniteSet(1..n) /\ Cardinality(1..n) = IF 1 > n THEN 0 ELSE n - 1 + 1
  BY <1>1, FS_Interval, Zenon
<1>3. (IF 1 > n THEN 0 ELSE n - 1 + 1) = n
  OBVIOUS
<1> QED BY <1>2, <1>3

\* A set of places in a list is finite, and a part of it has fewer.
LEMMA PlacesCount ==
  ASSUME NEW n \in Nat, NEW S \in SUBSET (1..n), NEW T \in SUBSET S
  PROVE  /\ IsFiniteSet(S) /\ Cardinality(S) \in Nat /\ Cardinality(S) <= n
         /\ Cardinality(T) \in Nat /\ Cardinality(T) <= Cardinality(S)
         /\ T # S => Cardinality(T) < Cardinality(S)
<1>1. IsFiniteSet(1..n) /\ Cardinality(1..n) = n
  BY PlacesOfList
<1>2. IsFiniteSet(S) /\ Cardinality(S) <= n
  BY <1>1, FS_Subset
<1>3. IsFiniteSet(T) /\ Cardinality(T) <= Cardinality(S) /\ (Cardinality(S) = Cardinality(T) => S = T)
  BY <1>2, FS_Subset
<1>4. Cardinality(S) \in Nat /\ Cardinality(T) \in Nat
  BY <1>2, <1>3, FS_CardinalityType
<1> QED BY <1>2, <1>3, <1>4

\* The two parts of the places of a list, by a test, make up its length.
LEMMA PlacesSplit ==
  ASSUME NEW n \in Nat, NEW S \in SUBSET (1..n)
  PROVE  Cardinality((1..n) \ S) = n - Cardinality(S)
<1>1. IsFiniteSet(1..n) /\ Cardinality(1..n) = n
  BY PlacesOfList
<1>2. (1..n) \cap S = S
  OBVIOUS
<1>3. Cardinality((1..n) \ S) = Cardinality(1..n) - Cardinality((1..n) \cap S)
  BY <1>1, FS_Difference, Zenon
<1> QED BY <1>1, <1>2, <1>3, Zenon

\* In a stable sort every place has a rank of its own, so each rank is some
\* place's.
LEMMA RankIsOnto ==
  ASSUME NEW values \in Seq(Int), NEW r \in 1..Len(values)
  PROVE  \E i \in 1..Len(values) : Rank(values, i) = r
<1> DEFINE n == Len(values)
           Upto(i) == {j \in 1..n : values[j] < values[i] \/ (values[j] = values[i] /\ j <= i)}
           rank == [i \in 1..n |-> Cardinality(Upto(i))]
<1>1. n \in Nat /\ \A i \in 1..n : values[i] \in Int
  OBVIOUS
<1>2. \A i \in 1..n : Rank(values, i) = rank[i]
  BY DEF Rank
<1>3. ASSUME NEW i \in 1..n, NEW j \in 1..n, i # j,
             values[i] < values[j] \/ (values[i] = values[j] /\ i <= j)
      PROVE  Cardinality(Upto(i)) < Cardinality(Upto(j))
  <2>1. j \in Upto(j) /\ j \notin Upto(i)
    BY <1>1, <1>3
  <2>2. Upto(i) \subseteq Upto(j)
    BY <1>1, <1>3
  <2>3. Upto(j) \subseteq 1..n
    OBVIOUS
  <2> HIDE DEF Upto, n
  <2> QED BY <1>1, <2>1, <2>2, <2>3, PlacesCount
<1>4. ASSUME NEW i \in 1..n PROVE rank[i] \in 1..n
  <2>1. i \in Upto(i) /\ {i} \subseteq Upto(i)
    BY <1>1
  <2>2. Upto(i) \subseteq 1..n
    OBVIOUS
  <2>3. Cardinality({i}) = 1
    BY FS_Singleton
  <2>4. Cardinality(Upto(i)) \in Nat /\ Cardinality(Upto(i)) <= n /\ 1 <= Cardinality(Upto(i))
    <3> HIDE DEF Upto, n
    <3> QED BY <1>1, <2>1, <2>2, <2>3, PlacesCount
  <2> HIDE DEF Upto
  <2> QED BY <1>1, <2>4
<1>5. rank \in Injection(1..n, 1..n)
  <2>1. ASSUME NEW i \in 1..n, NEW j \in 1..n, rank[i] = rank[j] PROVE i = j
    <3> SUFFICES ASSUME i # j PROVE FALSE
      OBVIOUS
    <3>1. \/ values[i] < values[j] \/ (values[i] = values[j] /\ i <= j)
          \/ values[j] < values[i] \/ (values[j] = values[i] /\ j <= i)
      BY <1>1
    <3>2. Cardinality(Upto(i)) < Cardinality(Upto(j)) \/ Cardinality(Upto(j)) < Cardinality(Upto(i))
      <4> HIDE DEF Upto, n
      <4> QED BY <1>3, <3>1
    <3>3. Cardinality(Upto(i)) = Cardinality(Upto(j)) /\ Cardinality(Upto(i)) \in 1..n
      <4> HIDE DEF Upto, n
      <4> QED BY <1>4, <2>1
    <3> HIDE DEF Upto
    <3> QED BY <1>1, <3>2, <3>3
  <2>2. rank \in [1..n -> 1..n]
    <3> HIDE DEF Upto, n
    <3> QED BY <1>4
  <2> HIDE DEF rank, n
  <2> QED BY <2>1, <2>2 DEF Injection, IsInjective
<1>6. rank \in Surjection(1..n, 1..n)
  <2>1. IsFiniteSet(1..n)
    BY <1>1, PlacesOfList
  <2> HIDE DEF rank, n
  <2> QED BY <1>5, <2>1, FS_Injection
<1>7. \E i \in 1..n : rank[i] = r
  <2> HIDE DEF rank
  <2> QED BY <1>6 DEF Surjection
<1> HIDE DEF rank
<1> QED BY <1>2, <1>7

\* The value of a rank: at least so many of the values are no greater, and
\* fewer are less.
LEMMA OrderedCounts ==
  ASSUME NEW values \in Seq(Int), NEW r \in 1..Len(values)
  PROVE  /\ Ordered(values)[r] \in Int /\ Ordered(values)[r] \in Range(values)
         /\ Cardinality({j \in 1..Len(values) : values[j] <= Ordered(values)[r]}) >= r
         /\ Cardinality({j \in 1..Len(values) : values[j] < Ordered(values)[r]}) < r
<1> DEFINE n == Len(values)
           i == CHOOSE k \in 1..n : Rank(values, k) = r
           v == values[i]
           upto == {j \in 1..n : values[j] < v \/ (values[j] = v /\ j <= i)}
           least == {j \in 1..n : values[j] <= v}
           less == {j \in 1..n : values[j] < v}
<1>1. n \in Nat /\ (\A j \in 1..n : values[j] \in Int) /\ DOMAIN values = 1..n /\ r \in 1..n
  OBVIOUS
<1>2. i \in 1..n /\ Rank(values, i) = r
  BY RankIsOnto
<1>3. Ordered(values)[r] = v
  BY DEF Ordered
<1>4. Cardinality(upto) = r
  BY <1>2 DEF Rank
<1> HIDE DEF i, n
<1>5. v \in Int /\ v \in Range(values)
  BY <1>1, <1>2 DEF Range
<1>6. upto \subseteq least /\ least \subseteq 1..n
  BY <1>1, <1>5
<1>7. less \subseteq upto /\ i \in upto /\ i \notin less /\ upto \subseteq 1..n
  BY <1>1, <1>2, <1>5
<1>8. Cardinality(least) >= r /\ Cardinality(less) < r
  <2> HIDE DEF upto, least, less, v
  <2>1. Cardinality(upto) <= Cardinality(least) /\ Cardinality(least) \in Nat
    BY <1>1, <1>6, PlacesCount
  <2>2. Cardinality(less) < Cardinality(upto)
    BY <1>1, <1>7, PlacesCount
  <2> QED BY <1>1, <1>4, <2>1, <2>2
<1> QED BY <1>3, <1>5, <1>8 DEF n

\* math.ceil(fraction * len) names a rank: the list is not empty and the
\* fraction is no more than one.
LEMMA CeilingIsRank ==
  ASSUME NEW n \in Nat \ {0}
  PROVE  LET r == (19 * n + 20 - 1) \div 20
         IN  r \in 1..n /\ 20 * r >= 19 * n /\ 20 * (r - 1) < 19 * n
OBVIOUS

\* The p95 of a summary is the nearest rank.
LEMMA PercentileIsNearestRank ==
  ASSUME NEW values \in Seq(Int), values # <<>>
  PROVE  percentile(values, 19, 20) = NearestRank(values, 19, 20)
<1> DEFINE n == Len(values)
           r == (19 * n + 20 - 1) \div 20
           v == Ordered(values)[r]
           Upto(u) == Cardinality({j \in 1..n : values[j] <= u})
           covering == {u \in Range(values) : 20 * Upto(u) >= 19 * n}
<1>1. n \in Nat \ {0} /\ (\A j \in 1..n : values[j] \in Int) /\ DOMAIN values = 1..n
  OBVIOUS
<1>2. r \in 1..n /\ 20 * r >= 19 * n /\ 20 * (r - 1) < 19 * n
  <2> HIDE DEF n
  <2> QED BY <1>1, CeilingIsRank
<1>3. percentile(values, 19, 20) = v
  BY DEF percentile
<1>4. NearestRank(values, 19, 20) = Min(covering)
  BY DEF NearestRank
<1> HIDE DEF r
<1>5. /\ v \in Int /\ v \in Range(values) /\ Upto(v) >= r
      /\ Cardinality({j \in 1..n : values[j] < v}) < r
  BY <1>2, OrderedCounts
<1> HIDE DEF n, v
<1>6. \A u \in Range(values) : u \in Int
  BY <1>1 DEF Range
<1>7. \A u \in Int : Upto(u) \in Nat
  <2>1. ASSUME NEW S \in SUBSET (1..n) PROVE Cardinality(S) \in Nat
    BY <1>1, PlacesCount
  <2> QED BY <2>1
<1>8. v \in covering
  <2> HIDE DEF Upto
  <2>1. 20 * Upto(v) >= 19 * n
    BY <1>1, <1>2, <1>5, <1>7
  <2> QED BY <1>5, <2>1
<1>9. ASSUME NEW u \in covering PROVE v <= u
  <2>1. u \in Int /\ 20 * Upto(u) >= 19 * n /\ Upto(u) \in Nat
    BY <1>6, <1>7 DEF covering
  <2> SUFFICES ASSUME u < v PROVE FALSE
    BY <1>5, <2>1
  <2>2. Upto(u) >= r
    <3> HIDE DEF Upto
    <3> QED BY <1>1, <1>2, <2>1
  <2> DEFINE upto == {j \in 1..n : values[j] <= u}
             less == {j \in 1..n : values[j] < v}
  <2>3. upto \subseteq less /\ less \subseteq 1..n
    BY <1>1, <1>5, <2>1
  <2>4. Cardinality(upto) <= Cardinality(less) /\ Cardinality(less) \in Nat
    <3> HIDE DEF upto, less
    <3> QED BY <1>1, <2>3, PlacesCount
  <2>5. Cardinality(upto) >= r /\ Cardinality(less) < r
    BY <1>5, <2>2
  <2> HIDE DEF upto, less
  <2> QED BY <1>1, <1>2, <2>4, <2>5, PlacesCount, <2>3
<1>10. covering \subseteq Int
  BY <1>6
<1>11. Min(covering) = v
  <2> HIDE DEF covering
  <2>1. \A u \in covering : (\A w \in covering : u <= w) => u = v
    BY <1>5, <1>8, <1>9, <1>10
  <2> QED BY <1>8, <1>9, <2>1 DEF Min
<1> QED BY <1>3, <1>4, <1>11

\* A greater rank has no smaller value.
LEMMA OrderedIsSorted ==
  ASSUME NEW values \in Seq(Int), NEW r \in 1..Len(values), NEW s \in 1..Len(values), r <= s
  PROVE  Ordered(values)[r] <= Ordered(values)[s]
<1> DEFINE n == Len(values)
           a == Ordered(values)[r]
           b == Ordered(values)[s]
           upto == {j \in 1..n : values[j] <= b}
           less == {j \in 1..n : values[j] < a}
<1>1. n \in Nat /\ (\A j \in 1..n : values[j] \in Int) /\ r \in 1..n /\ s \in 1..n
  OBVIOUS
<1>2. a \in Int /\ b \in Int /\ Cardinality(upto) >= s /\ Cardinality(less) < r
  BY OrderedCounts
<1> HIDE DEF n, a, b
<1> SUFFICES ASSUME b < a PROVE FALSE
  BY <1>2 DEF a, b
<1>3. upto \subseteq less /\ less \subseteq 1..n
  BY <1>1, <1>2
<1>4. Cardinality(upto) <= Cardinality(less) /\ Cardinality(upto) \in Nat /\ Cardinality(less) \in Nat
  <2> HIDE DEF upto, less
  <2> QED BY <1>1, <1>3, PlacesCount
<1> HIDE DEF upto, less
<1> QED BY <1>1, <1>2, <1>4

\* No more than half of the values lie below the median, or above it.
LEMMA MedianHasHalves ==
  ASSUME NEW values \in Seq(Int), values # <<>>,
         NEW median2, median2 = timing_summary(values).median2
  PROVE  /\ 2 * Cardinality({j \in 1..Len(values) : 2 * values[j] < median2}) <= Len(values)
         /\ 2 * Cardinality({j \in 1..Len(values) : 2 * values[j] > median2}) <= Len(values)
<1> DEFINE n == Len(values)
           low == (n + 1) \div 2
           high == n \div 2 + 1
           a == Ordered(values)[low]
           b == Ordered(values)[high]
           below == {j \in 1..n : 2 * values[j] < median2}
           above == {j \in 1..n : 2 * values[j] > median2}
           upto == {j \in 1..n : values[j] <= a}
           less == {j \in 1..n : values[j] < b}
<1>1. n \in Nat \ {0} /\ (\A j \in 1..n : values[j] \in Int)
  OBVIOUS
<1>2. low \in 1..n /\ high \in 1..n /\ low <= high /\ 2 * low >= n /\ 2 * (high - 1) <= n
  <2> HIDE DEF n
  <2> QED BY <1>1
<1>3. median2 = a + b
  BY DEF timing_summary
<1> HIDE DEF low, high
<1>4. a \in Int /\ b \in Int /\ a <= b /\ Cardinality(upto) >= low /\ Cardinality(less) < high
  BY <1>2, OrderedCounts, OrderedIsSorted
<1> HIDE DEF n, a, b
<1>5. below \subseteq less /\ less \subseteq 1..n
  BY <1>1, <1>3, <1>4
<1>6. above \subseteq (1..n) \ upto /\ upto \subseteq 1..n /\ (1..n) \ upto \subseteq 1..n
  BY <1>1, <1>3, <1>4
<1> HIDE DEF below, above, upto, less
<1>7. 2 * Cardinality(below) <= n
  <2>1. /\ Cardinality(below) \in Nat /\ Cardinality(less) \in Nat
        /\ Cardinality(below) <= Cardinality(less)
    BY <1>1, <1>5, PlacesCount
  <2> QED BY <1>1, <1>2, <1>4, <2>1
<1>8. 2 * Cardinality(above) <= n
  <2>1. /\ Cardinality(above) \in Nat
        /\ Cardinality(above) <= Cardinality((1..n) \ upto)
    BY <1>1, <1>6, PlacesCount
  <2>2. Cardinality(upto) \in Nat
    BY <1>1, <1>6, PlacesCount
  <2>3. Cardinality((1..n) \ upto) = n - Cardinality(upto)
    BY <1>1, <1>6, PlacesSplit
  <2> QED BY <1>1, <1>2, <1>4, <2>1, <2>2, <2>3
<1> QED BY <1>7, <1>8 DEF below, above, n

\* Each row has one decision, so counting them by decision loses none.
LEMMA DecisionsAddUp ==
  ASSUME NEW n \in Nat, NEW decision, decision \in [1..n -> Range(decision)], NEW counts,
         counts = [d \in Range(decision) |-> Cardinality({j \in 1..n : decision[j] = d})]
  PROVE  FoldFunction(LAMBDA a, b : a + b, 0, counts) = n
<1> DEFINE D == Range(decision)
           Of(s) == {j \in 1..n : decision[j] \in s}
           some(s) == CHOOSE d \in s : TRUE
           IsSum(g) == g = [s \in SUBSET D |-> IF s = {} THEN 0
                                               ELSE counts[some(s)] + g[s \ {some(s)}]]
           total == [s \in SUBSET D |-> Cardinality(Of(s))]
<1>1. FoldFunction(LAMBDA a, b : a + b, 0, counts) = (CHOOSE g : IsSum(g))[D]
  BY DEF FoldFunction, FoldFunctionOnSet, MapThenFoldSet
<1>2. \A s : Of(s) \subseteq 1..n
  OBVIOUS
<1>3. \A s : IsFiniteSet(Of(s)) /\ Cardinality(Of(s)) \in Nat
  <2> HIDE DEF Of
  <2> QED BY <1>2, PlacesCount
<1>4. ASSUME NEW s \in SUBSET D, s # {}
      PROVE  /\ some(s) \in s
             /\ Cardinality(Of(s)) = counts[some(s)] + Cardinality(Of(s \ {some(s)}))
  <2>1. some(s) \in s
    BY <1>4
  <2> DEFINE d == some(s)
  <2> HIDE DEF some
  <2>2. Of(s) = Of({d}) \cup Of(s \ {d}) /\ Of({d}) \cap Of(s \ {d}) = {}
    BY <2>1
  <2>3. counts[d] = Cardinality(Of({d}))
    <3>1. Of({d}) = {j \in 1..n : decision[j] = d}
      OBVIOUS
    <3> HIDE DEF Of
    <3> QED BY <2>1, <3>1
  <2>4. Cardinality({}) = 0
    BY FS_EmptySet
  <2>5. Cardinality(Of(s)) = Cardinality(Of({d})) + Cardinality(Of(s \ {d}))
    <3>1. Cardinality(Of({d}) \cup Of(s \ {d})) =
              Cardinality(Of({d})) + Cardinality(Of(s \ {d})) - Cardinality(Of({d}) \cap Of(s \ {d}))
      <4> HIDE DEF Of, d
      <4> QED BY <1>3, FS_Union
    <3> DEFINE x == Cardinality(Of({d}))
               y == Cardinality(Of(s \ {d}))
    <3>2. x \in Nat /\ y \in Nat
      <4> HIDE DEF Of, d
      <4> QED BY <1>3
    <3>3. Cardinality(Of(s)) = x + y - 0
      <4> HIDE DEF Of, d
      <4> QED BY <2>2, <2>4, <3>1
    <3> HIDE DEF x, y
    <3>4. x + y - 0 = x + y
      BY <3>2
    <3> QED BY <3>3, <3>4 DEF x, y
  <2> QED BY <2>1, <2>3, <2>5
<1>5. IsSum(total)
  <2>1. ASSUME NEW s \in SUBSET D
        PROVE  total[s] = IF s = {} THEN 0 ELSE counts[some(s)] + total[s \ {some(s)}]
    <3>1. CASE s = {}
      <4>1. Of(s) = {}
        BY <3>1
      <4> HIDE DEF Of
      <4> QED BY <3>1, <4>1, FS_EmptySet
    <3>2. CASE s # {}
      <4>1. s \ {some(s)} \in SUBSET D
        OBVIOUS
      <4> HIDE DEF Of, some
      <4> QED BY <1>4, <3>2, <4>1
    <3> QED BY <3>1, <3>2
  <2> HIDE DEF Of, some, D
  <2> QED BY <2>1
<1>6. ASSUME NEW g, IsSum(g) PROVE g[D] = n
  <2> DEFINE I == {k \in Nat : \E s \in SUBSET D : Cardinality(s) = k /\ g[s] # total[s]}
  <2>1. IsFiniteSet(D)
    <3>1. decision \in Surjection(1..n, D) /\ IsFiniteSet(1..n)
      <4>1. \A d \in D : \E j \in 1..n : decision[j] = d
        BY DEF Range
      <4>2. IsFiniteSet(1..n)
        BY PlacesOfList
      <4> QED BY <4>1, <4>2 DEF Surjection
    <3> HIDE DEF D
    <3> QED BY <3>1, FS_Surjection
  <2>2. \A s \in SUBSET D : IsFiniteSet(s) /\ Cardinality(s) \in Nat
    <3> HIDE DEF D
    <3> QED BY <2>1, FS_Subset, FS_CardinalityType
  <2>3. I = {}
    <3> SUFFICES ASSUME I # {} PROVE FALSE
      OBVIOUS
    <3>1. PICK k \in I : \A m \in I : k <= m
      <4>1. I \in SUBSET Nat
        OBVIOUS
      <4> HIDE DEF I
      <4> QED BY <4>1, LeastNumber
    <3>2. PICK s \in SUBSET D : Cardinality(s) = k /\ g[s] # total[s]
      BY <3>1
    <3> HIDE DEF D, some, Of
    <3>3. CASE s = {}
      BY <1>5, <1>6, <3>2, <3>3
    <3>4. CASE s # {}
      <4> DEFINE t == s \ {some(s)}
      <4>1. some(s) \in s /\ t \in SUBSET D
        BY <1>4, <3>4
      <4>2. Cardinality(t) = k - 1 /\ k \in Nat /\ Cardinality(t) \in Nat
        BY <2>2, <3>2, <4>1, FS_RemoveElement
      <4>3. g[t] = total[t]
        BY <3>1, <4>1, <4>2
      <4>4. g[s] = counts[some(s)] + g[t] /\ total[s] = counts[some(s)] + total[t]
        <5> HIDE DEF total
        <5> QED BY <1>5, <1>6, <3>4
      <4> QED BY <3>2, <4>3, <4>4
    <3> QED BY <3>3, <3>4
  <2>4. g[D] = total[D]
    <3> HIDE DEF D, total
    <3> QED BY <2>2, <2>3
  <2>5. Of(D) = 1..n
    OBVIOUS
  <2>6. Cardinality(1..n) = n
    BY PlacesOfList
  <2> HIDE DEF D, Of
  <2> QED BY <2>4, <2>5, <2>6
<1> HIDE DEF IsSum, D
<1> QED BY <1>1, <1>5, <1>6

\* A column without a hole is matched by its timing_summary.
LEMMA TimingMatches ==
  ASSUME NEW rows \in Seq(Rows), rows # <<>>, NEW field \in {"observed", "modeled", "critical_path"},
         HasColumn(rows, field)
  PROVE  Matches(timing_summary(Column(rows, field)), rows, field)
<1> DEFINE values == Column(rows, field)
           timing == timing_summary(values)
<1>1. values \in Seq(Int) /\ values # <<>>
  <2>1. Len(rows) \in Nat /\ Len(rows) # 0
    OBVIOUS
  <2>2. ASSUME NEW j \in 1..Len(rows) PROVE rows[j][field] \in Int
    <3>1. rows[j] \in Rows
      OBVIOUS
    <3>2. rows[j][field] \in Int \cup {None}
      BY <3>1, ScriptAssumption
    <3>3. rows[j][field] # None
      BY <2>1 DEF HasColumn, Column, Range
    <3> QED BY <3>2, <3>3
  <2>3. values = [j \in 1..Len(rows) |-> rows[j][field]]
    BY DEF Column
  <2>4. values \in Seq(Int) /\ Len(values) = Len(rows)
    BY <2>1, <2>2, <2>3
  <2> HIDE DEF values
  <2> QED BY <2>1, <2>4
<1>2. timing.p95 = NearestRank(values, 19, 20)
  <2>1. timing.p95 = percentile(values, 19, 20)
    BY DEF timing_summary
  <2> HIDE DEF values, timing
  <2> QED BY <1>1, <2>1, PercentileIsNearestRank
<1>3. /\ 2 * Cardinality({j \in 1..Len(values) : 2 * values[j] < timing.median2}) <= Len(values)
      /\ 2 * Cardinality({j \in 1..Len(values) : 2 * values[j] > timing.median2}) <= Len(values)
  <2> HIDE DEF values
  <2> QED BY <1>1, MedianHasHalves
<1>4. Matches(timing, rows, field)
  <2> HIDE DEF timing
  <2> QED BY <1>2, <1>3 DEF Matches
<1> QED BY <1>4

\* What summarize_result_file computes of rows that write has accepted.
LEMMA SummaryMatches ==
  ASSUME NEW rows \in Seq(Rows), rows # <<>>, \A j \in 1..Len(rows) : ~missing(rows[j])
  PROVE  LET s == Summary(rows)
         IN  /\ s.kind = "summary" /\ s.samples = Len(rows)
             /\ FoldFunction(LAMBDA a, b : a + b, 0, s.decisions) = Len(rows)
             /\ Matches(s.observed, rows, "observed")
             /\ s.modeled # None =>
                 \/ Matches(s.modeled, rows, "modeled")
                 \/ Matches(s.modeled, rows, "critical_path")
<1> DEFINE n == Len(rows)
           decision == Column(rows, "decision")
           counts == [d \in Range(decision) |-> Cardinality({j \in 1..n : rows[j].decision = d})]
<1>1. n \in Nat
  OBVIOUS
<1>2. /\ Summary(rows).kind = "summary" /\ Summary(rows).samples = n
      /\ Summary(rows).decisions = counts
      /\ Summary(rows).modeled = modeled_summary(rows)
  BY DEF Summary
<1>3. FoldFunction(LAMBDA a, b : a + b, 0, counts) = n
  <2>1. decision = [j \in 1..n |-> rows[j].decision]
    BY DEF Column
  <2> HIDE DEF n
  <2>2. decision \in [1..n -> Range(decision)]
    <3> HIDE DEF decision
    <3> QED BY <2>1 DEF Range
  <2>3. \A d : {j \in 1..n : rows[j].decision = d} = {j \in 1..n : decision[j] = d}
    BY <2>1
  <2>4. counts = [d \in Range(decision) |-> Cardinality({j \in 1..n : decision[j] = d})]
    <3> HIDE DEF decision
    <3> QED BY <2>3
  <2> HIDE DEF counts, decision
  <2> QED BY <1>1, <2>2, <2>4, DecisionsAddUp
<1>4. Matches(Summary(rows).observed, rows, "observed")
  <2>1. HasColumn(rows, "observed")
    BY DEF HasColumn, Column, Range, missing
  <2>2. Summary(rows).observed = timing_summary(Column(rows, "observed"))
    BY <2>1 DEF Summary
  <2> QED BY <2>1, <2>2, TimingMatches
<1>5. ASSUME modeled_summary(rows) # None
      PROVE  \/ Matches(modeled_summary(rows), rows, "modeled")
             \/ Matches(modeled_summary(rows), rows, "critical_path")
  <2>1. CASE HasColumn(rows, "modeled")
    <3>1. modeled_summary(rows) = timing_summary(Column(rows, "modeled"))
      BY <2>1 DEF modeled_summary
    <3> QED BY <2>1, <3>1, TimingMatches
  <2>2. CASE ~HasColumn(rows, "modeled")
    <3>1. /\ HasColumn(rows, "critical_path")
          /\ modeled_summary(rows) = timing_summary(Column(rows, "critical_path"))
      BY <1>5, <2>2 DEF modeled_summary
    <3> QED BY <3>1, TimingMatches
  <2> QED BY <2>1, <2>2
<1> HIDE DEF counts
<1> QED BY <1>2, <1>3, <1>4, <1>5

---------------------------------------------------------------------------
(***************************************************************************)
(* The inductive invariant.                                                *)
(***************************************************************************)
\* What the writers keep.  A row never waits in a buffer, so a writer is
\* always at the end of what it has written.
WriterInv ==
    /\ script \in [Writers -> Seq(Rows)]
    /\ accepted \in [Writers -> Seq(Rows)]
    /\ output \in [Writers -> {"fresh", "open", "closed", "killed"}]
    /\ offset \in [Writers -> Nat]
    /\ buffer = [w \in Writers |-> <<>>]
    /\ \A w \in Writers : offset[w] = Len(accepted[w])
    /\ \A w \in Writers : output[w] = "fresh" => accepted[w] = <<>>

\* As long as no two writers had the file open at once, only the one that
\* opened it last can have it open, and the file holds what that one wrote.
FileInv ==
    /\ latest \in Writers \cup {None}
    /\ clash \in BOOLEAN
    /\ ~clash => \A w \in Writers : output[w] = "open" => w = latest
    /\ ~clash => file = IF latest = None THEN None ELSE accepted[latest]

\* write has let no row pass that lacks a required field, and a summary of a
\* file that one writer had open is that of the rows it had written so far.
SummaryInv ==
    /\ \A w \in Writers : \A j \in 1..Len(accepted[w]) : ~missing(accepted[w][j])
    /\ ~clash /\ summary.kind = "summary" =>
        \E w \in Writers : \E n \in 1..Len(accepted[w]) :
            summary = Summary(SubSeq(accepted[w], 1, n))

IInv == WriterInv /\ FileInv /\ SummaryInv /\ OneWriterIsReadable

---------------------------------------------------------------------------
\* Writing one row at the end of the file appends it.
LEMMA FlushedAtEnd ==
  ASSUME NEW w \in Writers, NEW row \in Rows, file \in Seq(Rows), offset[w] = Len(file)
  PROVE  Flushed(w, <<row>>) = Append(file, row)
<1> DEFINE n == Len(file)
<1>1. n \in Nat /\ offset[w] = n /\ Len(<<row>>) = 1 /\ <<row>>[1] = row
  OBVIOUS
<1>2. Max({n, n + 1}) = n + 1
  BY <1>1 DEF Max
<1>3. Flushed(w, <<row>>) =
          [j \in 1 .. n + 1 |-> IF j \in n + 1 .. n + 1 THEN <<row>>[j - n]
                                ELSE IF j <= n THEN file[j] ELSE None]
  BY <1>1, <1>2 DEF Flushed
<1>4. ASSUME NEW j \in 1 .. n + 1
      PROVE  (IF j \in n + 1 .. n + 1 THEN <<row>>[j - n]
              ELSE IF j <= n THEN file[j] ELSE None) = Append(file, row)[j]
  BY <1>1, <1>4
<1>5. Append(file, row) = [j \in 1 .. n + 1 |-> Append(file, row)[j]]
  <2>1. Append(file, row) \in Seq(Rows) /\ Len(Append(file, row)) = n + 1
    OBVIOUS
  <2> HIDE DEF n
  <2>2. ASSUME NEW s \in Seq(Rows), Len(s) = n + 1 PROVE s = [j \in 1 .. n + 1 |-> s[j]]
    BY <2>2
  <2> QED BY <2>1, <2>2
<1> QED BY <1>3, <1>4, <1>5

\* Writing nothing there leaves the file as it is.
LEMMA FlushedNothing ==
  ASSUME NEW w \in Writers, file \in Seq(Rows), offset[w] = Len(file)
  PROVE  Flushed(w, <<>>) = file
<1> DEFINE n == Len(file)
<1>1. n \in Nat /\ offset[w] = n /\ Len(<<>>) = 0
  OBVIOUS
<1>2. Max({n, n}) = n /\ n + 0 = n
  BY <1>1 DEF Max
<1>3. Flushed(w, <<>>) =
          [j \in 1 .. n |-> IF j \in n + 1 .. n THEN <<>>[j - n]
                            ELSE IF j <= n THEN file[j] ELSE None]
  BY <1>1, <1>2 DEF Flushed
<1>4. \A j \in 1 .. n : j \notin n + 1 .. n /\ j <= n
  BY <1>1
<1>5. file = [j \in 1 .. n |-> file[j]]
  OBVIOUS
<1> QED BY <1>3, <1>4, <1>5

---------------------------------------------------------------------------
(***************************************************************************)
(* Every action preserves the invariant.                                   *)
(***************************************************************************)
\* A step that leaves the summary alone and takes no accepted row back keeps
\* what the summary says of the rows.
LEMMA ReadableKept ==
  ASSUME WriterInv, OneWriterIsReadable, summary' = summary, clash => clash',
         NEW w \in Writers, NEW rows \in Seq(Rows),
         accepted' = [accepted EXCEPT ![w] = rows],
         Range(accepted[w]) \subseteq Range(rows)
  PROVE  OneWriterIsReadable'
<1>1. \A v \in Writers : Range(accepted[v]) \subseteq Range(accepted'[v])
  BY DEF WriterInv
<1> QED BY <1>1 DEF OneWriterIsReadable

\* Nor does it disturb which rows were summarized.
LEMMA SummaryKept ==
  ASSUME WriterInv, SummaryInv, summary' = summary, clash => clash',
         NEW w \in Writers, NEW row \in Rows, ~missing(row),
         accepted' = [accepted EXCEPT ![w] = Append(@, row)]
  PROVE  SummaryInv'
<1>1. ASSUME NEW v \in Writers
      PROVE  /\ accepted[v] \in Seq(Rows) /\ accepted'[v] \in Seq(Rows)
             /\ Len(accepted[v]) <= Len(accepted'[v])
             /\ \A j \in 1..Len(accepted[v]) : accepted'[v][j] = accepted[v][j]
             /\ \A j \in 1..Len(accepted'[v]) : ~missing(accepted'[v][j])
  <2>1. accepted[v] \in Seq(Rows) /\ \A j \in 1..Len(accepted[v]) : ~missing(accepted[v][j])
    BY DEF WriterInv, SummaryInv
  <2>2. accepted'[v] = accepted[v] \/ accepted'[v] = Append(accepted[v], row)
    BY DEF WriterInv
  <2> HIDE DEF missing
  <2> QED BY <2>1, <2>2
<1>2. ASSUME NEW v \in Writers, NEW n \in 1..Len(accepted[v])
      PROVE  n \in 1..Len(accepted'[v]) /\ SubSeq(accepted'[v], 1, n) = SubSeq(accepted[v], 1, n)
  BY <1>1
<1>3. ASSUME ~clash, summary.kind = "summary"
      PROVE  \E v \in Writers : \E n \in 1..Len(accepted'[v]) :
                 summary = Summary(SubSeq(accepted'[v], 1, n))
  <2>1. PICK v \in Writers : \E n \in 1..Len(accepted[v]) :
            summary = Summary(SubSeq(accepted[v], 1, n))
    BY <1>3 DEF SummaryInv
  <2> QED BY <1>2, <2>1
<1>4. \A v \in Writers : \A j \in 1..Len(accepted'[v]) : ~missing(accepted'[v][j])
  BY <1>1
<1> QED BY <1>3, <1>4 DEF SummaryInv

\* Opening empties the file, which no row of this writer is in yet.
LEMMA EnterIInv ==
  ASSUME IInv, NEW w \in Writers, __enter__(w)
  PROVE  IInv'
<1> USE DEF IInv
<1>1. WriterInv'
  BY DEF WriterInv, __enter__
<1>2. FileInv'
  BY ScriptAssumption DEF WriterInv, FileInv, __enter__
<1>3. OneWriterIsReadable'
  BY DEF OneWriterIsReadable, __enter__, FileInv
<1>4. UNCHANGED <<accepted, summary>> /\ (clash => clash')
  BY DEF __enter__, FileInv
<1>5. SummaryInv'
  BY <1>4 DEF SummaryInv
<1> QED BY <1>1, <1>2, <1>3, <1>5

\* write returns with its row at the end of the file.
LEMMA WriteIInv ==
  ASSUME IInv, NEW w \in Writers, Write(w)
  PROVE  IInv'
<1> USE DEF IInv
<1> DEFINE row == Head(script[w])
<1>1. /\ output[w] = "open" /\ script[w] # <<>> /\ script[w] \in Seq(Rows)
      /\ accepted[w] \in Seq(Rows) /\ buffer[w] = <<>>
      /\ accepted' = [accepted EXCEPT ![w] = Append(accepted[w], row)]
      /\ script' = [script EXCEPT ![w] = Tail(script[w])]
      /\ UNCHANGED <<output, summary, latest, clash>>
  BY DEF Write, Accept, WriterInv, history
<1>2. row \in Rows /\ Tail(script[w]) \in Seq(Rows)
  BY <1>1, HeadTailProperties
<1>3. Append(buffer[w], row) = <<row>>
  BY <1>1
<1>4. /\ file' = Flushed(w, <<row>>) /\ offset' = [offset EXCEPT ![w] = offset[w] + 1]
      /\ buffer' = [buffer EXCEPT ![w] = <<>>]
  BY <1>3 DEF Write, Flush
<1> HIDE DEF row
<1>5. /\ Append(accepted[w], row) \in Seq(Rows)
      /\ Len(Append(accepted[w], row)) = Len(accepted[w]) + 1
      /\ Range(accepted[w]) \subseteq Range(Append(accepted[w], row))
  <2> DEFINE longer == Append(accepted[w], row)
  <2>1. /\ longer \in Seq(Rows) /\ Len(longer) = Len(accepted[w]) + 1
        /\ \A j \in 1 .. Len(accepted[w]) : longer[j] = accepted[w][j]
    BY <1>1, <1>2
  <2> HIDE DEF longer
  <2>2. ASSUME NEW x \in Range(accepted[w]) PROVE x \in Range(longer)
    <3>1. PICK j \in 1 .. Len(accepted[w]) : x = accepted[w][j]
      BY <1>1 DEF Range
    <3>2. j \in 1 .. Len(longer) /\ longer[j] = x
      BY <1>1, <2>1, <3>1
    <3> QED BY <2>1, <3>2 DEF Range
  <2> QED BY <2>1, <2>2 DEF longer
<1>6. WriterInv'
  BY <1>1, <1>2, <1>4, <1>5 DEF WriterInv
<1>7. FileInv'
  <2>1. CASE clash
    BY <1>1, <2>1 DEF FileInv
  <2>2. CASE ~clash
    <3>1. w = latest /\ w # None /\ file = accepted[w]
      BY <1>1, <2>2, ScriptAssumption DEF FileInv
    <3>2. file' = Append(file, row)
      BY <1>1, <1>2, <1>4, <3>1, FlushedAtEnd DEF WriterInv
    <3> QED BY <1>1, <3>1, <3>2 DEF FileInv, WriterInv
  <2> QED BY <2>1, <2>2 DEF FileInv
<1>8. OneWriterIsReadable'
  BY <1>1, <1>5, ReadableKept
<1>9. SummaryInv'
  <2>1. ~missing(row)
    BY DEF Write, Accept, row
  <2> QED BY <1>1, <1>2, <2>1, SummaryKept
<1> QED BY <1>6, <1>7, <1>8, <1>9

\* Closing, killed or not, finds nothing to flush.
LEMMA CloseIInv ==
  ASSUME IInv, NEW w \in Writers, WriteRaises(w) \/ __exit__(w) \/ Killed(w)
  PROVE  IInv'
<1> USE DEF IInv
<1>1. /\ output[w] = "open" /\ buffer[w] = <<>> /\ accepted[w] \in Seq(Rows)
      /\ output' \in {[output EXCEPT ![w] = "closed"], [output EXCEPT ![w] = "killed"]}
      /\ buffer' = [buffer EXCEPT ![w] = <<>>]
      /\ UNCHANGED <<script, summary, accepted, latest, clash>>
  BY DEF WriteRaises, __exit__, Killed, Flush, WriterInv, history
<1>2. offset' = offset /\ (file' = file \/ file' = Flushed(w, <<>>))
  <2>1. \A n \in Nat : n + Len(<<>>) = n
    OBVIOUS
  <2>2. [offset EXCEPT ![w] = offset[w] + Len(<<>>)] = offset
    BY <2>1 DEF WriterInv
  <2> QED BY <1>1, <2>2 DEF WriteRaises, __exit__, Killed, Flush
<1>3. WriterInv'
  BY <1>1, <1>2 DEF WriterInv
<1>4. FileInv'
  <2>1. CASE clash
    BY <1>1, <2>1 DEF FileInv
  <2>2. CASE ~clash
    <3>1. w = latest /\ w # None /\ file = accepted[w]
      BY <1>1, <2>2, ScriptAssumption DEF FileInv
    <3>2. file' = file
      BY <1>1, <1>2, <3>1, FlushedNothing DEF WriterInv
    <3>3. \A v \in Writers : output'[v] = "open" => output[v] = "open"
      BY <1>1 DEF WriterInv
    <3> QED BY <1>1, <3>1, <3>2, <3>3 DEF FileInv
  <2> QED BY <2>1, <2>2 DEF FileInv
<1>5. OneWriterIsReadable'
  BY <1>1 DEF OneWriterIsReadable
<1>6. SummaryInv'
  BY <1>1 DEF SummaryInv
<1> QED BY <1>3, <1>4, <1>5, <1>6

\* A reader finds whole rows, and the field it may miss is missing in a row.
LEMMA SummarizeIInv ==
  ASSUME IInv, summarize_result_file
  PROVE  IInv'
<1> USE DEF IInv
<1>1. UNCHANGED <<script, output, offset, buffer, file, accepted, latest, clash>>
  BY DEF summarize_result_file, history
<1>2. WriterInv' /\ FileInv'
  BY <1>1 DEF WriterInv, FileInv
<1>3. ASSUME ~clash PROVE /\ summary'.kind # "JSONDecodeError"
                          /\ summary'.kind = "KeyError" =>
                                 \E w \in Writers : \E row \in Range(accepted[w]) :
                                     row.payload_bytes = None
  <2>1. CASE file = None
    BY <2>1 DEF summarize_result_file, Fails
  <2>2. CASE file # None
    <3>1. latest \in Writers /\ file = accepted[latest] /\ file \in Seq(Rows)
      BY <1>3, <2>2 DEF FileInv, WriterInv
    <3>2. None \notin Range(file)
      BY <3>1, ScriptAssumption DEF Range
    <3>3. CASE file # <<>> /\ ~HasColumn(file, "payload_bytes")
      <4>1. PICK j \in 1 .. Len(file) : file[j].payload_bytes = None
        BY <3>3 DEF HasColumn, Column, Range
      <4>2. file[j] \in Range(accepted[latest])
        BY <3>1 DEF Range
      <4> QED BY <2>2, <3>1, <3>2, <3>3, <4>1, <4>2 DEF summarize_result_file, Fails
    <3>4. CASE ~(file # <<>> /\ ~HasColumn(file, "payload_bytes"))
      <4>1. summary' \in {Fails("no samples"), Summary(file)}
        BY <2>2, <3>2, <3>4 DEF summarize_result_file
      <4>2. summary'.kind \in {"no samples", "summary"}
        <5>1. Summary(file).kind = "summary"
          BY Zenon DEF Summary
        <5>2. Fails("no samples").kind = "no samples"
          BY DEF Fails
        <5> QED BY <4>1, <5>1, <5>2
      <4> QED BY <4>2
    <3> QED BY <3>3, <3>4
  <2> QED BY <2>1, <2>2
<1>4. OneWriterIsReadable'
  BY <1>1, <1>3 DEF OneWriterIsReadable
<1>5. ASSUME ~clash, summary'.kind = "summary"
      PROVE  \E w \in Writers : \E n \in 1..Len(accepted[w]) :
                 summary' = Summary(SubSeq(accepted[w], 1, n))
  <2>1. file # None /\ file # <<>> /\ summary' = Summary(file)
    BY <1>5 DEF summarize_result_file, Fails
  <2>2. latest \in Writers /\ file = accepted[latest] /\ file \in Seq(Rows)
    BY <1>5, <2>1 DEF FileInv, WriterInv
  <2>3. Len(file) \in 1..Len(file) /\ SubSeq(file, 1, Len(file)) = file
    BY <2>1, <2>2
  <2> QED BY <2>1, <2>2, <2>3
<1>6. SummaryInv'
  BY <1>1, <1>5 DEF SummaryInv
<1> QED BY <1>2, <1>4, <1>6

\* The inductive invariant holds in every reachable state.
THEOREM Invariance == Spec => []IInv
<1>1. Init => IInv
  <2> SUFFICES ASSUME Init PROVE IInv
    OBVIOUS
  <2>1. WriterInv
    BY ScriptAssumption DEF Init, WriterInv
  <2>2. FileInv
    BY DEF Init, FileInv
  <2>3. OneWriterIsReadable
    BY DEF Init, OneWriterIsReadable, NoSummary
  <2>4. SummaryInv
    BY ScriptAssumption DEF Init, SummaryInv, NoSummary
  <2> QED BY <2>1, <2>2, <2>3, <2>4 DEF IInv
<1>2. IInv /\ [Next]_vars => IInv'
  <2> SUFFICES ASSUME IInv, [Next]_vars PROVE IInv'
    OBVIOUS
  <2>1. CASE UNCHANGED vars
    BY <2>1 DEF vars, history, IInv, WriterInv, FileInv, SummaryInv, OneWriterIsReadable
  <2>2. CASE Next
    BY <2>2, EnterIInv, WriteIInv, CloseIInv, SummarizeIInv DEF Next
  <2> QED BY <2>1, <2>2
<1> QED BY <1>1, <1>2, PTL DEF Spec

---------------------------------------------------------------------------
(***************************************************************************)
(* The results.                                                            *)
(***************************************************************************)
\* With one writer at a time, the file is at every moment exactly the rows
\* for which JsonlMetricWriter.write has returned since it was opened last.
THEOREM WrittenRowsAreOnFile == Spec => []RowsAreOnFile
<1>1. IInv => RowsAreOnFile
  BY DEF IInv, FileInv, RowsAreOnFile
<1> QED BY <1>1, Invariance, PTL

\* summarize_result_file can be run at any moment of one writer's run: it
\* never meets half a row, and misses payload_bytes only if a row lacks it.
THEOREM ReadableAtAnyTime == Spec => []OneWriterIsReadable
<1>1. IInv => OneWriterIsReadable
  BY DEF IInv
<1> QED BY <1>1, Invariance, PTL

\* A summary that summarize_result_file makes while one writer is at work, at
\* any moment of its run, is that of the rows written so far, whatever they
\* are: percentile's rank is the nearest rank, the median has half of them on
\* either side, no decision is lost, and modeled and critical_path times are
\* not mixed.
THEOREM SummaryIsOfWrittenRows == Spec => []SummaryIsExact
<1>1. ASSUME IInv PROVE SummaryIsExact
  <2> SUFFICES ASSUME ~clash, summary.kind = "summary" PROVE SummaryIsExact
    BY DEF SummaryIsExact
  <2>0. PICK w \in Writers : \E k \in 1..Len(accepted[w]) :
            summary = Summary(SubSeq(accepted[w], 1, k))
    BY <1>1 DEF IInv, SummaryInv
  <2>1. PICK n \in 1..Len(accepted[w]) : summary = Summary(SubSeq(accepted[w], 1, n))
    BY <2>0
  <2> DEFINE rows == SubSeq(accepted[w], 1, n)
  <2>2. /\ accepted[w] \in Seq(Rows) /\ Len(accepted[w]) \in Nat
        /\ \A j \in 1..Len(accepted[w]) : ~missing(accepted[w][j])
    BY <1>1 DEF IInv, WriterInv, SummaryInv
  <2>3. rows \in Seq(Rows) /\ Len(rows) = n /\ \A j \in 1..Len(rows) : rows[j] = accepted[w][j]
    BY <2>2
  <2> HIDE DEF rows
  <2>4. rows # <<>> /\ \A j \in 1..Len(rows) : ~missing(rows[j])
    BY <2>2, <2>3
  <2>5. /\ summary.samples = n
        /\ FoldFunction(LAMBDA a, b : a + b, 0, summary.decisions) = n
        /\ Matches(summary.observed, rows, "observed")
        /\ summary.modeled # None => \/ Matches(summary.modeled, rows, "modeled")
                                     \/ Matches(summary.modeled, rows, "critical_path")
    BY <2>1, <2>3, <2>4, SummaryMatches DEF rows
  <2>6. summary.samples = n
    BY <2>5, Zenon
  <2>7. summary.samples <= Len(accepted[w]) /\ rows = SubSeq(accepted[w], 1, summary.samples)
    BY <2>2, <2>6 DEF rows
  <2>8. FoldFunction(LAMBDA a, b : a + b, 0, summary.decisions) = summary.samples
    BY <2>5, Zenon
  <2> QED BY <2>5, <2>7, <2>8, Zenon DEF SummaryIsExact
<1> QED BY <1>1, Invariance, PTL
============================================================================
