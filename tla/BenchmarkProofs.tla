--------------------------- MODULE BenchmarkProofs ---------------------------
(***************************************************************************)
(* Proofs about Benchmark, for every number of processes and instances,    *)
(* every trace and every combination of command lines.                     *)
(***************************************************************************)
EXTENDS Benchmark, LayoutStateManagerProofs, FiniteSetTheorems, FunctionTheorems

---------------------------------------------------------------------------
(***************************************************************************)
(* Schedules.                                                              *)
(***************************************************************************)

\* Flattening makes up no elements and loses none.
LEMMA FlattenProperties ==
  ASSUME NEW S, NEW ss \in Seq(Seq(S))
  PROVE  /\ FlattenSeq(ss) \in Seq(S)
         /\ \A i \in 1..Len(ss) : Range(ss[i]) \subseteq Range(FlattenSeq(ss))
<1> DEFINE n == Len(ss)
           Join(f, i) == IF i = 1 THEN ss[i] ELSE f[i - 1] \o ss[i]
           Partial(k) == \E f \in [1..k -> Seq(S)] : \A i \in 1..k : f[i] = Join(f, i)
           flat == CHOOSE f : f = [i \in 1..n |-> IF i = 1 THEN ss[i] ELSE f[i - 1] \o ss[i]]
<1>1. n \in Nat /\ \A i \in 1..n : ss[i] \in Seq(S)
  OBVIOUS
<1>2. CASE n = 0
  BY <1>1, <1>2 DEF FlattenSeq
<1>3. CASE n # 0
  <2>1. FlattenSeq(ss) = flat[n]
    BY <1>3 DEF FlattenSeq
  <2> HIDE DEF n
  <2>2. ASSUME NEW k \in 0..n PROVE Partial(k)
    <3> DEFINE I == {j \in 0..n : ~ Partial(j)}
    <3>1. I \in SUBSET Nat
      BY <1>1
    <3> SUFFICES ASSUME I # {} PROVE FALSE
      OBVIOUS
    <3>2. PICK j \in I : \A l \in I : j <= l
      <4> HIDE DEF I
      <4> QED BY <3>1, LeastNumber
    <3>3. CASE j = 0
      <4>1. [i \in 1..0 |-> <<>>] \in [1..0 -> Seq(S)]
        OBVIOUS
      <4>2. Partial(0)
        <5>1. \A i \in 1..0 : [l \in 1..0 |-> <<>>][i] = Join([l \in 1..0 |-> <<>>], i)
          <6>1. 1..0 = {}
            OBVIOUS
          <6> QED BY <6>1, Zenon
        <5> HIDE DEF Join
        <5> QED BY <4>1, <5>1
      <4> QED BY <3>3, <4>2
    <3>4. CASE j # 0
      <4>1. j - 1 \in 0..n /\ ~ (j <= j - 1)
        BY <1>1, <3>4
      <4>2. Partial(j - 1)
        <5> HIDE DEF Partial
        <5> QED BY <3>2, <4>1
      <4>3. PICK f \in [1..j - 1 -> Seq(S)] : \A i \in 1..j - 1 : f[i] = Join(f, i)
        BY <4>2
      <4> DEFINE g == [i \in 1..j |-> IF i = j THEN Join(f, j) ELSE f[i]]
      <4>4. Join(f, j) \in Seq(S)
        <5>1. j \in 1..n
          BY <1>1, <3>4
        <5>2. CASE j = 1
          BY <1>1, <5>1, <5>2
        <5>3. CASE j # 1
          <6>1. f[j - 1] \in Seq(S)
            BY <1>1, <5>1, <5>3
          <6> QED BY <1>1, <5>1, <5>3, <6>1, ConcatProperties
        <5> QED BY <5>2, <5>3
      <4>5. g \in [1..j -> Seq(S)]
        BY <1>1, <3>4, <4>4
      <4>6. ASSUME NEW i \in 1..j PROVE g[i] = Join(g, i)
        <5>1. g[i] = Join(f, i)
          <6>1. i = j \/ i \in 1..j - 1
            BY <1>1
          <6>2. i \in 1..j - 1 => i # j
            BY <1>1
          <6> HIDE DEF Join
          <6> QED BY <4>3, <6>1, <6>2
        <5>2. i # 1 => g[i - 1] = f[i - 1]
          <6>1. i # 1 => i - 1 \in 1..j /\ i - 1 # j
            BY <1>1
          <6> QED BY <6>1
        <5> HIDE DEF g
        <5> QED BY <5>1, <5>2
      <4> QED BY <3>2, <4>5, <4>6
    <3> QED BY <3>3, <3>4
  <2>3. PICK f \in [1..n -> Seq(S)] : \A i \in 1..n : f[i] = Join(f, i)
    <3>1. n \in 0..n
      BY <1>1
    <3>2. Partial(n)
      BY <2>2, <3>1
    <3> QED BY <3>2
  <2>4. f = [i \in 1..n |-> IF i = 1 THEN ss[i] ELSE f[i - 1] \o ss[i]]
    BY <2>3
  <2>5. flat = [i \in 1..n |-> IF i = 1 THEN ss[i] ELSE flat[i - 1] \o ss[i]]
    BY <2>4
  <2> HIDE DEF flat
  <2>6. ASSUME NEW k \in 1..n
        PROVE  /\ flat[k] \in Seq(S)
               /\ \A i \in 1..k : Range(ss[i]) \subseteq Range(flat[k])
    <3> DEFINE Good(j) == /\ flat[j] \in Seq(S)
                          /\ \A i \in 1..j : Range(ss[i]) \subseteq Range(flat[j])
               I == {j \in 1..n : ~ Good(j)}
    <3>1. I \in SUBSET Nat
      BY <1>1
    <3> SUFFICES ASSUME I # {} PROVE FALSE
      OBVIOUS
    <3>2. PICK j \in I : \A l \in I : j <= l
      <4> HIDE DEF I
      <4> QED BY <3>1, LeastNumber
    <3>3. CASE j = 1
      <4>1. flat[1] = ss[1] /\ 1 \in 1..n
        BY <1>1, <2>5, <3>2, <3>3
      <4> QED BY <1>1, <3>2, <3>3, <4>1
    <3>4. CASE j # 1
      <4>1. j \in 1..n /\ j - 1 \in 1..n /\ ~ (j <= j - 1)
        BY <1>1, <3>4
      <4>2. flat[j] = flat[j - 1] \o ss[j]
        BY <2>5, <3>4, <4>1
      <4>3. Good(j - 1)
        <5> HIDE DEF Good
        <5> QED BY <3>2, <4>1
      <4> DEFINE front == flat[j - 1]
      <4>4. front \in Seq(S) /\ ss[j] \in Seq(S)
        BY <1>1, <4>1, <4>3
      <4>5. flat[j] \in Seq(S) /\ Range(flat[j]) = Range(front) \cup Range(ss[j])
        BY <4>2, <4>4, RangeConcatenation, ConcatProperties
      <4>6. ASSUME NEW i \in 1..j PROVE Range(ss[i]) \subseteq Range(flat[j])
        <5>1. i = j \/ i \in 1..j - 1
          BY <1>1
        <5> QED BY <4>3, <4>5, <5>1
      <4> QED BY <3>2, <4>5, <4>6
    <3> QED BY <3>3, <3>4
  <2>7. n \in 1..n
    BY <1>1, <1>3
  <2>8. /\ flat[n] \in Seq(S)
        /\ \A i \in 1..n : Range(ss[i]) \subseteq Range(flat[n])
    BY <2>6, <2>7
  <2> QED BY <2>1, <2>8 DEF n
<1> QED BY <1>2, <1>3
\* Quotient and remainder are determined by the equation between them.
LEMMA Division ==
  ASSUME NEW n \in Nat \ {0}, NEW i \in Int
  PROVE  /\ i % n \in 0 .. n - 1 /\ i \div n \in Int /\ i = n * (i \div n) + (i % n)
         /\ \A q \in Int, r \in 0 .. n - 1 : i = n * q + r => i \div n = q /\ i % n = r
<1> DEFINE Q == i \div n
           R == i % n
<1>1. R \in 0 .. n - 1 /\ Q \in Int /\ i = n * Q + R
  OBVIOUS
<1> HIDE DEF Q, R
<1>2. ASSUME NEW q \in Int, NEW r \in 0 .. n - 1, i = n * q + r PROVE Q = q /\ R = r
  <2>1. CASE Q < q
    <3>1. n * Q <= n * (q - 1)
      BY <1>1, <2>1
    <3>2. n * (q - 1) = n * q - n
      OBVIOUS
    <3> QED BY <1>1, <1>2, <3>1, <3>2
  <2>2. CASE Q > q
    <3>1. n * q <= n * (Q - 1)
      BY <1>1, <2>2
    <3>2. n * (Q - 1) = n * Q - n
      BY <1>1
    <3> QED BY <1>1, <1>2, <3>1, <3>2
  <2>3. CASE Q = q
    BY <1>1, <1>2, <2>3
  <2> QED BY <1>1, <2>1, <2>2, <2>3
<1> QED BY <1>1, <1>2 DEF Q, R

\* The benchmark's two loops, over r repetitions of n requests, as one: each
\* index is a repetition and a position, and each of those is an index.
LEMMA LoopIndex ==
  ASSUME NEW n \in Nat, NEW r \in Int
  PROVE  /\ \A j \in 1 .. r * n : (j - 1) % n \in 0 .. n - 1 /\ (j - 1) \div n \in 0 .. r - 1
         /\ \A a \in 0 .. n - 1, b \in 0 .. r - 1 : \E j \in 1 .. r * n :
                (j - 1) % n = a /\ (j - 1) \div n = b
<1>1. r * n \in Int /\ n * r = r * n
  OBVIOUS
<1>2. ASSUME NEW j \in 1 .. r * n
      PROVE  (j - 1) % n \in 0 .. n - 1 /\ (j - 1) \div n \in 0 .. r - 1
  <2>1. n # 0
    BY <1>1
  <2> DEFINE Q == (j - 1) \div n
             R == (j - 1) % n
  <2>2. R \in 0 .. n - 1 /\ Q \in Int /\ j - 1 = n * Q + R
    BY <1>1, <2>1, Division
  <2> HIDE DEF Q, R
  <2>3. CASE Q < 0
    <3>1. n * Q <= n * (-1)
      BY <2>2, <2>3
    <3> QED BY <1>1, <2>2, <3>1
  <2>4. CASE Q >= r
    <3>1. n * Q >= n * r
      BY <2>2, <2>4
    <3> QED BY <1>1, <2>2, <3>1
  <2> QED BY <2>2, <2>3, <2>4 DEF Q, R
<1>3. ASSUME NEW a \in 0 .. n - 1, NEW b \in 0 .. r - 1
      PROVE  \E j \in 1 .. r * n : (j - 1) % n = a /\ (j - 1) \div n = b
  <2> DEFINE j == n * b + a + 1
  <2>1. n * b \in Nat /\ n * b <= n * (r - 1) /\ n * (r - 1) = n * r - n
    OBVIOUS
  <2>2. j \in 1 .. r * n /\ j - 1 = n * b + a
    BY <1>1, <2>1
  <2> HIDE DEF j
  <2>3. (j - 1) % n = a /\ (j - 1) \div n = b
    <3>1. n \in Nat \ {0} /\ j - 1 \in Int /\ b \in Int
      BY <2>2
    <3> QED BY <2>2, <3>1, Division
  <2> QED BY <2>2, <2>3
<1> QED BY <1>2, <1>3

\* Stepping by one from any number on visits every remainder.
LEMMA EveryRemainder ==
  ASSUME NEW n \in Nat \ {0}, NEW a \in Int, NEW i \in 0 .. n - 1
  PROVE  \E r \in 0 .. n - 1 : (a + r) % n = i
<1> DEFINE q == (i - a) \div n
           r == (i - a) % n
<1>1. r \in 0 .. n - 1 /\ q \in Int /\ i - a = n * q + r
  BY Division
<1> HIDE DEF q, r
<1>2. n * (-q) = -(n * q)
  BY <1>1
<1>3. a + r \in Int /\ -q \in Int /\ a + r = n * (-q) + i
  BY <1>1, <1>2
<1>4. (a + r) % n = i
  BY <1>3, Division
<1> QED BY <1>1, <1>4
\* How many places and elements a sequence has.
LEMMA SequenceCounts ==
  ASSUME NEW S, NEW s \in Seq(S)
  PROVE  /\ IsFiniteSet(1..Len(s)) /\ Cardinality(1..Len(s)) = Len(s)
         /\ IsFiniteSet(Range(s)) /\ Cardinality(Range(s)) \in Nat
         /\ IsInjective(s) => Cardinality(Range(s)) = Len(s)
<1>1. Len(s) \in Nat /\ s \in [1..Len(s) -> Range(s)] /\ 1 \in Int /\ Len(s) \in Int
  BY DEF Range
<1>2. IsFiniteSet(1..Len(s)) /\ Cardinality(1..Len(s)) = Len(s)
  <2>1. /\ IsFiniteSet(1..Len(s))
        /\ Cardinality(1..Len(s)) = IF 1 > Len(s) THEN 0 ELSE Len(s) - 1 + 1
    BY <1>1, FS_Interval
  <2> QED BY <1>1, <2>1
<1>3. s \in Surjection(1..Len(s), Range(s))
  BY <1>1 DEF Surjection, Range
<1>4. /\ IsFiniteSet(Range(s))
      /\ Cardinality(Range(s)) = Cardinality(1..Len(s)) <=> s \in Injection(1..Len(s), Range(s))
  BY <1>2, <1>3, FS_Surjection
<1>5. IsInjective(s) => s \in Injection(1..Len(s), Range(s))
  BY <1>1 DEF IsInjective, Injection
<1> QED BY <1>2, <1>4, <1>5, FS_CardinalityType

\* The invocation of role for a request of the trace.
InvocationOf(s, asked, role) ==
    LET layout == LayoutSpec(s.model, role, predecessors(asked.graph, role))
    IN  [id |-> asked.request_id, role |-> role, graph |-> graph_identity(asked.graph),
         layout |-> layout, input_ids |-> InputIds(s, layout)]

InvocationsOf(s) ==
    UNION {{InvocationOf(s, asked, role) : role \in Roles(asked.graph)} : asked \in Range(s.trace)}

\* The turns of a benchmark's loops.
TurnsOf(s) ==
    {turn \in [invocation : InvocationsOf(s), instance : Instances] :
        \E position \in 0 .. Len(s.trace) - 1, repetition \in 0 .. s.repetitions - 1 :
            turn \in Range(plan(s, position, repetition))}

\* Of some lists of one length there is one that no other precedes: keep, for
\* one place after the other, those that have the least number there.
LEMMA LexicographicLeast ==
  ASSUME NEW n \in Nat, NEW T \in SUBSET [1..n -> Nat], T # {}
  PROVE  \E t \in T : \A u \in T : \A k \in 1..n :
             ~ (u[k] < t[k] /\ \A j \in 1 .. k - 1 : u[j] = t[j])
<1> DEFINE Before(u, t, k) == u[k] < t[k] /\ \A j \in 1 .. k - 1 : u[j] = t[j]
           Best(t, k) == \A u \in T : \A m \in 1..k : ~ Before(u, t, m)
           I == {k \in 0..n : ~ \E t \in T : Best(t, k)}
<1>1. I = {}
  <2> SUFFICES ASSUME I # {} PROVE FALSE
    OBVIOUS
  <2>1. PICK k \in I : \A m \in I : k <= m
    <3>1. I \in SUBSET Nat
      OBVIOUS
    <3> HIDE DEF I
    <3> QED BY <3>1, LeastNumber
  <2>2. k \in 0..n /\ ~ \E t \in T : Best(t, k)
    BY <2>1
  <2>3. CASE k = 0
    <3>1. 1..0 = {}
      OBVIOUS
    <3> HIDE DEF Before
    <3> QED BY <2>2, <2>3, <3>1
  <2>4. CASE k # 0
    <3>1. k - 1 \in 0..n /\ ~ (k <= k - 1) /\ k \in 1..n
      BY <2>2, <2>4
    <3>2. PICK t \in T : Best(t, k - 1)
      <4> HIDE DEF Best
      <4> QED BY <2>1, <3>1
    <3> DEFINE Alike == {u \in T : \A j \in 1 .. k - 1 : u[j] = t[j]}
               there == {u[k] : u \in Alike}
    <3>3. there \in SUBSET Nat /\ t[k] \in there
      <4>1. \A u \in T : u[k] \in Nat
        BY <3>1
      <4>2. t \in Alike /\ Alike \subseteq T
        OBVIOUS
      <4> HIDE DEF Alike, Before, Best, I
      <4> QED BY <4>1, <4>2
    <3>4. PICK least \in there : \A x \in there : least <= x
      <4> HIDE DEF there
      <4> QED BY <3>3, LeastNumber
    <3>5. PICK u \in Alike : u[k] = least
      BY <3>4
    <3>6. ASSUME NEW w \in T, NEW m \in 1..k, Before(w, u, m) PROVE FALSE
      <4>1. CASE m = k
        <5>1. w \in Alike /\ w[k] < u[k]
          BY <3>5, <3>6, <4>1
        <5>2. w[k] \in there
          BY <5>1
        <5>3. least <= w[k] /\ least \in Nat /\ w[k] \in Nat /\ w[k] < least
          <6> HIDE DEF there, Alike, Before
          <6> QED BY <3>3, <3>4, <3>5, <5>1, <5>2
        <5>4. \A a, b \in Nat : ~ (a <= b /\ b < a)
          OBVIOUS
        <5> HIDE DEF there, Alike, Before, Best, I
        <5> QED BY <5>3, <5>4, Zenon
      <4>2. CASE m # k
        <5>1. m \in 1 .. k - 1 /\ \A j \in 1 .. m - 1 : j \in 1 .. k - 1
          BY <3>1, <4>2
        <5>2. Before(w, t, m)
          BY <3>5, <3>6, <5>1
        <5>3. \A x \in T : \A l \in 1 .. k - 1 : ~ Before(x, t, l)
          BY <3>2, Zenon
        <5> HIDE DEF Before, Best, I, Alike, there
        <5> QED BY <5>1, <5>2, <5>3
      <4> QED BY <4>1, <4>2
    <3> HIDE DEF Before
    <3> QED BY <2>2, <3>5, <3>6
  <2> QED BY <2>3, <2>4
<1>2. n \in 0..n
  OBVIOUS
<1> HIDE DEF Best
<1>3. \E t \in T : Best(t, n)
  BY <1>1, <1>2
<1> QED BY <1>3 DEF Best

\* A dag has a least order, so topological_order is one.
LEMMA LeastOrderExists ==
  ASSUME NEW g, IsDag(g), g.active_roles \in Seq(Nat)
  PROVE  /\ topological_order(g) \in SetToSeqs(Roles(g))
         /\ IsLeastOrder(g, topological_order(g))
<1> DEFINE n == Cardinality(Roles(g))
           T == {s \in SetToSeqs(Roles(g)) : Respects(g, s)}
<1>1. n \in Nat /\ Roles(g) \subseteq Nat
  <2>1. n \in Nat
    BY SequenceCounts DEF Roles
  <2> QED BY <2>1 DEF Roles, Range
<1>2. SetToSeqs(Roles(g)) \subseteq [1..n -> Nat]
  BY <1>1 DEF SetToSeqs
<1>3. T \in SUBSET [1..n -> Nat] /\ T # {}
  BY <1>2 DEF IsDag
<1>4. \A s \in T : Len(s) = n
  BY <1>1, <1>3
<1> HIDE DEF n
<1>5. PICK s \in T : \A u \in T : \A k \in 1..n :
          ~ (u[k] < s[k] /\ \A j \in 1 .. k - 1 : u[j] = s[j])
  <2> HIDE DEF T
  <2> QED BY <1>1, <1>3, LexicographicLeast
<1>6. s \in SetToSeqs(Roles(g)) /\ Respects(g, s)
  OBVIOUS
<1>7. ASSUME NEW u \in SetToSeqs(Roles(g)), Respects(g, u) PROVE ~ Precedes(u, s)
  <2>1. u \in T
    BY <1>7
  <2> HIDE DEF T
  <2> QED BY <1>4, <1>5, <2>1 DEF Precedes
<1>8. IsLeastOrder(g, s)
  BY <1>6, <1>7 DEF IsLeastOrder
<1> QED BY <1>6, <1>8 DEF topological_order

\* The order of a graph's agents is a sequence of them.
LEMMA OrderType ==
  ASSUME NEW n \in 1..Len(Arguments), NEW asked \in Range(Arguments[n].trace)
  PROVE  topological_order(asked.graph) \in Seq(Roles(asked.graph))
<1> DEFINE g == asked.graph
<1>1. g.active_roles \in Seq(Nat) /\ IsDag(g)
  BY TraceAssumption
<1>2. topological_order(g) \in SetToSeqs(Roles(g))
  BY <1>1, LeastOrderExists
<1>3. IsFiniteSet(Roles(g))
  BY <1>1, SequenceCounts DEF Roles
<1>4. Cardinality(Roles(g)) \in Nat
  BY <1>3, FS_CardinalityType
<1>5. topological_order(g) \in [1..Cardinality(Roles(g)) -> Roles(g)]
  BY <1>2 DEF SetToSeqs
<1> QED BY <1>4, <1>5, IsASeq, SeqDef

\* Every placement names an instance; a stable one depends on the role only.
LEMMA PlaceType ==
  ASSUME NEW n \in 1..Len(Arguments), NEW asked \in Range(Arguments[n].trace),
         NEW role \in Roles(asked.graph), NEW position \in Nat, NEW repetition \in Nat
  PROVE  Place(Arguments[n], role, position, repetition) \in Instances
<1> DEFINE base == RoleSum[role] % InstanceCount
<1>1. RoleSum[role] \in Int /\ InstanceCount \in Nat \ {0}
  BY TraceAssumption, BenchmarkAssumption
<1>2. base \in 0 .. InstanceCount - 1
  BY <1>1, Division
<1> HIDE DEF base
<1>3. base + position + repetition \in Int
  BY <1>1, <1>2
<1>4. (base + position + repetition) % InstanceCount \in 0 .. InstanceCount - 1
  BY <1>1, <1>3, Division
<1> QED BY <1>2, <1>4 DEF Place, Instances, base

\* plan is a sequence of turns of the benchmark.
LEMMA PlanType ==
  ASSUME NEW n \in 1..Len(Arguments),
         NEW position \in 0 .. Len(Arguments[n].trace) - 1,
         NEW repetition \in 0 .. Arguments[n].repetitions - 1
  PROVE  /\ plan(Arguments[n], position, repetition) \in Seq(TurnsOf(Arguments[n]))
         /\ LET asked == Arguments[n].trace[position + 1]
                roles == topological_order(asked.graph)
            IN  /\ Len(plan(Arguments[n], position, repetition)) = Len(roles)
                /\ \A j \in 1..Len(roles) :
                    plan(Arguments[n], position, repetition)[j] =
                        [invocation |-> InvocationOf(Arguments[n], asked, roles[j]),
                         instance |-> Place(Arguments[n], roles[j], position, repetition)]
<1> DEFINE s == Arguments[n]
           asked == s.trace[position + 1]
           roles == topological_order(asked.graph)
           steps == plan(s, position, repetition)
<1>1. s.trace \in Seq(Range(s.trace)) /\ s.repetitions \in Int
  BY TraceAssumption
<1>2. asked \in Range(s.trace)
  BY <1>1
<1>3. roles \in Seq(Roles(asked.graph))
  BY <1>2, OrderType
<1>4. Len(roles) \in Nat /\ \A j \in 1..Len(roles) : roles[j] \in Roles(asked.graph)
  BY <1>3
<1>5. position \in Nat /\ repetition \in Nat
  BY <1>1
<1> HIDE DEF asked, roles
<1>6. /\ DOMAIN steps = 1..Len(roles)
      /\ \A j \in 1..Len(roles) :
            steps[j] = [invocation |-> InvocationOf(s, asked, roles[j]),
                        instance |-> Place(s, roles[j], position, repetition)]
  BY <1>4 DEF plan, InvocationOf, layouts_for_graph, asked, roles
<1>7. steps = [j \in 1..Len(roles) |-> steps[j]]
  BY <1>6 DEF plan, asked, roles
<1>8. ASSUME NEW j \in 1..Len(roles) PROVE steps[j] \in TurnsOf(s)
  <2>1. roles[j] \in Roles(asked.graph) /\ asked \in Range(s.trace)
    BY <1>2, <1>4
  <2> HIDE DEF s
  <2>2. InvocationOf(s, asked, roles[j]) \in InvocationsOf(s)
    <3>1. InvocationOf(s, asked, roles[j]) \in {InvocationOf(s, asked, role) : role \in Roles(asked.graph)}
      BY <2>1
    <3> QED BY <2>1, <3>1, Zenon DEF InvocationsOf
  <2>3. Place(s, roles[j], position, repetition) \in Instances
    BY <1>5, <2>1, PlaceType DEF s
  <2>4. steps[j] \in Range(steps)
    BY <1>6 DEF Range
  <2>5. steps[j] \in [invocation : InvocationsOf(s), instance : Instances]
    BY <1>6, <2>2, <2>3
  <2>6. position \in 0 .. Len(s.trace) - 1 /\ repetition \in 0 .. s.repetitions - 1
    BY DEF s
  <2> QED BY <2>4, <2>5, <2>6 DEF TurnsOf
<1> HIDE DEF steps
<1>9. steps \in Seq(TurnsOf(s)) /\ Len(steps) = Len(roles)
  BY <1>4, <1>6, <1>7, <1>8, IsASeq
<1> QED BY <1>6, <1>9 DEF steps, asked, roles

\* A schedule consists of the turns of the benchmark's loops, all of them.
LEMMA ScheduleTurns ==
  ASSUME NEW n \in 1..Len(Arguments)
  PROVE  /\ Schedules[n] \in Seq(TurnsOf(Arguments[n]))
         /\ \A position \in 0 .. Len(Arguments[n].trace) - 1,
               repetition \in 0 .. Arguments[n].repetitions - 1 :
                Range(plan(Arguments[n], position, repetition)) \subseteq Range(Schedules[n])
<1> DEFINE s == Arguments[n]
           length == Len(s.trace)
           plans == [j \in 1 .. s.repetitions * length |->
                        plan(s, (j - 1) % length, (j - 1) \div length)]
<1>1. s.trace \in Seq(Range(s.trace)) /\ s.repetitions \in Int /\ length \in Nat
  BY TraceAssumption
<1>2. Schedules[n] = FlattenSeq(plans)
  BY DEF Schedules, Schedule
<1>3. plans \in Seq(Seq(TurnsOf(s))) /\ \A j \in 1 .. s.repetitions * length : j \in 1..Len(plans)
  <2>1. ASSUME NEW j \in 1 .. s.repetitions * length PROVE plans[j] \in Seq(TurnsOf(s))
    <3>1. (j - 1) % length \in 0 .. length - 1 /\ (j - 1) \div length \in 0 .. s.repetitions - 1
      BY <1>1, LoopIndex
    <3> QED BY <3>1, PlanType
  <2> HIDE DEF s, length
  <2>2. s.repetitions * length \in Int
    BY <1>1
  <2> DEFINE size == IF s.repetitions * length >= 0 THEN s.repetitions * length ELSE 0
  <2>3. size \in Nat /\ 1 .. s.repetitions * length = 1..size
    BY <2>2
  <2>4. DOMAIN plans = 1..size /\ plans \in [1..size -> Seq(TurnsOf(s))]
    BY <2>1, <2>3
  <2> HIDE DEF plans, size
  <2>5. plans \in Seq(Seq(TurnsOf(s))) /\ Len(plans) = size
    BY <2>3, <2>4, IsASeq
  <2> QED BY <2>3, <2>5
<1>4. ASSUME NEW position \in 0 .. length - 1, NEW repetition \in 0 .. s.repetitions - 1
      PROVE  Range(plan(s, position, repetition)) \subseteq Range(Schedules[n])
  <2>1. PICK j \in 1 .. s.repetitions * length :
            (j - 1) % length = position /\ (j - 1) \div length = repetition
    BY <1>1, LoopIndex
  <2>2. plans[j] = plan(s, position, repetition) /\ j \in 1..Len(plans)
    BY <1>3, <2>1
  <2> HIDE DEF plans, s, length
  <2>3. Range(plans[j]) \subseteq Range(FlattenSeq(plans))
    BY <1>3, <2>2, FlattenProperties
  <2> QED BY <1>2, <2>2, <2>3
<1>5. Schedules[n] \in Seq(TurnsOf(s))
  <2> HIDE DEF plans, s
  <2> QED BY <1>2, <1>3, FlattenProperties
<1> QED BY <1>4, <1>5
---------------------------------------------------------------------------
(***************************************************************************)
(* What invocations, keys and placements determine.                        *)
(***************************************************************************)

\* The fields of a planned invocation.
LEMMA InvocationFields ==
  ASSUME NEW s, NEW q \in InvocationsOf(s)
  PROVE  \E asked \in Range(s.trace) : \E role \in Roles(asked.graph) :
            /\ q = InvocationOf(s, asked, role)
            /\ q.role = role /\ q.graph = graph_identity(asked.graph)
            /\ q.layout = LayoutSpec(s.model, role, predecessors(asked.graph, role))
            /\ q.input_ids = InputIds(s, q.layout)
            /\ q.layout.consumer_role = role
<1>1. PICK asked \in Range(s.trace) :
        q \in {InvocationOf(s, asked, role) : role \in Roles(asked.graph)}
  BY Zenon DEF InvocationsOf
<1>2. PICK role \in Roles(asked.graph) : q = InvocationOf(s, asked, role)
  BY <1>1
<1>3. /\ q.role = role /\ q.graph = graph_identity(asked.graph)
      /\ q.layout = LayoutSpec(s.model, role, predecessors(asked.graph, role))
      /\ q.input_ids = InputIds(s, q.layout)
  BY <1>2 DEF InvocationOf
<1>4. q.layout.consumer_role = role
  BY <1>3 DEF LayoutSpec
<1> QED BY <1>2, <1>3, <1>4

\* For one model, an agent of a graph has one layout, however the trace lists
\* the agents and edges of the graph.
LEMMA SameAgentSameLayout ==
  ASSUME NEW s, NEW t, NEW q \in InvocationsOf(s), NEW r \in InvocationsOf(t),
         s.model = t.model, q.graph = r.graph, q.role = r.role
  PROVE  q.layout = r.layout
<1>1. PICK a \in Range(s.trace) :
        /\ q.graph = graph_identity(a.graph)
        /\ q.layout = LayoutSpec(s.model, q.role, predecessors(a.graph, q.role))
  BY InvocationFields
<1>2. PICK b \in Range(t.trace) :
        /\ r.graph = graph_identity(b.graph)
        /\ r.layout = LayoutSpec(t.model, r.role, predecessors(b.graph, r.role))
  BY InvocationFields
<1>3. Roles(a.graph) = Roles(b.graph) /\ Range(a.graph.edges) = Range(b.graph.edges)
  <2>1. \A g : graph_identity(g).active_roles = Roles(g) /\ graph_identity(g).edges = Range(g.edges)
    BY DEF graph_identity
  <2>2. graph_identity(a.graph) = graph_identity(b.graph)
    BY <1>1, <1>2
  <2> QED BY <2>1, <2>2
<1>4. predecessors(a.graph, q.role) = predecessors(b.graph, r.role)
  BY <1>3 DEF predecessors
<1> QED BY <1>1, <1>2, <1>4

\* A layout determines the role it is for and, for one number of tokens, the
\* prompt.
LEMMA SameLayoutSamePrompt ==
  ASSUME NEW s, NEW t, NEW q \in InvocationsOf(s), NEW r \in InvocationsOf(t),
         q.layout = r.layout
  PROVE  /\ q.role = r.role
         /\ s.prompt_tokens = t.prompt_tokens => q.input_ids = r.input_ids
<1>1. q.input_ids = InputIds(s, q.layout) /\ q.layout.consumer_role = q.role
  BY InvocationFields
<1>2. r.input_ids = InputIds(t, r.layout) /\ r.layout.consumer_role = r.role
  BY InvocationFields
<1> QED BY <1>1, <1>2 DEF InputIds

\* The turn a plan holds for a role.
LEMMA TurnFields ==
  ASSUME NEW n \in 1..Len(Arguments), NEW turn \in TurnsOf(Arguments[n])
  PROVE  \E position \in 0 .. Len(Arguments[n].trace) - 1,
            repetition \in 0 .. Arguments[n].repetitions - 1 :
            LET asked == Arguments[n].trace[position + 1]
                roles == topological_order(asked.graph)
            IN  \E j \in 1..Len(roles) :
                    turn = [invocation |-> InvocationOf(Arguments[n], asked, roles[j]),
                            instance |-> Place(Arguments[n], roles[j], position, repetition)]
<1> DEFINE s == Arguments[n]
<1>1. PICK position \in 0 .. Len(s.trace) - 1, repetition \in 0 .. s.repetitions - 1 :
        turn \in Range(plan(s, position, repetition))
  BY DEF TurnsOf
<1> DEFINE asked == s.trace[position + 1]
           roles == topological_order(asked.graph)
           steps == plan(s, position, repetition)
<1>2. /\ steps \in Seq(TurnsOf(s)) /\ Len(steps) = Len(roles)
      /\ \A j \in 1..Len(roles) :
            steps[j] = [invocation |-> InvocationOf(s, asked, roles[j]),
                        instance |-> Place(s, roles[j], position, repetition)]
  BY PlanType
<1> HIDE DEF s, asked, roles, steps
<1>3. PICK j \in 1..Len(steps) : turn = steps[j]
  BY <1>1, <1>2 DEF Range, steps
<1> QED BY <1>2, <1>3 DEF s, asked, roles, steps

\* Stable placement depends on the role alone.
LEMMA StablePlace ==
  ASSUME NEW n \in 1..Len(Arguments), NEW turn \in TurnsOf(Arguments[n]),
         Arguments[n].placement = "stable"
  PROVE  turn.instance = RoleSum[turn.invocation.role] % InstanceCount
<1>1. PICK asked, role, position, repetition :
        turn = [invocation |-> InvocationOf(Arguments[n], asked, role),
                instance |-> Place(Arguments[n], role, position, repetition)]
  BY TurnFields
<1>2. turn.invocation.role = role
  BY <1>1 DEF InvocationOf
<1> QED BY <1>1, <1>2 DEF Place

\* Round-robin placement brings every invocation to every instance, once there
\* are as many repetitions as instances.
LEMMA RoundRobinPlace ==
  ASSUME NEW n \in 1..Len(Arguments), NEW turn \in TurnsOf(Arguments[n]),
         Arguments[n].placement = "round_robin", Arguments[n].repetitions >= InstanceCount,
         NEW i \in Instances
  PROVE  \E other \in Range(Schedules[n]) :
            other.invocation = turn.invocation /\ other.instance = i
<1> DEFINE s == Arguments[n]
<1>1. PICK position \in 0 .. Len(s.trace) - 1, repetition \in 0 .. s.repetitions - 1 :
        LET asked == s.trace[position + 1]
            roles == topological_order(asked.graph)
        IN  \E j \in 1..Len(roles) :
                turn = [invocation |-> InvocationOf(s, asked, roles[j]),
                        instance |-> Place(s, roles[j], position, repetition)]
  BY TurnFields
<1> DEFINE asked == s.trace[position + 1]
           roles == topological_order(asked.graph)
<1>2. PICK j \in 1..Len(roles) :
        turn = [invocation |-> InvocationOf(s, asked, roles[j]),
                instance |-> Place(s, roles[j], position, repetition)]
  BY <1>1
<1>3. s.trace \in Seq(Range(s.trace)) /\ s.repetitions \in Int /\ InstanceCount \in Nat \ {0}
  BY TraceAssumption, BenchmarkAssumption
<1>4. asked \in Range(s.trace)
  BY <1>3
<1>5. roles \in Seq(Roles(asked.graph)) /\ roles[j] \in Roles(asked.graph)
  <2>1. roles \in Seq(Roles(asked.graph))
    BY <1>4, OrderType
  <2> QED BY <1>2, <2>1, ElementOfSeq
<1>6. RoleSum[roles[j]] \in Int
  <2>1. \A role \in Roles(asked.graph) : RoleSum[role] \in Nat
    BY <1>4, TraceAssumption
  <2> HIDE DEF roles, asked
  <2> QED BY <1>5, <2>1
<1> DEFINE base == RoleSum[roles[j]] % InstanceCount
<1>7. base \in Int
  <2> HIDE DEF roles
  <2> QED BY <1>3, <1>6, Division
<1>8. PICK r \in 0 .. InstanceCount - 1 : (base + position + r) % InstanceCount = i
  <2> HIDE DEF base, s
  <2>1. base + position \in Int /\ i \in 0 .. InstanceCount - 1
    BY <1>3, <1>7 DEF Instances
  <2> QED BY <1>3, <2>1, EveryRemainder
<1>9. r \in 0 .. s.repetitions - 1
  BY <1>3
<1> DEFINE other == [invocation |-> InvocationOf(s, asked, roles[j]),
                     instance |-> Place(s, roles[j], position, r)]
<1>10. other.invocation = turn.invocation /\ other.instance = i
  BY <1>2, <1>8 DEF Place
<1>11. other \in Range(plan(s, position, r))
  <2> DEFINE steps == plan(s, position, r)
  <2>1. steps \in Seq(TurnsOf(s)) /\ Len(steps) = Len(roles) /\ steps[j] = other
    BY <1>9, PlanType
  <2> HIDE DEF s, roles, other, steps
  <2>2. steps[j] \in Range(steps)
    BY <2>1 DEF Range
  <2> QED BY <2>1, <2>2 DEF steps
<1>12. Range(plan(s, position, r)) \subseteq Range(Schedules[n])
  BY <1>9, ScheduleTurns
<1> QED BY <1>10, <1>11, <1>12
---------------------------------------------------------------------------
(***************************************************************************)
(* The inductive invariant.                                                *)
(***************************************************************************)

\* The turn of a sample, and the key of its state.
ScheduleOf(p) == Schedules[launched[p]]
TurnKey(p, j) == state_key(args(p).policy, ScheduleOf(p)[j].invocation)

Decisions == {"local_hit", "remote_hit", "recompute"}

Rows ==
    [request_id : {q.id : q \in Requests}, graph : {q.graph : q \in Requests},
     role : {q.role : q \in Requests}, layout : {q.layout : q \in Requests},
     instance : Instances, decision : Decisions]

\* The command line of a process determines what its managers are.
SettingInv ==
    /\ launched \in Launches
    /\ \A m \in Managers : config[m] = [policy |-> args(m[1]).policy, remote_store |-> TRUE,
                                        fetch_admission |-> FALSE]
    /\ \A m \in Managers : rejected[m] = FALSE

\* The samples are those of the first turns of the schedule.
SampleInv ==
    /\ samples \in [Processes -> Seq(Rows)]
    /\ \A p \in Processes : Len(samples[p]) <= Len(ScheduleOf(p))
    /\ \A p \in Processes : \A j \in 1..Len(samples[p]) :
        samples[p][j] = Sample(ScheduleOf(p)[j].invocation, ScheduleOf(p)[j].instance, samples[p][j])

\* A process acquires at the manager its turn names, for that turn's
\* invocation, and what the manager returns answers it.
TurnInv ==
    /\ phase \in [Processes -> {"next", "acquiring", "summarized"} \cup Failures]
    /\ \A p \in Processes :
        /\ phase[p] = "acquiring" => HasTurn(p)
        /\ phase[p] = "summarized" => ~ HasTurn(p)
        /\ Acquired(p) /\ result[Manager(p)].kind = "returned"
            => result[Manager(p)].asked = Turn(p).invocation
    /\ \A m \in Managers :
        pc[m] # "idle" => /\ phase[m[1]] = "acquiring" /\ m = Manager(m[1])
                          /\ request[m] = Turn(m[1]).invocation

\* What a manager has returned came from the key it names.
ResultInv ==
    \A m \in Managers :
        result[m].kind = "returned" =>
            /\ result[m].key = state_key(config[m].policy, result[m].asked)
            /\ result[m].decision \in Decisions
            /\ config[m].policy = "reset" => result[m].decision = "recompute"

\* m has returned a state that its process has still to restore under key k.
ToRestore(m, k) ==
    /\ Acquired(m[1]) /\ m = Manager(m[1])
    /\ result[m].kind = "returned" /\ result[m].decision # "local_hit"
    /\ result[m].key = k

\* The GPU has what a manager holds, except for a state that has just been
\* returned and not been restored yet.
GpuInv ==
    /\ gpu_states \in [Managers -> [StateKeys -> Requests \cup {None}]]
    /\ \A m \in Managers, k \in StateKeys :
        local[m][k] # None => gpu_states[m][k] = local[m][k].payload \/ ToRestore(m, k)

\* A state found under a key was published by a process of the key's policy.
Origin(key, state) ==
    \E o \in Processes :
        state \in InvocationsOf(args(o)) /\ key = state_key(args(o).policy, state)

OriginInv ==
    /\ \A k \in StateKeys : records[k] # None => Origin(k, records[k].payload)
    /\ \A put \in late : Origin(put.key, put.payload)
    /\ \A m \in Managers, k \in StateKeys : local[m][k] # None => Origin(k, local[m][k].payload)
    /\ \A m \in Managers :
        /\ pc[m] = "admit" /\ reply[m].value # None => Origin(KeyOf(m), reply[m].value.payload)
        /\ result[m].kind = "returned" => Origin(result[m].key, result[m].payload)

\* m has found nothing in the store.
Missed(m) ==
    \/ pc[m] = "admit" /\ reply[m].value = None
    \/ pc[m] \in {"compute", "publish", "remember"}
    \/ pc[m] = "idle" /\ result[m].kind = "returned" /\ result[m].decision = "recompute"

\* No sample of p has the state of its turn.
FirstOfItsKey(p) ==
    \A j \in 1..Len(samples[p]) : TurnKey(p, j) # TurnKey(p, Len(samples[p]) + 1)

\* Until the store loses a record it has all that was ever held or sampled,
\* so that what is missed there has not been sampled.
HeldIsSaved(m) ==
    /\ \A k \in StateKeys : local[m][k] # None => records[k] # None
    /\ pc[m] = "admit" /\ reply[m].value # None => records[KeyOf(m)] # None
    /\ pc[m] = "remember" => records[KeyOf(m)] # None

SampledIsSaved(p) ==
    args(p).policy # "reset" =>
        /\ \A j \in 1..Len(samples[p]) : records[TurnKey(p, j)] # None
        /\ phase[p] = "acquiring" /\ Missed(Manager(p)) => FirstOfItsKey(p)

AllSaved ==
    /\ \A m \in Managers : HeldIsSaved(m)
    /\ \A p \in Processes : SampledIsSaved(p)

SavedInv == ~ lost => AllSaved

\* What is placed on an instance, and whether the local cache has room for it.
PlannedKeys(p, i) ==
    {state_key(args(p).policy, turn.invocation) :
        turn \in {turn \in Range(ScheduleOf(p)) : turn.instance = i}}

Roomy(p, i) ==
    /\ args(p).policy # "reset" /\ args(p).placement = "stable"
    /\ Cardinality(PlannedKeys(p, i)) <= MaxLocal

\* With stable placement and room, what was sampled stays in the local cache,
\* so that what is missed there has not been sampled.
StableAt(p, i) ==
    /\ Range(local_order[<<p, i>>]) \subseteq PlannedKeys(p, i)
    /\ \A j \in 1..Len(samples[p]) :
        samples[p][j].instance = i => local[<<p, i>>][TurnKey(p, j)] # None
    /\ /\ phase[p] = "acquiring" /\ Manager(p) = <<p, i>>
       /\ pc[<<p, i>>] = "idle" => /\ result[<<p, i>>].kind = "returned"
                                   /\ result[<<p, i>>].decision # "local_hit"
       => FirstOfItsKey(p)

StableInv == \A p \in Processes, i \in Instances : Roomy(p, i) => StableAt(p, i)

\* Every decision that was counted is that of a sample or of the next one.
Counter(decision) ==
    CASE decision = "local_hit" -> "local_hits"
      [] decision = "remote_hit" -> "remote_hits"
      [] OTHER -> "recomputes"

Decided(p, i, decision) ==
    {j \in 1..Len(samples[p]) : samples[p][j].instance = i /\ samples[p][j].decision = decision}

Undelivered(p, i, decision) ==
    /\ Acquired(p) /\ Manager(p) = <<p, i>>
    /\ result[<<p, i>>].kind = "returned" /\ result[<<p, i>>].decision = decision

CountedAt(p, i, d) ==
    phase[p] \in {"next", "acquiring", "summarized"} =>
        stats[<<p, i>>][Counter(d)] =
            Cardinality(Decided(p, i, d)) + (IF Undelivered(p, i, d) THEN 1 ELSE 0)

CountInv == \A p \in Processes, i \in Instances, d \in Decisions : CountedAt(p, i, d)

BenchInv ==
    /\ IInv /\ SettingInv /\ SampleInv /\ TurnInv /\ ResultInv
    /\ GpuInv /\ OriginInv /\ SavedInv /\ StableInv /\ CountInv
    /\ ChecksFireOnlyAcrossSettings /\ PrefillsAreSaved /\ StableStaysLocal
---------------------------------------------------------------------------
(***************************************************************************)
(* Turns.                                                                  *)
(***************************************************************************)

\* The schedule of a process and its places.
LEMMA ScheduleOfType ==
  ASSUME launched \in Launches, NEW p \in Processes
  PROVE  /\ launched[p] \in 1..Len(Arguments)
         /\ args(p).policy \in Policies
         /\ ScheduleOf(p) \in Seq(TurnsOf(args(p)))
         /\ \A j \in 1..Len(ScheduleOf(p)) :
            /\ ScheduleOf(p)[j] \in TurnsOf(args(p))
            /\ ScheduleOf(p)[j].invocation \in InvocationsOf(args(p))
            /\ ScheduleOf(p)[j].invocation \in Requests
            /\ ScheduleOf(p)[j].instance \in Instances
            /\ TurnKey(p, j) \in StateKeys
<1>1. launched[p] \in 1..Len(Arguments) /\ args(p).policy \in Policies
  BY BenchmarkAssumption DEF args
<1>2. ScheduleOf(p) \in Seq(TurnsOf(args(p)))
  BY <1>1, ScheduleTurns DEF ScheduleOf, args
<1>3. ASSUME NEW j \in 1..Len(ScheduleOf(p))
      PROVE  /\ ScheduleOf(p)[j] \in TurnsOf(args(p))
             /\ ScheduleOf(p)[j].invocation \in InvocationsOf(args(p))
             /\ ScheduleOf(p)[j].invocation \in Requests
             /\ ScheduleOf(p)[j].instance \in Instances
             /\ TurnKey(p, j) \in StateKeys
  <2> DEFINE turn == ScheduleOf(p)[j]
  <2>1. turn \in TurnsOf(args(p))
    BY <1>2
  <2>2. turn.invocation \in InvocationsOf(args(p)) /\ turn.instance \in Instances
    BY <2>1 DEF TurnsOf
  <2>3. turn \in Range(Schedules[launched[p]])
    BY <1>2 DEF Range, ScheduleOf
  <2>4. Schedules[launched[p]] \in Range(Schedules)
    BY <1>1 DEF Schedules, Range
  <2>5. turn \in UNION {Range(schedule) : schedule \in Range(Schedules)}
    BY <2>3, <2>4
  <2> HIDE DEF turn
  <2>6. turn.invocation \in Requests
    BY <2>5, BenchmarkAssumption, Zenon DEF Invocations
  <2>7. TurnKey(p, j) \in StateKeys
    BY <1>1, <2>6, KeyType DEF TurnKey, turn
  <2> QED BY <2>1, <2>2, <2>6, <2>7 DEF turn
<1> QED BY <1>1, <1>2, <1>3

\* A manager is a process and an instance.
LEMMA ManagerPairs ==
  /\ \A p \in Processes, i \in Instances :
        <<p, i>> \in Managers /\ <<p, i>>[1] = p /\ <<p, i>>[2] = i
  /\ \A m \in Managers : m[1] \in Processes /\ m[2] \in Instances /\ m = <<m[1], m[2]>>
BY BenchmarkAssumption

\* The turn of a process, when it has one.
LEMMA TurnType ==
  ASSUME SettingInv, SampleInv, NEW p \in Processes, HasTurn(p)
  PROVE  /\ Len(samples[p]) + 1 \in 1..Len(ScheduleOf(p))
         /\ Turn(p) = ScheduleOf(p)[Len(samples[p]) + 1]
         /\ Turn(p) \in TurnsOf(args(p))
         /\ Turn(p).invocation \in InvocationsOf(args(p))
         /\ Turn(p).invocation \in Requests /\ Turn(p).instance \in Instances
         /\ Manager(p) \in Managers /\ Manager(p)[1] = p /\ Manager(p)[2] = Turn(p).instance
         /\ config[Manager(p)].policy = args(p).policy
         /\ TurnKey(p, Len(samples[p]) + 1) = state_key(args(p).policy, Turn(p).invocation)
<1>1. launched \in Launches /\ samples[p] \in Seq(Rows)
  BY DEF SettingInv, SampleInv
<1>2. ScheduleOf(p) \in Seq(TurnsOf(args(p)))
  BY <1>1, ScheduleOfType
<1>3. Len(samples[p]) + 1 \in 1..Len(ScheduleOf(p))
  BY <1>1, <1>2 DEF HasTurn, ScheduleOf
<1>4. Turn(p) = ScheduleOf(p)[Len(samples[p]) + 1]
  BY DEF Turn, ScheduleOf
<1>5. /\ Turn(p) \in TurnsOf(args(p))
      /\ Turn(p).invocation \in InvocationsOf(args(p))
      /\ Turn(p).invocation \in Requests /\ Turn(p).instance \in Instances
  BY <1>1, <1>3, <1>4, ScheduleOfType
<1>6. /\ Manager(p) \in Managers /\ Manager(p)[1] = p /\ Manager(p)[2] = Turn(p).instance
  BY <1>5, ManagerPairs DEF Manager
<1>7. config[Manager(p)].policy = args(p).policy
  <2>1. config[Manager(p)] = [policy |-> args(Manager(p)[1]).policy, remote_store |-> TRUE,
                              fetch_admission |-> FALSE]
    BY <1>6, Zenon DEF SettingInv
  <2>2. config[Manager(p)].policy = args(Manager(p)[1]).policy
    BY <2>1
  <2> QED BY <1>6, <2>2
<1> QED BY <1>3, <1>4, <1>5, <1>6, <1>7 DEF TurnKey

\* An acquire under way is that of the process's turn.
LEMMA UnderWay ==
  ASSUME SettingInv, SampleInv, TurnInv, NEW p \in Processes, phase[p] = "acquiring"
  PROVE  /\ HasTurn(p)
         /\ pc[Manager(p)] # "idle" => KeyOf(Manager(p)) = TurnKey(p, Len(samples[p]) + 1)
<1>1. HasTurn(p)
  BY DEF TurnInv
<1>2. Manager(p) \in Managers /\ Manager(p)[1] = p /\ config[Manager(p)].policy = args(p).policy
      /\ TurnKey(p, Len(samples[p]) + 1) = state_key(args(p).policy, Turn(p).invocation)
  BY <1>1, TurnType
<1>3. pc[Manager(p)] # "idle" => request[Manager(p)] = Turn(p).invocation
  BY <1>2 DEF TurnInv
<1> QED BY <1>1, <1>2, <1>3 DEF KeyOf
---------------------------------------------------------------------------
(***************************************************************************)
(* What the rest of an acquire may do, step by step.                       *)
(***************************************************************************)

\* _remember only drops entries besides adding its own, and drops none while
\* all the keys are among no more than max_local_entries.
LEMMA RememberEffect ==
  ASSUME CacheInv, NEW m \in Managers, NEW key \in StateKeys, NEW record, _remember(m, key, record)
  PROVE  /\ \A k \in StateKeys \ {key} : local'[m][k] \in {None, local[m][k]}
         /\ Range(local_order'[m]) \subseteq Range(local_order[m]) \cup {key}
         /\ \A T : /\ IsFiniteSet(T) /\ Cardinality(T) <= MaxLocal
                   /\ Range(local_order[m]) \cup {key} \subseteq T
                   => \A k \in StateKeys \ {key} : local'[m][k] = local[m][k]
<1> DEFINE keys == _touch(local_order[m], key)
           evicted == Max({0, Len(keys) - MaxLocal})
           kept == SubSeq(keys, evicted + 1, Len(keys))
<1>1. local_order[m] \in Seq(StateKeys) /\ IsInjective(local_order[m])
  BY DEF CacheInv, LocalCacheConsistent
<1>2. /\ keys \in Seq(StateKeys) /\ IsInjective(keys)
      /\ Range(keys) = Range(local_order[m]) \cup {key}
  BY <1>1, ToEndProperties DEF _touch
<1> HIDE DEF keys
<1>3. Len(keys) \in Nat /\ MaxLocal \in Nat \ {0}
  BY <1>2, ManagerAssumption
<1>4. evicted = IF Len(keys) > MaxLocal THEN Len(keys) - MaxLocal ELSE 0
  BY <1>3 DEF Max
<1> HIDE DEF evicted
<1>5. /\ local_order'[m] = kept
      /\ \A k \in StateKeys : local'[m][k] = IF \E i \in 1..evicted : keys[i] = k THEN None
                                             ELSE IF k = key THEN record ELSE local[m][k]
  BY DEF _remember, CacheInv, keys, evicted
<1>6. evicted \in 0..Len(keys)
  BY <1>3, <1>4
<1>7. Range(kept) \subseteq Range(keys)
  BY <1>2, <1>6, DropOldestProperties
<1>8. ASSUME NEW T, IsFiniteSet(T), Cardinality(T) <= MaxLocal, Range(keys) \subseteq T
      PROVE  evicted = 0
  <2>1. IsFiniteSet(Range(keys)) /\ Cardinality(Range(keys)) = Len(keys)
    BY <1>2, SequenceCounts
  <2>2. Cardinality(Range(keys)) <= Cardinality(T) /\ Cardinality(T) \in Nat
    BY <1>8, FS_Subset, FS_CardinalityType
  <2> QED BY <1>3, <1>4, <1>8, <2>1, <2>2
<1>9. evicted = 0 => \A k \in StateKeys \ {key} : local'[m][k] = local[m][k]
  BY <1>5
<1> QED BY <1>2, <1>5, <1>7, <1>8, <1>9

\* Every manager but m, and all configurations, are as they were.
OthersKept(m) ==
    /\ config' = config
    /\ \A n \in Managers \ {m} :
        /\ pc'[n] = pc[n] /\ request'[n] = request[n] /\ reply'[n] = reply[n]
        /\ result'[n] = result[n] /\ stats'[n] = stats[n]
        /\ local'[n] = local[n] /\ local_order'[n] = local_order[n]

\* The acquire goes on, raises, or returns a state.
GoesOn(m) ==
    /\ pc'[m] # "idle" /\ request'[m] = request[m] /\ result'[m] = result[m]
    /\ local' = local /\ local_order' = local_order /\ stats' = stats

Fails(m) ==
    /\ pc'[m] = "idle" /\ result'[m].kind = "raised"
    /\ local' = local /\ local_order' = local_order /\ stats' = stats

Returns(m, decision, state, version) ==
    /\ pc'[m] = "idle"
    /\ result'[m] = Access(request[m], decision, KeyOf(m), state, version)
    /\ Count(m, Counter(decision))
    /\ decision = "remote_hit" => /\ pc[m] = "admit"
                                  /\ reply[m].value = [version |-> version, payload |-> state]
    /\ decision = "recompute" =>
            /\ state = request[m]
            /\ pc[m] = IF config[m].policy = "reset" THEN "compute" ELSE "remember"
    /\ IF config[m].policy = "reset"
       THEN decision = "recompute" /\ local' = local /\ local_order' = local_order
       ELSE /\ [version |-> version, payload |-> state] \in Records
            /\ _remember(m, KeyOf(m), [version |-> version, payload |-> state])

\* What the command line makes of a manager.
LEMMA SettingOf ==
  ASSUME SettingInv, NEW m \in Managers
  PROVE  /\ config[m].policy = args(m[1]).policy
         /\ config[m].remote_store = TRUE /\ config[m].fetch_admission = FALSE
         /\ rejected[m] = FALSE
<1>1. /\ config[m] = [policy |-> args(m[1]).policy, remote_store |-> TRUE,
                      fetch_admission |-> FALSE]
      /\ rejected[m] = FALSE
  BY Zenon DEF SettingInv
<1> QED BY <1>1

\* Only m moves, and its request is not a rejected one.
LEMMA ProceedFrame ==
  ASSUME IInv, SettingInv, NEW m \in Managers, Proceed(m)
  PROVE  /\ pc[m] # "idle" /\ OthersKept(m)
         /\ \A n \in Managers : rejected'[n] = FALSE
<1> USE DEF Goto, EndFrame, Return, Raise, DropReply, Count, _remember, Computed,
            IInv, ManagerInv, CacheInv, FrameTypes, OthersKept, cacheVars, storeVars, lateVars
<1>1. config[m].remote_store = TRUE /\ config[m].fetch_admission = FALSE
      /\ \A n \in Managers : rejected[n] = FALSE
  BY SettingOf
<1>2. CASE Fetch(m)
  BY <1>1, <1>2 DEF Fetch, Store!Get, Store!Answer
<1>3. CASE AdmitHit(m)
  BY <1>1, <1>3 DEF AdmitHit
<1>4. CASE AdmitReject(m)
  BY <1>1, <1>4 DEF AdmitReject
<1>5. CASE AdmitMiss(m)
  BY <1>1, <1>5 DEF AdmitMiss
<1>6. CASE ComputeRaises(m)
  BY <1>1, <1>6 DEF ComputeRaises
<1>7. CASE ComputeReset(m)
  BY <1>1, <1>7 DEF ComputeReset
<1>8. CASE ComputeUnshared(m)
  BY <1>1, <1>8 DEF ComputeUnshared
<1>9. CASE ComputeShared(m)
  BY <1>1, <1>9 DEF ComputeShared
<1>10. CASE Publish(m)
  BY <1>1, <1>10 DEF Publish, Store!Put, Store!Answer
<1>11. CASE PublishRefused(m)
  BY <1>1, <1>11 DEF PublishRefused, Store!PutInvalid, Store!Answer
<1>12. CASE PublishReturn(m)
  BY <1>1, <1>12 DEF PublishReturn
<1>13. CASE CallFails(m)
  BY <1>1, <1>13 DEF CallFails
<1>14. CASE PublishAbandoned(m)
  BY <1>1, <1>14 DEF PublishAbandoned
<1>15. CASE FetchAbandoned(m)
  BY <1>1, <1>15 DEF FetchAbandoned
<1> QED BY <1>2, <1>3, <1>4, <1>5, <1>6, <1>7, <1>8, <1>9, <1>10, <1>11, <1>12, <1>13, <1>14, <1>15
        DEF Proceed
\* An acquire goes on, raises, or returns what it fetched or computed.
LEMMA ProceedOutcome ==
  ASSUME IInv, SettingInv, NEW m \in Managers, Proceed(m)
  PROVE  \/ GoesOn(m) \/ Fails(m)
         \/ \E d \in {"remote_hit", "recompute"}, q \in Requests, v \in Nat : Returns(m, d, q, v)
<1>1. config[m].remote_store = TRUE /\ config[m].fetch_admission = FALSE /\ rejected[m] = FALSE
  BY SettingOf
<1>2. pc \in [Managers -> {"idle", "fetch", "admit", "compute", "publish", "remember"}]
  BY DEF IInv, ManagerInv, FrameTypes
<1>3. result \in [Managers -> Results]
  BY DEF IInv, ManagerInv, FrameTypes
<1>4. reply[m] \in Replies /\ payload[m] \in Requests \cup {None}
  BY DEF IInv, ManagerInv, FrameTypes
<1>5. pc[m] # "idle" => request[m] \in Requests /\ KeyOf(m) \in StateKeys
  BY KeyOfType DEF IInv, ManagerInv
<1>6. ASSUME Raise(m) PROVE Fails(m)
  BY <1>2, <1>3, <1>6 DEF Raise, EndFrame, Goto, Fails, cacheVars
<1>7. CASE Fetch(m)
  BY <1>2, <1>7 DEF Fetch, GoesOn, Goto, cacheVars
<1>8. CASE AdmitHit(m)
  <2> DEFINE remote == reply[m].value
  <2>1. remote \in Records /\ pc[m] = "admit" /\ request[m] \in Requests
    BY <1>4, <1>5, <1>8 DEF AdmitHit, Replies
  <2>2. remote = [version |-> remote.version, payload |-> remote.payload]
        /\ remote.version \in Nat /\ remote.payload \in Requests
    BY <2>1 DEF Records
  <2>3. config[m].policy # "reset"
    BY <2>1 DEF IInv, ManagerInv, FramesMatch
  <2>4. /\ _remember(m, KeyOf(m), remote) /\ Count(m, "remote_hits") /\ pc'[m] = "idle"
        /\ result'[m] = Access(request[m], "remote_hit", KeyOf(m), remote.payload, remote.version)
    BY <1>2, <1>3, <1>8 DEF AdmitHit, Return, EndFrame, Goto
  <2> HIDE DEF remote
  <2>5. Returns(m, "remote_hit", remote.payload, remote.version)
    BY <2>1, <2>2, <2>3, <2>4 DEF Returns, Counter, remote
  <2> QED BY <2>2, <2>5
<1>9. CASE AdmitReject(m)
  BY <1>1, <1>9 DEF AdmitReject
<1>10. CASE AdmitMiss(m)
  BY <1>2, <1>10 DEF AdmitMiss, GoesOn, Goto, cacheVars
<1>11. CASE \/ ComputeRaises(m) \/ CallFails(m) \/ PublishRefused(m)
            \/ FetchAbandoned(m) \/ PublishAbandoned(m)
  BY <1>6, <1>11 DEF ComputeRaises, CallFails, PublishRefused, FetchAbandoned, PublishAbandoned
<1>12. CASE ComputeReset(m)
  <2>1. /\ pc[m] = "compute" /\ config[m].policy = "reset" /\ request[m] \in Requests
        /\ local' = local /\ local_order' = local_order /\ pc'[m] = "idle"
        /\ Count(m, "recomputes")
        /\ result'[m] = Access(request[m], "recompute", KeyOf(m), request[m], 0)
    BY <1>2, <1>3, <1>5, <1>12 DEF ComputeReset, Return, EndFrame, Goto, cacheVars
  <2>2. Returns(m, "recompute", request[m], 0)
    BY <2>1 DEF Returns, Counter
  <2> QED BY <2>1, <2>2
<1>13. CASE ComputeUnshared(m)
  BY <1>1, <1>13 DEF ComputeUnshared
<1>14. CASE ComputeShared(m)
  BY <1>2, <1>14 DEF ComputeShared, Computed, GoesOn, Goto, cacheVars
<1>15. CASE Publish(m)
  BY <1>2, <1>15 DEF Publish, GoesOn, Goto, cacheVars
<1>16. CASE PublishReturn(m)
  <2> DEFINE record == reply[m].value
  <2>1. pc[m] = "remember" /\ request[m] \in Requests /\ payload[m] # None
    BY <1>5, <1>16 DEF PublishReturn, IInv, ManagerInv, FrameTypes
  <2>2. record # None /\ record.payload = payload[m] /\ payload[m] = request[m]
        /\ config[m].policy # "reset"
    BY <2>1 DEF IInv, ManagerInv, FramesMatch
  <2>3. record \in Records
    BY <1>4, <2>2 DEF Replies
  <2>4. record = [version |-> record.version, payload |-> request[m]] /\ record.version \in Nat
    BY <2>2, <2>3 DEF Records
  <2>5. /\ _remember(m, KeyOf(m), record) /\ Count(m, "recomputes") /\ pc'[m] = "idle"
        /\ result'[m] = Access(request[m], "recompute", KeyOf(m), request[m], record.version)
    BY <1>1, <1>2, <1>3, <1>16, <2>2 DEF PublishReturn, Return, EndFrame, Goto
  <2> HIDE DEF record
  <2>6. Returns(m, "recompute", request[m], record.version)
    BY <2>1, <2>2, <2>3, <2>4, <2>5 DEF Returns, Counter
  <2> QED BY <2>1, <2>4, <2>6
<1> QED BY <1>7, <1>8, <1>9, <1>10, <1>11, <1>12, <1>13, <1>14, <1>15, <1>16 DEF Proceed

\* The store's records and the late puts after a step of m, what m knows of
\* them, and how it comes to miss a state.
StoreEffect(m) ==
    /\ \A k \in StateKeys :
        \/ records'[k] \in {None, records[k]}
        \/ k = KeyOf(m) /\ config[m].policy # "reset" /\ records'[k].payload = request[m]
    /\ \A put \in late' :
        \/ put \in late
        \/ put.key = KeyOf(m) /\ config[m].policy # "reset" /\ put.payload = request[m]
    /\ pc'[m] = "admit" => reply'[m].value = records[KeyOf(m)] /\ records' = records
    /\ pc'[m] = "remember" => records'[KeyOf(m)] # None
    /\ pc[m] = "admit" => records' = records
    /\ pc'[m] \in {"compute", "publish", "remember"} => Missed(m)

LEMMA ProceedStore ==
  ASSUME IInv, SettingInv, NEW m \in Managers, Proceed(m)
  PROVE  StoreEffect(m)
<1>1. config[m].fetch_admission = FALSE /\ config[m].remote_store = TRUE
  BY SettingOf
<1>2. pc \in [Managers -> {"idle", "fetch", "admit", "compute", "publish", "remember"}]
      /\ reply \in [Managers -> Replies]
  BY DEF IInv, ManagerInv, FrameTypes
<1>3. pc[m] # "idle" => request[m] \in Requests /\ KeyOf(m) \in StateKeys
  BY KeyOfType DEF IInv, ManagerInv
<1>4. ASSUME UNCHANGED storeVars, pc'[m] \notin {"admit", "remember"},
             pc'[m] \in {"compute", "publish", "remember"} => Missed(m)
      PROVE  StoreEffect(m)
  BY <1>4 DEF StoreEffect, storeVars, lateVars
<1>5. ASSUME Raise(m) PROVE pc'[m] = "idle"
  BY <1>2, <1>5 DEF Raise, EndFrame, Goto
<1>6. CASE Fetch(m)
  <2>1. pc'[m] = "admit" /\ records' = records /\ late' = late /\ pc[m] = "fetch"
    BY <1>2, <1>6 DEF Fetch, Goto, Store!Get, Store!TouchOnGet, lateVars
  <2>2. reply'[m].value = records[KeyOf(m)]
    <3>1. reply' = [reply EXCEPT ![m] = [kind |-> "returned", key |-> KeyOf(m),
                                        value |-> records[KeyOf(m)]]]
      BY <1>3, <1>6, <2>1, GetStore DEF Fetch, IInv
    <3> QED BY <1>2, <3>1
  <2> QED BY <2>1, <2>2 DEF StoreEffect
<1>7. CASE AdmitHit(m) \/ AdmitMiss(m) \/ ComputeReset(m) \/ ComputeShared(m) \/ PublishReturn(m)
  <2>1. UNCHANGED storeVars
    BY <1>7 DEF AdmitHit, AdmitMiss, ComputeReset, ComputeShared, Computed, PublishReturn
  <2>2. pc'[m] \notin {"admit", "remember"}
    BY <1>2, <1>7 DEF AdmitHit, AdmitMiss, ComputeReset, ComputeShared, Computed, PublishReturn,
                      Return, EndFrame, Goto
  <2>3. pc'[m] # "idle" => AdmitMiss(m) \/ ComputeShared(m)
    BY <1>2, <1>7 DEF AdmitHit, ComputeReset, PublishReturn, Return, EndFrame, Goto
  <2>4. pc'[m] # "idle" => Missed(m)
    BY <2>3 DEF AdmitMiss, ComputeShared, Missed
  <2> QED BY <1>4, <2>1, <2>2, <2>4
<1>8. CASE AdmitReject(m) \/ ComputeUnshared(m)
  BY <1>1, <1>8 DEF AdmitReject, ComputeUnshared
<1>9. CASE ComputeRaises(m) \/ CallFails(m) \/ PublishRefused(m)
  <2>1. UNCHANGED storeVars
    BY <1>9 DEF ComputeRaises, CallFails, PublishRefused, Store!PutInvalid, Store!storeVars, storeVars,
                 lateVars
  <2>2. pc'[m] = "idle"
    BY <1>5, <1>9 DEF ComputeRaises, CallFails, PublishRefused
  <2> QED BY <1>4, <2>1, <2>2
<1>10. CASE Publish(m)
  <2>1. pc[m] = "publish" /\ pc'[m] = "remember" /\ late' = late /\ late_gets' = late_gets
        /\ Store!Write(KeyOf(m), payload[m])
    BY <1>2, <1>10 DEF Publish, Goto, Store!Put, lateVars
  <2>2. payload[m] = request[m] /\ config[m].policy # "reset"
    BY <2>1 DEF IInv, ManagerInv, FrameTypes, FramesMatch
  <2>3. /\ request[m] \in Requests /\ KeyOf(m) \in StateKeys
        /\ config[m].policy \in Policies \ {"reset"}
    BY <2>1, <2>2, KeyOfType DEF IInv, ManagerInv
  <2>4. SharedUnder(KeyOf(m), request[m])
    BY <2>3, PublishedKeyIsOwn DEF KeyOf
  <2> DEFINE record == Store!NextRecord(KeyOf(m), request[m])
  <2>5. /\ records'[KeyOf(m)] = record
        /\ \A k \in StateKeys \ {KeyOf(m)} : records'[k] \in {None, records[k]}
    BY <2>1, <2>2, <2>3, <2>4, WriteStore DEF IInv
  <2>6. record \in Records /\ record.payload = request[m]
    BY <2>3, NextRecordType DEF IInv
  <2> HIDE DEF record
  <2>7. record # None
    BY <2>6, NoneIsNoState
  <2> QED BY <2>1, <2>2, <2>5, <2>6, <2>7 DEF StoreEffect, Missed
<1>11. CASE PublishAbandoned(m)
  <2>1. pc[m] = "publish" /\ pc'[m] = "idle" /\ records' = records
        /\ late' = late \cup {[key |-> KeyOf(m), payload |-> payload[m],
                               call |-> <<m, acquires[m]>>]}
    BY <1>5, <1>11 DEF PublishAbandoned
  <2>2. payload[m] = request[m] /\ config[m].policy # "reset"
    BY <2>1 DEF IInv, ManagerInv, FrameTypes, FramesMatch
  <2> QED BY <2>1, <2>2 DEF StoreEffect
<1>12. CASE FetchAbandoned(m)
  <2>1. pc[m] = "fetch" /\ pc'[m] = "idle" /\ records' = records /\ late' = late
    BY <1>5, <1>12 DEF FetchAbandoned
  <2> QED BY <2>1 DEF StoreEffect
<1> QED BY <1>6, <1>7, <1>8, <1>9, <1>10, <1>11, <1>12 DEF Proceed
\* A new acquire finds its state in the local cache, or it does not.
Hits(m, q) ==
    LET key == state_key(config[m].policy, q) IN
    /\ config[m].policy # "reset" /\ local[m][key] # None
    /\ pc' = pc /\ request' = request
    /\ result'[m] = Access(q, "local_hit", key, local[m][key].payload, local[m][key].version)
    /\ local_order' = [local_order EXCEPT ![m] = _touch(local_order[m], key)]
    /\ Count(m, "local_hits")

Starts(m, q) ==
    /\ pc'[m] = IF config[m].policy = "reset" THEN "compute" ELSE "fetch"
    /\ config[m].policy # "reset" => local[m][state_key(config[m].policy, q)] = None
    /\ request'[m] = q /\ result'[m] = NoResult
    /\ local_order' = local_order /\ stats' = stats

LEMMA StartOutcome ==
  ASSUME IInv, SettingInv, NEW m \in Managers, NEW q \in Requests,
         AcquireReset(m, q) \/ AcquireLocalHit(m, q) \/ AcquireMiss(m, q)
  PROVE  /\ pc[m] = "idle" /\ OthersKept(m)
         /\ Hits(m, q) \/ Starts(m, q)
         /\ records' = records /\ late' = late /\ reply' = reply /\ local' = local
         /\ rejected' = rejected
<1> USE DEF Enter, StartFrame, Goto, Count, IInv, ManagerInv, CacheInv, FrameTypes, OthersKept,
            cacheVars, storeVars, lateVars, frameVars
<1>1. config[m].remote_store = TRUE
  BY SettingOf
<1>2. CASE AcquireReset(m, q)
  BY <1>1, <1>2 DEF AcquireReset, Starts
<1>3. CASE AcquireLocalHit(m, q)
  BY <1>1, <1>3 DEF AcquireLocalHit, Hits
<1>4. CASE AcquireMiss(m, q)
  BY <1>1, <1>4 DEF AcquireMiss, Starts
<1> QED BY <1>2, <1>3, <1>4

---------------------------------------------------------------------------
(***************************************************************************)
(* The processes are users of their managers.                              *)
(***************************************************************************)

\* What is fixed when a process is launched.
LEMMA LaunchKept ==
  ASSUME launched' = launched
  PROVE  /\ \A p : args(p)' = args(p)
         /\ \A p : ScheduleOf(p)' = ScheduleOf(p)
         /\ \A p, j : TurnKey(p, j)' = TurnKey(p, j)
BY DEF args, ScheduleOf, TurnKey

\* A process that records no sample keeps its turn.
LEMMA TurnKept ==
  ASSUME launched' = launched, NEW p, samples'[p] = samples[p]
  PROVE  /\ HasTurn(p)' <=> HasTurn(p)
         /\ Turn(p)' = Turn(p) /\ Manager(p)' = Manager(p)
BY DEF HasTurn, Turn, Manager

\* Every step of a benchmark, and of what befalls the server, is a step of
\* the managers and their store.
LEMMA ManagerStep ==
  ASSUME SettingInv, SampleInv, TurnInv, [BenchNext]_allVars
  PROVE  [Next]_vars
<1>1. ASSUME NEW p \in Processes, StartAcquire(p) PROVE Next
  <2>1. Manager(p) \in Managers /\ Turn(p).invocation \in Requests
    BY <1>1, TurnType DEF StartAcquire
  <2> QED BY <1>1, <2>1 DEF StartAcquire, Next
<1>2. ASSUME NEW p \in Processes, GoOn(p) PROVE Next
  <2>1. Manager(p) \in Managers
    BY <1>2, TurnType DEF GoOn, TurnInv
  <2> QED BY <1>2, <2>1 DEF GoOn, Next
<1>3. ASSUME NEW p \in Processes, AcquireRaised(p) \/ Deliver(p) \/ Summarize(p)
      PROVE  UNCHANGED vars
  BY <1>3 DEF AcquireRaised, Deliver, Summarize
<1>4. ASSUME Surroundings PROVE Next
  BY <1>4 DEF Surroundings, Next
<1>5. CASE UNCHANGED allVars
  BY <1>5 DEF allVars
<1> QED BY <1>1, <1>2, <1>3, <1>4, <1>5 DEF BenchNext, Run, Step
\* What the further invariants rest on.
Basic == IInv /\ SettingInv /\ SampleInv /\ TurnInv /\ ResultInv

\* Processes do not share managers.
LEMMA OtherProcess ==
  ASSUME SettingInv, SampleInv, NEW p \in Processes, HasTurn(p),
         NEW o \in Processes \ {p}, HasTurn(o)
  PROVE  Manager(o) \in Managers \ {Manager(p)}
<1>1. Manager(p)[1] = p /\ Manager(o)[1] = o /\ Manager(o) \in Managers
  BY TurnType
<1> QED BY <1>1

\* No sample is recorded.
LEMMA SampleKept ==
  ASSUME SampleInv, launched' = launched, samples' = samples
  PROVE  SampleInv'
BY LaunchKept DEF SampleInv, Sample

\* No manager is reconfigured.
LEMMA SettingKept ==
  ASSUME SettingInv, launched' = launched, config' = config,
         \A m \in Managers : rejected'[m] = FALSE
  PROVE  SettingInv'
BY LaunchKept DEF SettingInv

\* A turn's acquire begins.
LEMMA StartBasic ==
  ASSUME Basic, NEW p \in Processes, StartAcquire(p), IInv'
  PROVE  Basic'
<1> DEFINE m == Manager(p)
           q == Turn(p).invocation
<1>1. /\ phase[p] = "next" /\ HasTurn(p) /\ launched' = launched /\ samples' = samples
      /\ phase' = [phase EXCEPT ![p] = "acquiring"]
  BY DEF StartAcquire, Become
<1>2. m \in Managers /\ m[1] = p /\ q \in Requests
  BY <1>1, TurnType DEF Basic
<1>3. /\ pc[m] = "idle" /\ OthersKept(m) /\ rejected' = rejected
      /\ Hits(m, q) \/ Starts(m, q)
  BY <1>2, StartOutcome DEF StartAcquire, Basic
<1>4. \A o : (HasTurn(o)' <=> HasTurn(o)) /\ Turn(o)' = Turn(o) /\ Manager(o)' = Manager(o)
  BY <1>1, TurnKept
<1> HIDE DEF m, q
<1>5. phase \in [Processes -> {"next", "acquiring", "summarized"} \cup Failures]
  BY DEF Basic, TurnInv
<1>6. SettingInv'
  BY <1>1, <1>3, SettingKept, SettingOf DEF OthersKept, Basic
<1>7. SampleInv'
  BY <1>1, SampleKept DEF Basic
<1>8. ResultInv'
  <2>1. ASSUME NEW n \in Managers \ {m} PROVE result'[n] = result[n] /\ config'[n] = config[n]
    BY <1>3 DEF OthersKept
  <2>2. CASE Starts(m, q)
    <3>1. result'[m].kind # "returned"
      BY <2>2 DEF Starts, NoResult
    <3> QED BY <2>1, <3>1 DEF Basic, ResultInv
  <2>3. CASE Hits(m, q)
    <3>1. result'[m].key = state_key(config'[m].policy, result'[m].asked)
          /\ result'[m].decision \in Decisions /\ config'[m].policy # "reset"
      BY <1>3, <2>3 DEF Hits, Access, Decisions, OthersKept
    <3> QED BY <2>1, <3>1 DEF Basic, ResultInv
  <2> QED BY <1>3, <2>2, <2>3
<1>9. TurnInv'
  <2>1. phase' \in [Processes -> {"next", "acquiring", "summarized"} \cup Failures]
    BY <1>1, <1>5
  <2>2. ASSUME NEW o \in Processes
        PROVE  /\ phase'[o] = "acquiring" => HasTurn(o)'
               /\ phase'[o] = "summarized" => ~ HasTurn(o)'
    BY <1>1, <1>4, <1>5 DEF Basic, TurnInv
  <2>3. ASSUME NEW o \in Processes, Acquired(o)', result'[Manager(o)].kind = "returned"
        PROVE  result'[Manager(o)].asked = Turn(o).invocation
    <3>1. phase'[o] = "acquiring" /\ pc'[Manager(o)] = "idle"
      BY <1>4, <2>3 DEF Acquired
    <3>2. CASE o = p
      <4>1. CASE Hits(m, q)
        BY <3>2, <4>1 DEF Hits, Access, m, q
      <4>2. CASE Starts(m, q)
        BY <3>1, <3>2, <4>2 DEF Starts, m
      <4> QED BY <1>3, <4>1, <4>2
    <3>3. CASE o # p
      <4>1. phase[o] = "acquiring" /\ HasTurn(o)
        BY <1>1, <1>5, <3>1, <3>3 DEF Basic, TurnInv
      <4>2. Manager(o) \in Managers \ {m}
        BY <1>1, <3>3, <4>1, OtherProcess DEF m, Basic
      <4>3. pc'[Manager(o)] = pc[Manager(o)] /\ result'[Manager(o)] = result[Manager(o)]
        BY <1>3, <4>2 DEF OthersKept
      <4> QED BY <2>3, <3>1, <4>1, <4>3 DEF Basic, TurnInv, Acquired
    <3> QED BY <3>2, <3>3
  <2>4. ASSUME NEW n \in Managers, pc'[n] # "idle"
        PROVE  /\ phase'[n[1]] = "acquiring" /\ n = Manager(n[1])
               /\ request'[n] = Turn(n[1]).invocation
    <3>1. CASE n = m
      <4>1. Starts(m, q)
        BY <1>3, <2>4, <3>1 DEF Hits
      <4> QED BY <1>1, <1>2, <1>5, <3>1, <4>1 DEF Starts, m, q
    <3>2. CASE n # m
      <4>1. pc[n] # "idle" /\ request'[n] = request[n]
        BY <1>3, <2>4, <3>2 DEF OthersKept
      <4>2. phase[n[1]] = "acquiring" /\ n = Manager(n[1]) /\ request[n] = Turn(n[1]).invocation
        BY <4>1 DEF Basic, TurnInv
      <4>3. n[1] # p
        BY <1>1, <4>2
      <4> QED BY <1>1, <1>5, <4>1, <4>2, <4>3
    <3> QED BY <3>1, <3>2
  <2> QED BY <1>4, <2>1, <2>2, <2>3, <2>4 DEF TurnInv
<1> QED BY <1>6, <1>7, <1>8, <1>9 DEF Basic
\* A turn's acquire goes on.
LEMMA GoOnBasic ==
  ASSUME Basic, NEW p \in Processes, GoOn(p), IInv'
  PROVE  Basic'
<1> DEFINE m == Manager(p)
<1>1. /\ phase[p] = "acquiring" /\ HasTurn(p) /\ launched' = launched /\ samples' = samples
      /\ phase' = phase /\ Proceed(m)
  BY DEF GoOn, benchVars, Basic, TurnInv
<1>2. m \in Managers /\ m[1] = p
  BY <1>1, TurnType DEF Basic
<1>3. pc[m] # "idle" /\ OthersKept(m) /\ \A n \in Managers : rejected'[n] = FALSE
  BY <1>1, <1>2, ProceedFrame DEF Basic
<1>4. \/ GoesOn(m) \/ Fails(m)
      \/ \E d \in {"remote_hit", "recompute"}, q \in Requests, v \in Nat : Returns(m, d, q, v)
  BY <1>1, <1>2, ProceedOutcome DEF Basic
<1>5. \A o : (HasTurn(o)' <=> HasTurn(o)) /\ Turn(o)' = Turn(o) /\ Manager(o)' = Manager(o)
  BY <1>1, TurnKept
<1> HIDE DEF m
<1>6. request[m] = Turn(p).invocation
  BY <1>2, <1>3 DEF Basic, TurnInv
<1>7. SettingInv'
  BY <1>1, <1>3, SettingKept DEF OthersKept, Basic
<1>8. SampleInv'
  BY <1>1, SampleKept DEF Basic
<1>9. result'[m].kind = "returned" =>
        /\ pc'[m] = "idle" => result'[m].asked = request[m]
        /\ result'[m].key = state_key(config[m].policy, result'[m].asked)
        /\ result'[m].decision \in Decisions
        /\ config[m].policy = "reset" => result'[m].decision = "recompute"
  <2>1. CASE GoesOn(m)
    BY <1>2, <2>1 DEF GoesOn, Basic, ResultInv
  <2>2. CASE Fails(m)
    BY <2>2 DEF Fails
  <2>3. ASSUME NEW d \in {"remote_hit", "recompute"}, NEW q \in Requests, NEW v \in Nat,
               Returns(m, d, q, v)
        PROVE  /\ result'[m].asked = request[m]
               /\ result'[m].key = state_key(config[m].policy, result'[m].asked)
               /\ result'[m].decision \in Decisions
               /\ config[m].policy = "reset" => result'[m].decision = "recompute"
    BY <2>3 DEF Returns, Access, KeyOf, Decisions
  <2> QED BY <1>4, <2>1, <2>2, <2>3
<1>10. ResultInv'
  <2>1. ASSUME NEW n \in Managers \ {m} PROVE result'[n] = result[n] /\ config'[n] = config[n]
    BY <1>3 DEF OthersKept
  <2>2. config'[m] = config[m]
    BY <1>3 DEF OthersKept
  <2> QED BY <1>9, <2>1, <2>2 DEF Basic, ResultInv
<1>11. TurnInv'
  <2>1. ASSUME NEW o \in Processes, Acquired(o)', result'[Manager(o)].kind = "returned"
        PROVE  result'[Manager(o)].asked = Turn(o).invocation
    <3>1. phase[o] = "acquiring" /\ pc'[Manager(o)] = "idle" /\ HasTurn(o)
      BY <1>1, <1>5, <2>1 DEF Acquired, Basic, TurnInv
    <3>2. CASE o = p
      BY <1>6, <1>9, <2>1, <3>1, <3>2 DEF m
    <3>3. CASE o # p
      <4>1. Manager(o) \in Managers \ {m}
        BY <1>1, <3>1, <3>3, OtherProcess DEF m, Basic
      <4>2. pc'[Manager(o)] = pc[Manager(o)] /\ result'[Manager(o)] = result[Manager(o)]
        BY <1>3, <4>1 DEF OthersKept
      <4> QED BY <2>1, <3>1, <4>2 DEF Basic, TurnInv, Acquired
    <3> QED BY <3>2, <3>3
  <2>2. ASSUME NEW n \in Managers, pc'[n] # "idle"
        PROVE  /\ phase'[n[1]] = "acquiring" /\ n = Manager(n[1])
               /\ request'[n] = Turn(n[1]).invocation
    <3>1. CASE n = m
      <4>1. request'[m] = request[m]
        BY <1>4, <2>2, <3>1 DEF GoesOn, Fails, Returns
      <4> QED BY <1>1, <1>2, <1>6, <3>1, <4>1 DEF m
    <3>2. CASE n # m
      BY <1>1, <1>3, <2>2, <3>2 DEF OthersKept, Basic, TurnInv
    <3> QED BY <3>1, <3>2
  <2> QED BY <1>1, <1>5, <2>1, <2>2 DEF TurnInv, Basic
<1> QED BY <1>7, <1>8, <1>10, <1>11 DEF Basic

\* No manager moves, and process p, whose manager is idle, leaves its turn.
LEMMA LeaveBasic ==
  ASSUME Basic, IInv', NEW p \in Processes, UNCHANGED vars, launched' = launched,
         phase[p] = "next" \/ Acquired(p),
         NEW f \in {"next", "summarized"} \cup Failures, phase' = [phase EXCEPT ![p] = f],
         f = "summarized" => ~ HasTurn(p)', SampleInv',
         \A o \in Processes \ {p} : samples'[o] = samples[o]
  PROVE  Basic'
<1>1. /\ pc' = pc /\ request' = request /\ result' = result /\ config' = config
      /\ rejected' = rejected
  BY DEF vars, frameVars
<1>2. phase \in [Processes -> {"next", "acquiring", "summarized"} \cup Failures]
  BY DEF Basic, TurnInv
<1>3. SettingInv'
  BY <1>1, SettingKept, SettingOf DEF Basic
<1>4. ResultInv'
  BY <1>1 DEF Basic, ResultInv
<1>5. f # "acquiring" /\ phase'[p] = f /\ \A o \in Processes \ {p} : phase'[o] = phase[o]
  BY <1>2 DEF Failures
<1>6. \A o \in Processes \ {p} :
        (HasTurn(o)' <=> HasTurn(o)) /\ Turn(o)' = Turn(o) /\ Manager(o)' = Manager(o)
  BY TurnKept
<1>7. TurnInv'
  <2>1. phase' \in [Processes -> {"next", "acquiring", "summarized"} \cup Failures]
    BY <1>2
  <2>2. ASSUME NEW o \in Processes
        PROVE  /\ phase'[o] = "acquiring" => HasTurn(o)'
               /\ phase'[o] = "summarized" => ~ HasTurn(o)'
    BY <1>5, <1>6 DEF Basic, TurnInv
  <2>3. ASSUME NEW o \in Processes, Acquired(o)', result'[Manager(o)'].kind = "returned"
        PROVE  result'[Manager(o)'].asked = (Turn(o)').invocation
    <3>1. o # p
      BY <1>5, <2>3 DEF Acquired
    <3>2. Acquired(o)
      BY <1>1, <1>5, <1>6, <2>3, <3>1 DEF Acquired
    <3> QED BY <1>1, <1>6, <2>3, <3>1, <3>2 DEF Basic, TurnInv
  <2>4. ASSUME NEW n \in Managers, pc'[n] # "idle"
        PROVE  /\ phase'[n[1]] = "acquiring" /\ n = Manager(n[1])'
               /\ request'[n] = (Turn(n[1])').invocation
    <3>1. /\ phase[n[1]] = "acquiring" /\ n = Manager(n[1])
          /\ request[n] = Turn(n[1]).invocation /\ n[1] \in Processes
      BY <1>1, <2>4, ManagerPairs DEF Basic, TurnInv
    <3>2. n[1] # p
      BY <1>1, <2>4, <3>1 DEF Acquired
    <3> QED BY <1>1, <1>5, <1>6, <3>1, <3>2
  <2> QED BY <2>1, <2>2, <2>3, <2>4 DEF TurnInv
<1> QED BY <1>3, <1>4, <1>7 DEF Basic
\* The state of the turn is delivered: p records a sample or stops.
Recorded(p) ==
    /\ phase' = [phase EXCEPT ![p] = "next"]
    /\ samples' = [samples EXCEPT ![p] =
            Append(@, Sample(Turn(p).invocation, Turn(p).instance, result[Manager(p)]))]

Stopped(p) ==
    /\ \E f \in {"KeyError", "wrong layout", "wrong tokens"} : phase' = [phase EXCEPT ![p] = f]
    /\ samples' = samples

LEMMA DeliverOutcome ==
  ASSUME Basic, NEW p \in Processes, Deliver(p)
  PROVE  /\ Acquired(p) /\ HasTurn(p) /\ UNCHANGED vars /\ launched' = launched
         /\ result[Manager(p)].kind = "returned"
         /\ result[Manager(p)].asked = Turn(p).invocation
         /\ result[Manager(p)].decision \in Decisions
         /\ gpu_states' = Kept(Manager(p), result[Manager(p)])
         /\ Recorded(p) \/ Stopped(p)
<1>1. /\ Acquired(p) /\ UNCHANGED vars /\ launched' = launched
      /\ result[Manager(p)].kind = "returned"
      /\ gpu_states' = Kept(Manager(p), result[Manager(p)])
  BY DEF Deliver
<1>2. HasTurn(p) /\ result[Manager(p)].asked = Turn(p).invocation
  BY <1>1 DEF Basic, TurnInv, Acquired
<1>3. Manager(p) \in Managers /\ Manager(p)[2] = Turn(p).instance
  BY <1>2, TurnType DEF Basic
<1>4. result[Manager(p)].decision \in Decisions
  BY <1>1, <1>3 DEF Basic, ResultInv
<1>5. Recorded(p) \/ Stopped(p)
  BY <1>3 DEF Deliver, Become, Recorded, Stopped
<1> QED BY <1>1, <1>2, <1>4, <1>5

\* The new sample is that of the turn.
LEMMA RecordSample ==
  ASSUME Basic, NEW p \in Processes, HasTurn(p), launched' = launched, Recorded(p),
         result[Manager(p)].decision \in Decisions
  PROVE  /\ SampleInv'
         /\ Len(samples'[p]) = Len(samples[p]) + 1
         /\ \A j \in 1..Len(samples[p]) : samples'[p][j] = samples[p][j]
         /\ samples'[p][Len(samples[p]) + 1].instance = Turn(p).instance
         /\ samples'[p][Len(samples[p]) + 1].decision = result[Manager(p)].decision
         /\ \A o \in Processes \ {p} : samples'[o] = samples[o]
<1> DEFINE q == Turn(p).invocation
           row == Sample(q, Turn(p).instance, result[Manager(p)])
           length == Len(samples[p])
<1>1. /\ samples \in [Processes -> Seq(Rows)]
      /\ \A o \in Processes : Len(samples[o]) <= Len(ScheduleOf(o))
      /\ \A o \in Processes : \A j \in 1..Len(samples[o]) :
            samples[o][j] = Sample(ScheduleOf(o)[j].invocation, ScheduleOf(o)[j].instance,
                                   samples[o][j])
  BY DEF Basic, SampleInv
<1>2. /\ length + 1 \in 1..Len(ScheduleOf(p)) /\ Turn(p) = ScheduleOf(p)[length + 1]
      /\ q \in Requests /\ Turn(p).instance \in Instances
  BY TurnType DEF Basic
<1>3. row \in Rows /\ row = Sample(q, Turn(p).instance, row)
      /\ row.instance = Turn(p).instance /\ row.decision = result[Manager(p)].decision
  BY <1>2 DEF Sample, Rows
<1>4. samples' = [samples EXCEPT ![p] = Append(samples[p], row)]
  BY DEF Recorded
<1> HIDE DEF row, q
<1>5. /\ samples' \in [Processes -> Seq(Rows)]
      /\ samples'[p] = Append(samples[p], row)
      /\ \A o \in Processes \ {p} : samples'[o] = samples[o]
  BY <1>1, <1>3, <1>4
<1>6. /\ Len(samples'[p]) = length + 1 /\ samples'[p][length + 1] = row
      /\ \A j \in 1..length : samples'[p][j] = samples[p][j]
  BY <1>1, <1>5
<1>7. SampleInv'
  <2>1. ASSUME NEW o \in Processes
        PROVE  /\ Len(samples'[o]) <= Len(ScheduleOf(o))
               /\ \A j \in 1..Len(samples'[o]) :
                    samples'[o][j] = Sample(ScheduleOf(o)[j].invocation, ScheduleOf(o)[j].instance,
                                            samples'[o][j])
    <3>1. CASE o # p
      BY <1>1, <1>5, <3>1
    <3>2. CASE o = p
      <4>1. Len(samples'[p]) <= Len(ScheduleOf(p))
        BY <1>2, <1>6
      <4>2. ASSUME NEW j \in 1..Len(samples'[p])
            PROVE  samples'[p][j] = Sample(ScheduleOf(p)[j].invocation, ScheduleOf(p)[j].instance,
                                           samples'[p][j])
        <5>1. j \in 1..length \/ j = length + 1
          BY <1>1, <1>6
        <5> QED BY <1>1, <1>2, <1>3, <1>6, <5>1 DEF q
      <4> QED BY <3>2, <4>1, <4>2
    <3> QED BY <3>1, <3>2
  <2>2. \A o : ScheduleOf(o)' = ScheduleOf(o)
    BY LaunchKept
  <2> QED BY <1>5, <2>1, <2>2 DEF SampleInv
<1> QED BY <1>3, <1>5, <1>6, <1>7

\* The other steps of a process.
LEMMA DeliverBasic ==
  ASSUME Basic, NEW p \in Processes, Deliver(p), IInv'
  PROVE  Basic'
<1>1. /\ Acquired(p) /\ HasTurn(p) /\ UNCHANGED vars /\ launched' = launched
      /\ result[Manager(p)].decision \in Decisions
      /\ Recorded(p) \/ Stopped(p)
  BY DeliverOutcome
<1>2. CASE Recorded(p)
  <2>1. SampleInv' /\ \A o \in Processes \ {p} : samples'[o] = samples[o]
    BY <1>1, <1>2, RecordSample
  <2> QED BY <1>1, <1>2, <2>1, LeaveBasic DEF Recorded
<1>3. CASE Stopped(p)
  <2>1. SampleInv' /\ \A o \in Processes \ {p} : samples'[o] = samples[o]
    BY <1>1, <1>3, SampleKept DEF Stopped, Basic
  <2>2. PICK f \in {"KeyError", "wrong layout", "wrong tokens"} : phase' = [phase EXCEPT ![p] = f]
    BY <1>3 DEF Stopped
  <2>3. f \in {"next", "summarized"} \cup Failures /\ f # "summarized"
    BY DEF Failures
  <2> QED BY <1>1, <2>1, <2>2, <2>3, LeaveBasic
<1> QED BY <1>1, <1>2, <1>3

LEMMA EndBasic ==
  ASSUME Basic, NEW p \in Processes, AcquireRaised(p) \/ Summarize(p), IInv'
  PROVE  Basic'
<1>1. UNCHANGED vars /\ launched' = launched /\ samples' = samples
  BY DEF AcquireRaised, Summarize
<1>2. SampleInv' /\ \A o \in Processes : HasTurn(o)' <=> HasTurn(o)
  BY <1>1, SampleKept, TurnKept DEF Basic
<1>3. CASE AcquireRaised(p)
  <2>1. Acquired(p) /\ phase' = [phase EXCEPT ![p] = "acquire raised"]
    BY <1>3 DEF AcquireRaised, Become
  <2> QED BY <1>1, <1>2, <2>1, LeaveBasic DEF Failures
<1>4. CASE Summarize(p)
  <2> DEFINE f == IF samples[p] = <<>> THEN "no samples" ELSE "summarized"
  <2>1. phase[p] = "next" /\ ~ HasTurn(p) /\ phase' = [phase EXCEPT ![p] = f]
    BY <1>4 DEF Summarize, Become
  <2>2. f \in {"next", "summarized"} \cup Failures
    BY DEF Failures
  <2> HIDE DEF f
  <2> QED BY <1>1, <1>2, <2>1, <2>2, LeaveBasic
<1> QED BY <1>3, <1>4

\* What befalls the server leaves managers and processes alone.
LEMMA SurroundingsBasic ==
  ASSUME Basic, IInv', UNCHANGED managerVars, UNCHANGED benchVars
  PROVE  Basic'
<1>1. /\ pc' = pc /\ request' = request /\ result' = result /\ config' = config
      /\ rejected' = rejected /\ launched' = launched /\ samples' = samples /\ phase' = phase
  BY DEF managerVars, frameVars, benchVars
<1>2. SettingInv'
  BY <1>1, SettingKept, SettingOf DEF Basic
<1>3. SampleInv'
  BY <1>1, SampleKept DEF Basic
<1>4. ResultInv'
  BY <1>1 DEF Basic, ResultInv
<1>5. TurnInv'
  BY <1>1 DEF Basic, TurnInv, HasTurn, Turn, Manager, Acquired
<1> QED BY <1>2, <1>3, <1>4, <1>5 DEF Basic
---------------------------------------------------------------------------
(***************************************************************************)
(* The local caches and the GPU.                                           *)
(***************************************************************************)

\* A step of p, or of no process, at a manager that has nothing to restore
\* takes nothing from what other managers have to restore.
LEMMA ToRestoreKept ==
  ASSUME Basic, NEW p \in Processes, NEW m \in Managers \ {Manager(p)}, NEW k,
         launched' = launched, \A o \in Processes \ {p} : samples'[o] = samples[o],
         \A o \in Processes \ {p} : phase'[o] = phase[o],
         pc'[m] = pc[m], result'[m] = result[m], ToRestore(m, k)
  PROVE  ToRestore(m, k)'
<1>1. m[1] \in Processes /\ m = Manager(m[1]) /\ m[1] # p
  BY ManagerPairs DEF ToRestore
<1>2. Manager(m[1])' = Manager(m[1])
  BY <1>1, TurnKept
<1> QED BY <1>1, <1>2 DEF ToRestore, Acquired

\* A turn's acquire begins.
LEMMA StartGpu ==
  ASSUME Basic, GpuInv, NEW p \in Processes, StartAcquire(p)
  PROVE  GpuInv'
<1> DEFINE m == Manager(p)
<1>1. /\ phase[p] = "next" /\ HasTurn(p) /\ launched' = launched /\ samples' = samples
      /\ gpu_states' = gpu_states /\ phase' = [phase EXCEPT ![p] = "acquiring"]
  BY DEF StartAcquire, Become
<1>2. m \in Managers /\ m[1] = p /\ Turn(p).invocation \in Requests
  BY <1>1, TurnType DEF Basic
<1>3. OthersKept(m) /\ local' = local
  BY <1>2, StartOutcome DEF StartAcquire, Basic
<1>4. \A o \in Processes \ {p} : phase'[o] = phase[o]
  BY <1>1 DEF Basic, TurnInv
<1> HIDE DEF m
<1>5. ASSUME NEW n \in Managers, NEW k, ToRestore(n, k) PROVE ToRestore(n, k)'
  <2>1. n # m
    BY <1>1, <1>2, <1>5 DEF ToRestore, Acquired
  <2>2. pc'[n] = pc[n] /\ result'[n] = result[n]
    BY <1>3, <2>1 DEF OthersKept
  <2> QED BY <1>1, <1>4, <1>5, <2>1, <2>2, ToRestoreKept DEF m
<1> QED BY <1>1, <1>3, <1>5 DEF GpuInv

\* A turn's acquire goes on: what it adds to the cache it returns.
LEMMA GoOnGpu ==
  ASSUME Basic, GpuInv, NEW p \in Processes, GoOn(p)
  PROVE  GpuInv'
<1> DEFINE m == Manager(p)
<1>1. /\ phase[p] = "acquiring" /\ HasTurn(p) /\ launched' = launched /\ samples' = samples
      /\ phase' = phase /\ gpu_states' = gpu_states /\ Proceed(m)
  BY DEF GoOn, benchVars, Basic, TurnInv
<1>2. m \in Managers /\ m[1] = p
  BY <1>1, TurnType DEF Basic
<1>3. pc[m] # "idle" /\ OthersKept(m)
  BY <1>1, <1>2, ProceedFrame DEF Basic
<1>4. \/ GoesOn(m) \/ Fails(m)
      \/ \E d \in {"remote_hit", "recompute"}, q \in Requests, v \in Nat : Returns(m, d, q, v)
  BY <1>1, <1>2, ProceedOutcome DEF Basic
<1>5. Manager(p)' = m
  BY <1>1, TurnKept
<1>6. KeyOf(m) \in StateKeys
  BY <1>2, <1>3, KeyOfType DEF Basic, IInv, ManagerInv
<1> HIDE DEF m
<1>7. \A k \in StateKeys : local[m][k] # None => gpu_states[m][k] = local[m][k].payload
  BY <1>2, <1>3 DEF GpuInv, ToRestore, Acquired, m
<1>8. ASSUME NEW n \in Managers, NEW k \in StateKeys, local'[n][k] # None
      PROVE  gpu_states'[n][k] = local'[n][k].payload \/ ToRestore(n, k)'
  <2>1. CASE n # m
    <3>1. local'[n] = local[n] /\ pc'[n] = pc[n] /\ result'[n] = result[n]
      BY <1>3, <2>1 DEF OthersKept
    <3>2. gpu_states[n][k] = local[n][k].payload \/ ToRestore(n, k)
      BY <1>8, <3>1 DEF GpuInv
    <3> QED BY <1>1, <2>1, <3>1, <3>2, ToRestoreKept DEF m
  <2>2. CASE n = m
    <3>1. CASE GoesOn(m) \/ Fails(m)
      BY <1>1, <1>7, <1>8, <2>2, <3>1 DEF GoesOn, Fails
    <3>2. ASSUME NEW d \in {"remote_hit", "recompute"}, NEW q \in Requests, NEW v \in Nat,
                 Returns(m, d, q, v)
          PROVE  gpu_states'[n][k] = local'[n][k].payload \/ ToRestore(n, k)'
      <4>1. CASE config[m].policy = "reset"
        BY <1>1, <1>7, <1>8, <2>2, <3>2, <4>1 DEF Returns
      <4>2. CASE config[m].policy # "reset" /\ k # KeyOf(m)
        <5>1. _remember(m, KeyOf(m), [version |-> v, payload |-> q])
          BY <3>2, <4>2 DEF Returns
        <5>2. local'[m][k] \in {None, local[m][k]}
          BY <1>2, <1>6, <4>2, <5>1, RememberEffect DEF Basic, IInv, ManagerInv
        <5> QED BY <1>1, <1>7, <1>8, <2>2, <5>2
      <4>3. CASE k = KeyOf(m)
        <5>1. /\ pc'[n] = "idle" /\ result'[n].kind = "returned" /\ result'[n].decision = d
              /\ result'[n].key = k
          BY <2>2, <3>2, <4>3 DEF Returns, Access
        <5>2. n[1] = p /\ Manager(p)' = n
          BY <1>2, <1>5, <2>2
        <5> QED BY <1>1, <5>1, <5>2 DEF ToRestore, Acquired
      <4> QED BY <4>1, <4>2, <4>3
    <3> QED BY <1>4, <2>2, <3>1, <3>2
  <2> QED BY <2>1, <2>2
<1> QED BY <1>1, <1>8 DEF GpuInv
\* What p uses is the state the manager returned, wherever it takes it from.
LEMMA DeliveredState ==
  ASSUME Basic, GpuInv, NEW p \in Processes, HasTurn(p), NEW m, m = Manager(p),
         NEW access, access = result[m], access.kind = "returned"
  PROVE  /\ Kept(m, access)[m][access.key] = access.payload
         /\ access.payload \in Requests /\ access.key \in StateKeys
         /\ Kept(m, access) \in [Managers -> [StateKeys -> Requests \cup {None}]]
         /\ \A n \in Managers \ {m} : Kept(m, access)[n] = gpu_states[n]
         /\ \A k \in StateKeys \ {access.key} : Kept(m, access)[m][k] = gpu_states[m][k]
         /\ local[m][access.key] # None => local[m][access.key].payload = access.payload
<1>1. m \in Managers
  BY TurnType DEF Basic
<1>2. /\ access.key \in StateKeys /\ access.payload \in Requests /\ access.asked \in Requests
  <2>1. access \in Results
    BY <1>1 DEF Basic, IInv, ManagerInv, FrameTypes
  <2> QED BY <2>1 DEF Results
<1>3. config[m].policy # "reset" =>
        local[m][access.key] = [version |-> access.version, payload |-> access.payload]
  BY <1>1 DEF Basic, IInv, ManagerInv, ServedStateIsHeld
<1>4. config[m].policy = "reset" => local[m][access.key] = None /\ access.decision = "recompute"
  <2>1. /\ access.key = state_key(config[m].policy, access.asked)
        /\ config[m].policy = "reset" => access.decision = "recompute"
    BY <1>1 DEF Basic, ResultInv
  <2> QED BY <1>1, <1>2, <2>1, NoTrace DEF Basic, ResetLeavesNoTrace
<1>5. local[m][access.key] # None => local[m][access.key].payload = access.payload
  BY <1>3, <1>4
<1>6. CASE access.decision = "local_hit"
  <2>1. Kept(m, access) = gpu_states
    BY <1>6 DEF Kept
  <2>2. local[m][access.key] \in Records
    <3>1. local[m][access.key] \in Records \cup {None}
      BY <1>1, <1>2 DEF Basic, IInv, ManagerInv, CacheInv
    <3>2. access.key \in Range(local_order[m])
      <4>1. local_order[m] # <<>> /\ Last(local_order[m]) = access.key
        BY <1>1, <1>4, <1>6 DEF Basic, IInv, ManagerInv, ServedStateIsHeld
      <4>2. local_order[m] \in Seq(StateKeys)
        BY <1>1 DEF Basic, IInv, ManagerInv, CacheInv
      <4> QED BY <4>1, <4>2 DEF Last, Range
    <3>3. local[m][access.key] # None
      BY <1>1, <3>2 DEF Basic, IInv, ManagerInv, CacheInv, LocalCacheConsistent
    <3> QED BY <3>1, <3>3
  <2>3. local[m][access.key] # None
    BY <2>2, NoneIsNoState
  <2>4. gpu_states[m][access.key] = access.payload
    BY <1>1, <1>2, <1>5, <1>6, <2>3 DEF GpuInv, ToRestore
  <2> QED BY <1>2, <1>5, <2>1, <2>4 DEF GpuInv
<1>7. CASE access.decision # "local_hit"
  <2>1. Kept(m, access) = [gpu_states EXCEPT ![m][access.key] = access.payload]
    BY <1>7 DEF Kept
  <2> QED BY <1>1, <1>2, <1>5, <2>1 DEF GpuInv
<1> QED BY <1>6, <1>7

\* The state is restored.
LEMMA DeliverGpu ==
  ASSUME Basic, GpuInv, NEW p \in Processes, Deliver(p)
  PROVE  GpuInv'
<1>1. /\ Acquired(p) /\ HasTurn(p) /\ UNCHANGED vars /\ launched' = launched
      /\ result[Manager(p)].kind = "returned" /\ result[Manager(p)].decision \in Decisions
      /\ gpu_states' = Kept(Manager(p), result[Manager(p)])
      /\ Recorded(p) \/ Stopped(p)
  BY DeliverOutcome
<1>2. PICK m \in Managers : m = Manager(p) /\ m[1] = p
  BY <1>1, TurnType DEF Basic
<1>3. PICK access : access = result[m]
  OBVIOUS
<1>4. /\ gpu_states'[m][access.key] = access.payload
      /\ gpu_states' \in [Managers -> [StateKeys -> Requests \cup {None}]]
      /\ \A n \in Managers \ {m} : gpu_states'[n] = gpu_states[n]
      /\ \A k \in StateKeys \ {access.key} : gpu_states'[m][k] = gpu_states[m][k]
      /\ local[m][access.key] # None => local[m][access.key].payload = access.payload
  BY <1>1, <1>2, <1>3, DeliveredState
<1>5. local' = local /\ pc' = pc /\ result' = result
  BY <1>1 DEF vars, cacheVars, frameVars
<1>6. \A o \in Processes \ {p} : phase'[o] = phase[o] /\ samples'[o] = samples[o]
  BY <1>1, RecordSample DEF Recorded, Stopped, Basic, TurnInv
<1>7. ASSUME NEW n \in Managers, NEW k \in StateKeys, local'[n][k] # None
      PROVE  gpu_states'[n][k] = local'[n][k].payload \/ ToRestore(n, k)'
  <2>1. gpu_states[n][k] = local[n][k].payload \/ ToRestore(n, k)
    BY <1>5, <1>7 DEF GpuInv
  <2>2. CASE n # m
    BY <1>1, <1>2, <1>4, <1>5, <1>6, <2>1, <2>2, ToRestoreKept
  <2>3. CASE n = m /\ k = access.key
    BY <1>4, <1>5, <1>7, <2>3
  <2>4. CASE n = m /\ k # access.key
    <3>1. ~ ToRestore(n, k)
      BY <1>3, <2>4 DEF ToRestore
    <3> QED BY <1>4, <1>5, <2>1, <2>4, <3>1
  <2> QED BY <2>2, <2>3, <2>4
<1> QED BY <1>4, <1>7 DEF GpuInv

\* The other steps restore nothing.
LEMMA EndGpu ==
  ASSUME Basic, GpuInv, NEW p \in Processes, AcquireRaised(p) \/ Summarize(p)
  PROVE  GpuInv'
<1>1. /\ UNCHANGED vars /\ launched' = launched /\ samples' = samples
      /\ gpu_states' = gpu_states
  BY DEF AcquireRaised, Summarize
<1>2. local' = local /\ pc' = pc /\ result' = result
  BY <1>1 DEF vars, cacheVars, frameVars
<1>3. \A o \in Processes \ {p} : phase'[o] = phase[o]
  BY DEF AcquireRaised, Summarize, Become, Basic, TurnInv
<1>4. ASSUME NEW n \in Managers, NEW k, ToRestore(n, k) PROVE ToRestore(n, k)'
  <2>1. n # Manager(p)
    <3> SUFFICES ASSUME n = Manager(p) PROVE FALSE
      OBVIOUS
    <3>1. n[1] = p
      BY DEF Manager
    <3> QED BY <1>4, <3>1 DEF ToRestore, Acquired, AcquireRaised, Summarize
  <2> QED BY <1>1, <1>2, <1>3, <1>4, <2>1, ToRestoreKept
<1> QED BY <1>1, <1>2, <1>4 DEF GpuInv

LEMMA SurroundingsGpu ==
  ASSUME GpuInv, UNCHANGED managerVars, UNCHANGED benchVars
  PROVE  GpuInv'
BY DEF managerVars, cacheVars, frameVars, benchVars, GpuInv, ToRestore, Acquired, Manager, Turn
---------------------------------------------------------------------------
(***************************************************************************)
(* Where states come from.                                                 *)
(***************************************************************************)

\* The server restarts or carries out a late call.
LEMMA SurroundingsStore ==
  ASSUME IInv, Surroundings
  PROVE  /\ UNCHANGED managerVars /\ UNCHANGED benchVars
         /\ late' \subseteq late
         /\ \A k \in StateKeys :
            \/ records'[k] \in {None, records[k]}
            \/ \E put \in late : k = put.key /\ records'[k].payload = put.payload
<1>1. UNCHANGED managerVars /\ UNCHANGED benchVars
  BY DEF Surroundings, StoreRestart, LatePut, LateGet
<1>2. CASE StoreRestart
  BY <1>1, <1>2 DEF StoreRestart
<1>3. ASSUME NEW put \in late, LatePut(put)
      PROVE  /\ late' \subseteq late
             /\ \A k \in StateKeys :
                \/ records'[k] \in {None, records[k]}
                \/ k = put.key /\ records'[k].payload = put.payload
  <2>1. /\ put.key \in StateKeys /\ put.payload \in Requests
        /\ SharedUnder(put.key, put.payload)
    BY DEF IInv, StoreInv
  <2>2. Store!Write(put.key, put.payload) /\ late' \subseteq late /\ late_gets' = late_gets
    BY <1>3 DEF LatePut
  <2>3. /\ records'[put.key] = Store!NextRecord(put.key, put.payload)
        /\ \A k \in StateKeys \ {put.key} : records'[k] \in {None, records[k]}
    BY <2>1, <2>2, WriteStore DEF IInv
  <2>4. Store!NextRecord(put.key, put.payload).payload = put.payload
    BY <2>1, NextRecordType DEF IInv
  <2> QED BY <2>2, <2>3, <2>4
<1>4. ASSUME NEW get \in late_gets, LateGet(get)
      PROVE  late' = late /\ records' = records
  BY <1>4 DEF LateGet, Store!TouchOnGet
<1> QED BY <1>1, <1>2, <1>3, <1>4 DEF Surroundings

\* Origins do not change.
LEMMA OriginKept ==
  ASSUME launched' = launched, NEW key, NEW state
  PROVE  Origin(key, state)' <=> Origin(key, state)
BY LaunchKept DEF Origin

\* A turn's acquire begins: a local hit comes from where the cache has it.
LEMMA StartOrigin ==
  ASSUME Basic, OriginInv, NEW p \in Processes, StartAcquire(p)
  PROVE  OriginInv'
<1>1. HasTurn(p) /\ launched' = launched
  BY DEF StartAcquire
<1>2. PICK m \in Managers : m = Manager(p)
  BY <1>1, TurnType DEF Basic
<1>3. PICK q \in Requests : q = Turn(p).invocation
  BY <1>1, TurnType DEF Basic
<1>4. /\ pc[m] = "idle" /\ OthersKept(m) /\ records' = records /\ late' = late
      /\ reply' = reply /\ local' = local
      /\ Hits(m, q) \/ Starts(m, q)
  BY <1>2, <1>3, StartOutcome DEF StartAcquire, Basic
<1>5. \A key, state : Origin(key, state)' <=> Origin(key, state)
  BY <1>1, OriginKept
<1>6. pc'[m] # "admit"
  BY <1>4 DEF Hits, Starts
<1>7. result'[m].kind = "returned" => Origin(result'[m].key, result'[m].payload)
  <2>1. CASE Starts(m, q)
    BY <2>1 DEF Starts, NoResult
  <2>2. CASE Hits(m, q)
    <3> DEFINE key == state_key(config[m].policy, q)
    <3>1. key \in StateKeys
      BY KeyType, ManagerAssumption DEF Basic, IInv, ManagerInv, FrameTypes
    <3>2. local[m][key] # None /\ result'[m].key = key /\ result'[m].payload = local[m][key].payload
      BY <2>2 DEF Hits, Access
    <3> HIDE DEF key
    <3> QED BY <3>1, <3>2 DEF OriginInv
  <2> QED BY <1>4, <2>1, <2>2
<1>8. ASSUME NEW n \in Managers \ {m}
      PROVE  pc'[n] = pc[n] /\ result'[n] = result[n] /\ KeyOf(n)' = KeyOf(n)
  BY <1>4 DEF OthersKept, KeyOf
<1> QED BY <1>4, <1>5, <1>6, <1>7, <1>8 DEF OriginInv

\* A turn's acquire goes on: it fetches what the store has, and computes,
\* publishes and keeps the state of its own invocation.
LEMMA GoOnOrigin ==
  ASSUME Basic, OriginInv, NEW p \in Processes, GoOn(p)
  PROVE  OriginInv'
<1>1. phase[p] = "acquiring" /\ HasTurn(p) /\ launched' = launched /\ Proceed(Manager(p))
  BY DEF GoOn, benchVars, Basic, TurnInv
<1>2. PICK m \in Managers : m = Manager(p) /\ m[1] = p
  BY <1>1, TurnType DEF Basic
<1>3. pc[m] # "idle" /\ OthersKept(m)
  BY <1>1, <1>2, ProceedFrame DEF Basic
<1>4. \/ GoesOn(m) \/ Fails(m)
      \/ \E d \in {"remote_hit", "recompute"}, q \in Requests, v \in Nat : Returns(m, d, q, v)
  BY <1>1, <1>2, ProceedOutcome DEF Basic
<1>5. StoreEffect(m)
  BY <1>1, <1>2, ProceedStore DEF Basic
<1>6. KeyOf(m) \in StateKeys
  BY <1>3, KeyOfType DEF Basic, IInv, ManagerInv
<1>7. Origin(KeyOf(m), request[m])
  <2>1. /\ request[m] = Turn(p).invocation /\ Turn(p).invocation \in InvocationsOf(args(p))
        /\ config[m].policy = args(p).policy
    BY <1>1, <1>2, <1>3, TurnType DEF Basic, TurnInv
  <2> QED BY <2>1 DEF Origin, KeyOf
<1>8. \A key, state : Origin(key, state)' <=> Origin(key, state)
  BY <1>1, OriginKept
<1>9. ASSUME NEW k \in StateKeys, records'[k] # None PROVE Origin(k, records'[k].payload)
  BY <1>5, <1>7, <1>9 DEF StoreEffect, OriginInv
<1>10. ASSUME NEW put \in late' PROVE Origin(put.key, put.payload)
  BY <1>5, <1>7 DEF StoreEffect, OriginInv
<1>11. ASSUME NEW d \in {"remote_hit", "recompute"}, NEW q \in Requests, NEW v \in Nat,
              Returns(m, d, q, v)
       PROVE  /\ Origin(KeyOf(m), q)
              /\ \A k \in StateKeys : local'[m][k] # None => Origin(k, local'[m][k].payload)
              /\ result'[m].key = KeyOf(m) /\ result'[m].payload = q
  <2>1. Origin(KeyOf(m), q)
    <3>1. CASE d = "recompute"
      BY <1>7, <1>11, <3>1 DEF Returns
    <3>2. CASE d = "remote_hit"
      <4>1. /\ config[m].policy # "reset" /\ pc[m] = "admit"
            /\ reply[m].value = [version |-> v, payload |-> q]
            /\ [version |-> v, payload |-> q] \in Records
        BY <1>11, <3>2 DEF Returns
      <4>2. reply[m].value # None /\ reply[m].value.payload = q
        BY <4>1, NoneIsNoState
      <4> QED BY <4>1, <4>2 DEF OriginInv
    <3> QED BY <3>1, <3>2
  <2>2. result'[m].key = KeyOf(m) /\ result'[m].payload = q
    BY <1>11 DEF Returns, Access
  <2>3. CASE config[m].policy = "reset"
    BY <1>11, <2>1, <2>2, <2>3 DEF Returns, OriginInv
  <2>4. CASE config[m].policy # "reset"
    <3> DEFINE record == [version |-> v, payload |-> q]
    <3>1. record \in Records /\ _remember(m, KeyOf(m), record) /\ record.payload = q
      BY <1>11, <2>4 DEF Returns
    <3> HIDE DEF record
    <3>2. \A k \in StateKeys \ {KeyOf(m)} : local'[m][k] \in {None, local[m][k]}
      BY <1>6, <3>1, RememberEffect DEF Basic, IInv, ManagerInv
    <3>3. local'[m][KeyOf(m)] \in {None, record}
      <4>1. DOMAIN local = Managers
        BY DEF Basic, IInv, ManagerInv, CacheInv
      <4> QED BY <1>6, <3>1, <4>1 DEF _remember
    <3>4. ASSUME NEW k \in StateKeys, local'[m][k] # None PROVE Origin(k, local'[m][k].payload)
      BY <2>1, <3>1, <3>2, <3>3, <3>4 DEF OriginInv
    <3> QED BY <2>1, <2>2, <3>4
  <2> QED BY <2>3, <2>4
<1>12. \A k \in StateKeys : local'[m][k] # None => Origin(k, local'[m][k].payload)
  BY <1>4, <1>11 DEF GoesOn, Fails, OriginInv
<1>13. result'[m].kind = "returned" => Origin(result'[m].key, result'[m].payload)
  BY <1>4, <1>11 DEF GoesOn, Fails, OriginInv
<1>14. pc'[m] = "admit" /\ reply'[m].value # None => Origin(KeyOf(m)', reply'[m].value.payload)
  <2> SUFFICES ASSUME pc'[m] = "admit", reply'[m].value # None
               PROVE  Origin(KeyOf(m)', reply'[m].value.payload)
    OBVIOUS
  <2>1. request'[m] = request[m]
    BY <1>4 DEF GoesOn, Fails, Returns
  <2>2. KeyOf(m)' = KeyOf(m)
    BY <1>3, <2>1 DEF KeyOf, OthersKept
  <2>3. reply'[m].value = records[KeyOf(m)]
    BY <1>5 DEF StoreEffect
  <2> QED BY <1>6, <2>2, <2>3 DEF OriginInv
<1>15. ASSUME NEW n \in Managers \ {m}
       PROVE  /\ pc'[n] = pc[n] /\ result'[n] = result[n] /\ KeyOf(n)' = KeyOf(n)
              /\ reply'[n] = reply[n] /\ local'[n] = local[n]
  BY <1>3 DEF OthersKept, KeyOf
<1>16. ASSUME NEW n \in Managers, NEW k \in StateKeys, local'[n][k] # None
       PROVE  Origin(k, local'[n][k].payload)
  BY <1>12, <1>15, <1>16 DEF OriginInv
<1>17. ASSUME NEW n \in Managers
       PROVE  /\ pc'[n] = "admit" /\ reply'[n].value # None
                    => Origin(KeyOf(n)', reply'[n].value.payload)
              /\ result'[n].kind = "returned" => Origin(result'[n].key, result'[n].payload)
  BY <1>13, <1>14, <1>15 DEF OriginInv
<1> QED BY <1>8, <1>9, <1>10, <1>16, <1>17 DEF OriginInv

\* The other steps hand nothing on; a late put is the one that was abandoned.
LEMMA OtherOrigin ==
  ASSUME Basic, OriginInv, (UNCHANGED vars /\ launched' = launched) \/ Surroundings
  PROVE  OriginInv'
<1>1. /\ launched' = launched /\ local' = local /\ pc' = pc /\ reply' = reply
      /\ result' = result /\ request' = request /\ config' = config
  BY SurroundingsStore DEF vars, cacheVars, frameVars, managerVars, benchVars, Basic
<1>2. \A k \in StateKeys : records'[k] # None => Origin(k, records'[k].payload)
  BY SurroundingsStore DEF vars, storeVars, lateVars, Basic, OriginInv
<1>3. late' \subseteq late
  BY SurroundingsStore DEF vars, storeVars, lateVars, Basic
<1>4. \A m : KeyOf(m)' = KeyOf(m)
  BY <1>1 DEF KeyOf
<1>5. \A key, state : Origin(key, state)' <=> Origin(key, state)
  BY <1>1, OriginKept
<1> QED BY <1>1, <1>2, <1>3, <1>4, <1>5 DEF OriginInv
---------------------------------------------------------------------------
(***************************************************************************)
(* The checks of loaded states.                                            *)
(***************************************************************************)

\* Keys of different policies differ, and a key determines what its policy
\* reuses.
LEMMA KeyDetermines ==
  ASSUME NEW policy \in Policies, NEW other \in Policies, NEW q, NEW r,
         state_key(policy, q) = state_key(other, r)
  PROVE  /\ policy = other
         /\ policy = "whole_graph" => q.graph = r.graph /\ q.role = r.role
         /\ policy = "local_layout" => q.layout = r.layout
<1>1. ASSUME NEW f \in Policies, NEW s
      PROVE  /\ f = "reset" => state_key(f, s) = <<"request", s.id, s.role>>
             /\ f = "whole_graph" => state_key(f, s) = <<"graph", s.graph, s.role>>
             /\ f = "local_layout" => state_key(f, s) = <<"layout", s.layout>>
  BY DEF state_key, Policies
<1>2. ASSUME NEW f \in Policies, NEW s
      PROVE  state_key(f, s)[1] = IF f = "reset" THEN "request"
                                  ELSE IF f = "whole_graph" THEN "graph" ELSE "layout"
  <2>1. CASE f = "reset"
    BY <1>1, <2>1
  <2>2. CASE f = "whole_graph"
    BY <1>1, <2>2
  <2>3. CASE f = "local_layout"
    BY <1>1, <2>3
  <2> QED BY <2>1, <2>2, <2>3 DEF Policies
<1>3. policy = other
  BY <1>2 DEF Policies
<1>4. policy = "whole_graph" => <<"graph", q.graph, q.role>> = <<"graph", r.graph, r.role>>
  BY <1>1, <1>3
<1>5. policy = "local_layout" => <<"layout", q.layout>> = <<"layout", r.layout>>
  BY <1>1, <1>3
<1> QED BY <1>3, <1>4, <1>5

\* A process that comes to none of the ends concerned leaves the property be.
LEMMA ChecksKept ==
  ASSUME ChecksFireOnlyAcrossSettings, launched' = launched,
         \A p \in Processes :
            \/ phase'[p] = phase[p]
            \/ phase'[p] \notin {"KeyError", "wrong layout", "wrong tokens"}
  PROVE  ChecksFireOnlyAcrossSettings'
<1>1. \A p : args(p)' = args(p)
  BY LaunchKept
<1>2. \A p, field : RunsWithOther(p, field)' <=> RunsWithOther(p, field)
  BY <1>1 DEF RunsWithOther
<1> QED BY <1>1, <1>2 DEF ChecksFireOnlyAcrossSettings

\* The state p uses was computed by a process of its policy.  When it is not
\* that of the layout or the prompt asked for, the two differ in a setting.
LEMMA DeliverChecks ==
  ASSUME Basic, GpuInv, OriginInv, ChecksFireOnlyAcrossSettings,
         NEW p \in Processes, Deliver(p)
  PROVE  ChecksFireOnlyAcrossSettings'
<1>1. /\ Acquired(p) /\ HasTurn(p) /\ launched' = launched
      /\ result[Manager(p)].kind = "returned"
      /\ result[Manager(p)].asked = Turn(p).invocation
  BY DeliverOutcome
<1>2. PICK m \in Managers : m = Manager(p) /\ m[1] = p /\ config[m].policy = args(p).policy
  BY <1>1, TurnType DEF Basic
<1>3. PICK access : access = result[m]
  OBVIOUS
<1>4. PICK q \in InvocationsOf(args(p)) : q = Turn(p).invocation
  BY <1>1, TurnType DEF Basic
<1>5. PICK state \in Requests : state = access.payload
  BY <1>1, <1>2, <1>3, DeliveredState
<1>6. /\ Kept(m, access)[m][access.key] = state /\ state # None
  BY <1>1, <1>2, <1>3, <1>5, DeliveredState, NoneIsNoState
<1>7. PICK o \in Processes :
        state \in InvocationsOf(args(o)) /\ access.key = state_key(args(o).policy, state)
  <2>1. Origin(access.key, access.payload)
    BY <1>1, <1>2, <1>3 DEF OriginInv
  <2> QED BY <1>5, <2>1 DEF Origin
<1>8. /\ args(o).policy = args(p).policy
      /\ args(p).policy = "reset" => state = q
      /\ args(p).policy = "whole_graph" => state.graph = q.graph /\ state.role = q.role
      /\ args(p).policy = "local_layout" => state.layout = q.layout
      /\ args(p).policy \in Policies
  <2>1. access.key = state_key(args(p).policy, q)
    BY <1>1, <1>2, <1>3, <1>4 DEF Basic, ResultInv
  <2>2. args(p).policy \in Policies /\ args(o).policy \in Policies
    BY ScheduleOfType DEF Basic, SettingInv
  <2>3. args(p).policy = "reset" => state = q
    BY <1>1, <1>2, <1>3, <1>4, <1>5 DEF Basic, IInv, ManagerInv, ReuseRule, Reusable
  <2>4. state_key(args(p).policy, q) = state_key(args(o).policy, state)
    BY <1>7, <2>1
  <2>5. /\ args(p).policy = args(o).policy
        /\ args(p).policy = "whole_graph" => q.graph = state.graph /\ q.role = state.role
        /\ args(p).policy = "local_layout" => q.layout = state.layout
    BY <2>2, <2>4, KeyDetermines
  <2> QED BY <2>2, <2>3, <2>5
<1>9. state.layout # q.layout =>
        args(p).policy = "whole_graph" /\ args(o).model # args(p).model
  BY <1>7, <1>8, SameAgentSameLayout DEF Policies
<1>10. state.layout = q.layout /\ state.input_ids # q.input_ids
            => args(o).prompt_tokens # args(p).prompt_tokens
  BY <1>7, SameLayoutSamePrompt
<1>11. /\ phase'[p] # "KeyError"
       /\ phase'[p] = "wrong layout" => state.layout # q.layout
       /\ phase'[p] = "wrong tokens" => state.layout = q.layout /\ state.input_ids # q.input_ids
       /\ \A n \in Processes \ {p} : phase'[n] = phase[n]
  BY <1>2, <1>3, <1>4, <1>6 DEF Deliver, Become, Basic, TurnInv
<1>12. \A n : args(n)' = args(n)
  BY <1>1, LaunchKept
<1>13. \A n, field : RunsWithOther(n, field)' <=> RunsWithOther(n, field)
  BY <1>12 DEF RunsWithOther
<1>14. phase'[p] = "wrong layout" => args(p).policy = "whole_graph" /\ RunsWithOther(p, "model")
  BY <1>8, <1>9, <1>11 DEF RunsWithOther
<1>15. phase'[p] = "wrong tokens" => RunsWithOther(p, "prompt_tokens")
  BY <1>8, <1>10, <1>11 DEF RunsWithOther
<1>16. ASSUME NEW n \in Processes \ {p}
       PROVE  /\ phase'[n] # "KeyError"
              /\ phase'[n] = "wrong layout" =>
                    args(n).policy = "whole_graph" /\ RunsWithOther(n, "model")
              /\ phase'[n] = "wrong tokens" => RunsWithOther(n, "prompt_tokens")
  BY <1>11 DEF ChecksFireOnlyAcrossSettings
<1> QED BY <1>11, <1>12, <1>13, <1>14, <1>15, <1>16 DEF ChecksFireOnlyAcrossSettings
---------------------------------------------------------------------------
(***************************************************************************)
(* What the store keeps.                                                   *)
(***************************************************************************)
RecordsKept == \A k \in StateKeys : records[k] # None => records'[k] # None

\* Nothing was lost if nothing is.
LEMMA Losses ==
  ASSUME NoteLosses, ~ lost'
  PROVE  ~ lost /\ RecordsKept
BY DEF NoteLosses, RecordsKept

\* Samples have keys.
LEMMA SampledKeys ==
  ASSUME SettingInv, SampleInv, NEW p \in Processes
  PROVE  /\ Len(samples[p]) \in Nat
         /\ \A j \in 1..Len(samples[p]) : /\ j \in 1..Len(ScheduleOf(p))
                                          /\ TurnKey(p, j) \in StateKeys
<1>1. Len(samples[p]) \in Nat /\ Len(ScheduleOf(p)) \in Nat
      /\ Len(samples[p]) <= Len(ScheduleOf(p))
  BY ScheduleOfType DEF SettingInv, SampleInv
<1>2. \A j \in 1..Len(samples[p]) : j \in 1..Len(ScheduleOf(p))
  BY <1>1
<1> QED BY <1>1, <1>2, ScheduleOfType DEF SettingInv

\* p's step at its manager m is all there is to look at.
LEMMA SavedFrame ==
  ASSUME Basic, AllSaved, RecordsKept, NEW p \in Processes, HasTurn(p),
         NEW m \in Managers, m = Manager(p), OthersKept(m),
         launched' = launched, samples' = samples,
         \A o \in Processes \ {p} : phase'[o] = phase[o],
         HeldIsSaved(m)', args(p).policy # "reset" /\ Missed(m)' => FirstOfItsKey(p)
  PROVE  AllSaved'
<1>1. ASSUME NEW n \in Managers \ {m} PROVE HeldIsSaved(n)' /\ (Missed(n)' <=> Missed(n))
  <2>1. /\ pc'[n] = pc[n] /\ reply'[n] = reply[n] /\ local'[n] = local[n]
        /\ result'[n] = result[n] /\ KeyOf(n)' = KeyOf(n)
    BY DEF OthersKept, KeyOf
  <2>2. pc[n] # "idle" => KeyOf(n) \in StateKeys
    BY KeyOfType DEF Basic, IInv, ManagerInv
  <2>3. HeldIsSaved(n)
    BY DEF AllSaved
  <2>4. HeldIsSaved(n)'
    BY <2>1, <2>2, <2>3 DEF HeldIsSaved, RecordsKept
  <2>5. Missed(n)' <=> Missed(n)
    BY <2>1 DEF Missed
  <2> QED BY <2>4, <2>5
<1>2. ASSUME NEW o \in Processes PROVE SampledIsSaved(o)'
  <2>1. SampledIsSaved(o)
    BY DEF AllSaved
  <2>2. /\ args(o)' = args(o) /\ \A j : TurnKey(o, j)' = TurnKey(o, j)
        /\ \A j \in 1..Len(samples[o]) : TurnKey(o, j) \in StateKeys
    BY SampledKeys, LaunchKept DEF Basic
  <2>3. Manager(o)' = Manager(o) /\ (FirstOfItsKey(o)' <=> FirstOfItsKey(o))
    BY <2>2, TurnKept DEF FirstOfItsKey
  <2>4. PICK n : n = Manager(o)
    OBVIOUS
  <2>5. args(o).policy # "reset" /\ phase'[o] = "acquiring" /\ Missed(n)' => FirstOfItsKey(o)
    <3>1. CASE o = p
      BY <2>4, <3>1
    <3>2. CASE o # p
      <4>1. phase'[o] = "acquiring" => phase[o] = "acquiring" /\ HasTurn(o)
        BY <3>2 DEF Basic, TurnInv
      <4>2. phase'[o] = "acquiring" => n \in Managers \ {m}
        BY <2>4, <3>2, <4>1, OtherProcess DEF Basic
      <4> QED BY <1>1, <2>1, <2>4, <4>1, <4>2 DEF SampledIsSaved
    <3> QED BY <3>1, <3>2
  <2>6. Missed(Manager(o))' <=> Missed(n)'
    BY <2>3, <2>4 DEF Missed
  <2> QED BY <2>1, <2>2, <2>3, <2>5, <2>6 DEF SampledIsSaved, RecordsKept
<1> QED BY <1>1, <1>2 DEF AllSaved

\* A turn's acquire begins: nothing is missed before the store is asked.
LEMMA StartSaved ==
  ASSUME Basic, AllSaved, RecordsKept, NEW p \in Processes, StartAcquire(p)
  PROVE  AllSaved'
<1>1. /\ phase[p] = "next" /\ HasTurn(p) /\ launched' = launched /\ samples' = samples
      /\ phase' = [phase EXCEPT ![p] = "acquiring"]
  BY DEF StartAcquire, Become
<1>2. PICK m \in Managers : m = Manager(p) /\ config[m].policy = args(p).policy
  BY <1>1, TurnType DEF Basic
<1>3. PICK q \in Requests : q = Turn(p).invocation
  BY <1>1, TurnType DEF Basic
<1>4. /\ pc[m] = "idle" /\ OthersKept(m) /\ records' = records /\ local' = local
      /\ Hits(m, q) \/ Starts(m, q)
  BY <1>2, <1>3, StartOutcome DEF StartAcquire, Basic
<1>5. \A o \in Processes \ {p} : phase'[o] = phase[o]
  BY <1>1 DEF Basic, TurnInv
<1>6. pc'[m] \in {"idle", "compute", "fetch"}
  BY <1>4 DEF Hits, Starts
<1>7. HeldIsSaved(m)'
  BY <1>4, <1>6 DEF AllSaved, HeldIsSaved
<1>8. args(p).policy # "reset" => ~ Missed(m)'
  BY <1>2, <1>4 DEF Hits, Starts, Access, Missed
<1> QED BY <1>1, <1>2, <1>4, <1>5, <1>7, <1>8, SavedFrame

\* A turn's acquire goes on: what the store does not have was not sampled,
\* and nothing is kept that the store has not.
LEMMA GoOnSaved ==
  ASSUME Basic, AllSaved, RecordsKept, NEW p \in Processes, GoOn(p)
  PROVE  AllSaved'
<1>1. /\ phase[p] = "acquiring" /\ HasTurn(p) /\ launched' = launched /\ samples' = samples
      /\ phase' = phase /\ Proceed(Manager(p))
  BY DEF GoOn, benchVars, Basic, TurnInv
<1>2. PICK m \in Managers : m = Manager(p) /\ config[m].policy = args(p).policy
  BY <1>1, TurnType DEF Basic
<1>3. pc[m] # "idle" /\ OthersKept(m)
  BY <1>1, <1>2, ProceedFrame DEF Basic
<1>4. \/ GoesOn(m) \/ Fails(m)
      \/ \E d \in {"remote_hit", "recompute"}, q \in Requests, v \in Nat : Returns(m, d, q, v)
  BY <1>1, <1>2, ProceedOutcome DEF Basic
<1>5. StoreEffect(m)
  BY <1>1, <1>2, ProceedStore DEF Basic
<1>6. KeyOf(m) \in StateKeys /\ KeyOf(m) = TurnKey(p, Len(samples[p]) + 1)
  BY <1>1, <1>2, <1>3, KeyOfType, UnderWay DEF Basic, IInv, ManagerInv
<1>7. HeldIsSaved(m) /\ SampledIsSaved(p)
  BY DEF AllSaved
<1>8. pc'[m] # "idle" => GoesOn(m) /\ KeyOf(m)' = KeyOf(m)
  BY <1>3, <1>4 DEF Fails, Returns, GoesOn, KeyOf, OthersKept
<1>9. ASSUME NEW d \in {"remote_hit", "recompute"}, NEW q \in Requests, NEW v \in Nat,
             Returns(m, d, q, v)
      PROVE  /\ d = "recompute" /\ config[m].policy # "reset" => Missed(m)
             /\ \A k \in StateKeys : local'[m][k] # None => records'[k] # None
  <2>1. d = "recompute" /\ config[m].policy # "reset" => Missed(m)
    BY <1>9 DEF Returns, Missed
  <2>2. CASE config[m].policy = "reset"
    BY <1>7, <1>9, <2>1, <2>2 DEF Returns, HeldIsSaved, RecordsKept
  <2>3. CASE config[m].policy # "reset"
    <3> DEFINE record == [version |-> v, payload |-> q]
    <3>1. record \in Records /\ _remember(m, KeyOf(m), record)
      BY <1>9, <2>3 DEF Returns
    <3>2. records[KeyOf(m)] # None
      <4>1. CASE d = "recompute"
        BY <1>7, <1>9, <2>3, <4>1 DEF Returns, HeldIsSaved
      <4>2. CASE d = "remote_hit"
        <5>1. pc[m] = "admit" /\ reply[m].value # None
          BY <1>9, <3>1, <4>2, NoneIsNoState DEF Returns
        <5> QED BY <1>7, <5>1 DEF HeldIsSaved
      <4> QED BY <4>1, <4>2
    <3> HIDE DEF record
    <3>3. \A k \in StateKeys \ {KeyOf(m)} : local'[m][k] \in {None, local[m][k]}
      BY <1>6, <3>1, RememberEffect DEF Basic, IInv, ManagerInv
    <3> QED BY <1>6, <1>7, <2>1, <3>2, <3>3 DEF HeldIsSaved, RecordsKept
  <2> QED BY <2>2, <2>3
<1>10. HeldIsSaved(m)'
  <2>1. \A k \in StateKeys : local'[m][k] # None => records'[k] # None
    BY <1>4, <1>7, <1>9 DEF GoesOn, Fails, HeldIsSaved, RecordsKept
  <2>2. pc'[m] = "admit" /\ reply'[m].value # None => records'[KeyOf(m)] # None
    BY <1>5 DEF StoreEffect
  <2>3. pc'[m] = "remember" => records'[KeyOf(m)] # None
    BY <1>5 DEF StoreEffect
  <2> QED BY <1>8, <2>1, <2>2, <2>3 DEF HeldIsSaved
<1>11. ASSUME args(p).policy # "reset", Missed(m)' PROVE FirstOfItsKey(p)
  <2>1. \A j \in 1..Len(samples[p]) : records[TurnKey(p, j)] # None
    BY <1>7, <1>11 DEF SampledIsSaved
  <2>2. CASE Missed(m)
    BY <1>1, <1>2, <1>7, <1>11, <2>2 DEF SampledIsSaved
  <2>3. CASE pc'[m] = "admit" /\ reply'[m].value = None
    <3>1. records[KeyOf(m)] = None
      BY <1>5, <2>3 DEF StoreEffect
    <3> QED BY <1>6, <2>1, <3>1 DEF FirstOfItsKey
  <2>4. CASE pc'[m] \in {"compute", "publish", "remember"}
    BY <1>5, <2>2, <2>4 DEF StoreEffect
  <2>5. CASE pc'[m] = "idle" /\ result'[m].kind = "returned" /\ result'[m].decision = "recompute"
    <3>1. ASSUME NEW d \in {"remote_hit", "recompute"}, NEW q \in Requests, NEW v \in Nat,
                 Returns(m, d, q, v)
          PROVE  d = "recompute"
      BY <2>5, <3>1 DEF Returns, Access
    <3>2. ~ GoesOn(m) /\ ~ Fails(m)
      BY <2>5 DEF GoesOn, Fails
    <3>3. Missed(m)
      BY <1>2, <1>4, <1>9, <1>11, <3>1, <3>2
    <3> QED BY <2>2, <3>3
  <2> QED BY <1>11, <2>3, <2>4, <2>5 DEF Missed
<1> QED BY <1>1, <1>2, <1>3, <1>10, <1>11, SavedFrame

\* No manager moves.
LEMMA QuietSaved ==
  ASSUME Basic, AllSaved, RecordsKept, UNCHANGED managerVars, launched' = launched,
         \A p \in Processes :
            \/ samples'[p] = samples[p] /\ phase'[p] = phase[p]
            \/ /\ phase'[p] # "acquiring"
               /\ args(p).policy # "reset" =>
                    \A j \in 1..Len(samples'[p]) : records'[TurnKey(p, j)] # None
  PROVE  AllSaved'
<1>1. pc' = pc /\ reply' = reply /\ local' = local /\ result' = result /\ request' = request
      /\ config' = config
  BY DEF managerVars, cacheVars, frameVars
<1>2. ASSUME NEW m \in Managers PROVE HeldIsSaved(m)'
  <2>1. pc[m] # "idle" => KeyOf(m) \in StateKeys
    BY KeyOfType DEF Basic, IInv, ManagerInv
  <2>2. KeyOf(m)' = KeyOf(m) /\ HeldIsSaved(m)
    BY <1>1 DEF KeyOf, AllSaved
  <2> QED BY <1>1, <2>1, <2>2 DEF HeldIsSaved, RecordsKept
<1>3. ASSUME NEW p \in Processes PROVE SampledIsSaved(p)'
  <2>1. args(p)' = args(p) /\ \A j : TurnKey(p, j)' = TurnKey(p, j)
    BY LaunchKept
  <2>2. CASE samples'[p] = samples[p] /\ phase'[p] = phase[p]
    <3>1. SampledIsSaved(p)
      BY DEF AllSaved
    <3>2. \A j \in 1..Len(samples[p]) : TurnKey(p, j) \in StateKeys
      BY SampledKeys DEF Basic
    <3>3. Missed(Manager(p))' <=> Missed(Manager(p))
      BY <1>1, <2>2, TurnKept DEF Missed
    <3>4. FirstOfItsKey(p)' <=> FirstOfItsKey(p)
      BY <2>1, <2>2 DEF FirstOfItsKey
    <3> QED BY <2>1, <2>2, <3>1, <3>2, <3>3, <3>4 DEF SampledIsSaved, RecordsKept
  <2>3. CASE /\ phase'[p] # "acquiring"
             /\ args(p).policy # "reset" =>
                    \A j \in 1..Len(samples'[p]) : records'[TurnKey(p, j)] # None
    BY <2>1, <2>3 DEF SampledIsSaved
  <2> QED BY <2>2, <2>3
<1> QED BY <1>2, <1>3 DEF AllSaved

\* What an acquire has returned is held, under the key of the turn.
LEMMA ReturnedIsHeld ==
  ASSUME Basic, NEW p \in Processes, HasTurn(p), args(p).policy # "reset",
         result[Manager(p)].kind = "returned",
         result[Manager(p)].asked = Turn(p).invocation
  PROVE  /\ TurnKey(p, Len(samples[p]) + 1) \in StateKeys
         /\ local[Manager(p)][TurnKey(p, Len(samples[p]) + 1)] # None
<1>1. PICK m \in Managers : m = Manager(p) /\ config[m].policy = args(p).policy
  BY TurnType DEF Basic
<1>2. result[m].key = TurnKey(p, Len(samples[p]) + 1)
  BY <1>1, TurnType DEF Basic, ResultInv
<1>3. local_order[m] # <<>> /\ Last(local_order[m]) = result[m].key
  BY <1>1 DEF Basic, IInv, ManagerInv, ServedStateIsHeld
<1>4. local_order[m] \in Seq(StateKeys)
  BY DEF Basic, IInv, ManagerInv, CacheInv
<1>5. result[m].key \in Range(local_order[m])
  BY <1>3, <1>4 DEF Last, Range
<1>6. local[m][result[m].key] # None /\ result[m].key \in StateKeys
  BY <1>5 DEF Basic, IInv, ManagerInv, CacheInv, LocalCacheConsistent
<1> QED BY <1>1, <1>2, <1>6

\* The state is restored and sampled.
LEMMA DeliverSaved ==
  ASSUME Basic, AllSaved, NEW p \in Processes, Deliver(p)
  PROVE  AllSaved'
<1>1. /\ HasTurn(p) /\ UNCHANGED vars /\ launched' = launched
      /\ result[Manager(p)].kind = "returned" /\ result[Manager(p)].decision \in Decisions
      /\ result[Manager(p)].asked = Turn(p).invocation
      /\ Recorded(p) \/ Stopped(p)
  BY DeliverOutcome
<1>2. UNCHANGED managerVars /\ records' = records /\ RecordsKept
  BY <1>1 DEF vars, managerVars, storeVars, lateVars, RecordsKept
<1>3. ASSUME NEW o \in Processes \ {p} PROVE samples'[o] = samples[o] /\ phase'[o] = phase[o]
  BY <1>1, RecordSample DEF Recorded, Stopped, Basic, TurnInv
<1>4. phase'[p] # "acquiring"
  BY <1>1 DEF Recorded, Stopped, Basic, TurnInv
<1>5. ASSUME args(p).policy # "reset", NEW j \in 1..Len(samples'[p])
      PROVE  records[TurnKey(p, j)] # None
  <2>1. \A i \in 1..Len(samples[p]) : records[TurnKey(p, i)] # None
    BY <1>5 DEF AllSaved, SampledIsSaved
  <2>2. CASE Stopped(p)
    BY <2>1, <2>2 DEF Stopped
  <2>3. CASE Recorded(p)
    <3>1. Len(samples'[p]) = Len(samples[p]) + 1 /\ Len(samples[p]) \in Nat
      BY <1>1, <2>3, RecordSample DEF Basic, SampleInv
    <3>2. records[TurnKey(p, Len(samples[p]) + 1)] # None
      <4>1. Manager(p) \in Managers
        BY <1>1, TurnType DEF Basic
      <4> QED BY <1>1, <1>5, <4>1, ReturnedIsHeld DEF AllSaved, HeldIsSaved
    <3> QED BY <2>1, <3>1, <3>2
  <2> QED BY <1>1, <2>2, <2>3
<1> QED BY <1>1, <1>2, <1>3, <1>4, <1>5, QuietSaved

LEMMA EndSaved ==
  ASSUME Basic, AllSaved, NEW p \in Processes, AcquireRaised(p) \/ Summarize(p)
  PROVE  AllSaved'
<1>1. UNCHANGED vars /\ launched' = launched /\ samples' = samples
  BY DEF AcquireRaised, Summarize
<1>2. UNCHANGED managerVars /\ records' = records /\ RecordsKept
  BY <1>1 DEF vars, managerVars, storeVars, lateVars, RecordsKept
<1>3. /\ phase'[p] # "acquiring"
      /\ \A o \in Processes \ {p} : phase'[o] = phase[o]
  BY DEF AcquireRaised, Summarize, Become, Basic, TurnInv
<1>4. args(p).policy # "reset" =>
        \A j \in 1..Len(samples[p]) : records[TurnKey(p, j)] # None
  BY DEF AllSaved, SampledIsSaved
<1> QED BY <1>1, <1>2, <1>3, <1>4, QuietSaved

LEMMA SurroundingsSaved ==
  ASSUME Basic, AllSaved, RecordsKept, UNCHANGED managerVars, UNCHANGED benchVars
  PROVE  AllSaved'
<1>1. launched' = launched /\ samples' = samples /\ phase' = phase
  BY DEF benchVars
<1> QED BY <1>1, QuietSaved

\* What a policy reuses has one key.
LEMMA UnitKey ==
  ASSUME NEW policy \in Policies \ {"reset"}, NEW q, NEW r, NEW a, NEW b, NEW i, NEW j,
         a = Sample(q, i, a), b = Sample(r, j, b), Unit(policy, a) = Unit(policy, b)
  PROVE  state_key(policy, q) = state_key(policy, r)
<1>1. /\ a.graph = q.graph /\ a.role = q.role /\ a.layout = q.layout
      /\ b.graph = r.graph /\ b.role = r.role /\ b.layout = r.layout
  BY DEF Sample
<1>2. CASE policy = "whole_graph"
  <2>1. <<q.graph, q.role>> = <<r.graph, r.role>>
    BY <1>1, <1>2 DEF Unit
  <2> QED BY <1>2, <2>1 DEF state_key
<1>3. CASE policy = "local_layout"
  BY <1>1, <1>3 DEF Unit, state_key
<1> QED BY <1>2, <1>3 DEF Policies

\* Without a new sample nothing changes.
LEMMA PrefillsKept ==
  ASSUME PrefillsAreSaved, launched' = launched, samples' = samples, ~ lost' => ~ lost
  PROVE  PrefillsAreSaved'
<1>1. \A p : args(p)' = args(p)
  BY LaunchKept
<1> QED BY <1>1 DEF PrefillsAreSaved, Unit

\* The state of a turn is computed only if no sample is of its unit.
LEMMA DeliverPrefills ==
  ASSUME Basic, SavedInv, PrefillsAreSaved, NEW p \in Processes, Deliver(p), Basic',
         ~ lost' => ~ lost
  PROVE  PrefillsAreSaved'
<1>1. /\ Acquired(p) /\ HasTurn(p) /\ launched' = launched
      /\ result[Manager(p)].kind = "returned" /\ result[Manager(p)].decision \in Decisions
      /\ Recorded(p) \/ Stopped(p)
  BY DeliverOutcome
<1>2. CASE Stopped(p)
  BY <1>1, <1>2, PrefillsKept DEF Stopped
<1>3. CASE Recorded(p)
  <2> DEFINE length == Len(samples[p])
             policy == args(p).policy
  <2>1. /\ Len(samples'[p]) = length + 1 /\ length \in Nat
        /\ \A j \in 1..length : samples'[p][j] = samples[p][j]
        /\ samples'[p][length + 1].decision = result[Manager(p)].decision
        /\ \A o \in Processes \ {p} : samples'[o] = samples[o]
    BY <1>1, <1>3, RecordSample DEF Basic, SampleInv
  <2>2. \A o : args(o)' = args(o) /\ ScheduleOf(o)' = ScheduleOf(o)
    BY <1>1, LaunchKept
  <2>3. ASSUME ~ lost, policy # "reset", NEW j \in 1..length,
               samples'[p][length + 1].decision = "recompute",
               Unit(policy, samples'[p][j]) = Unit(policy, samples'[p][length + 1])
        PROVE  FALSE
    <3>1. policy \in Policies \ {"reset"}
      BY <2>3, ScheduleOfType DEF Basic, SettingInv
    <3>2. \A i \in 1..length + 1 :
            samples'[p][i] = Sample(ScheduleOf(p)[i].invocation, ScheduleOf(p)[i].instance,
                                    samples'[p][i])
      BY <2>1, <2>2 DEF Basic, SampleInv
    <3>3. TurnKey(p, j) = TurnKey(p, length + 1)
      <4>1. j \in 1..length + 1 /\ length + 1 \in 1..length + 1
        BY <2>1
      <4> HIDE DEF length
      <4> QED BY <2>3, <3>1, <3>2, <4>1, UnitKey DEF TurnKey
    <3>4. FirstOfItsKey(p)
      <4>1. Missed(Manager(p))
        BY <1>1, <2>1, <2>3 DEF Missed, Acquired
      <4> QED BY <1>1, <2>3, <4>1 DEF SavedInv, AllSaved, SampledIsSaved, Acquired
    <3> QED BY <3>3, <3>4 DEF FirstOfItsKey
  <2>4. ASSUME NEW o \in Processes, ~ lost, args(o).policy # "reset",
               NEW j \in 1..Len(samples'[o]), NEW k \in 1..Len(samples'[o]),
               samples'[o][j].decision = "recompute", samples'[o][k].decision = "recompute",
               Unit(args(o).policy, samples'[o][j]) = Unit(args(o).policy, samples'[o][k])
        PROVE  j = k
    <3>1. CASE o # p
      BY <2>1, <2>4, <3>1 DEF PrefillsAreSaved
    <3>2. CASE o = p
      <4>1. j \in 1..length \/ j = length + 1
        BY <2>1, <2>4, <3>2
      <4>2. k \in 1..length \/ k = length + 1
        BY <2>1, <2>4, <3>2
      <4>3. CASE j \in 1..length /\ k \in 1..length
        BY <2>1, <2>4, <3>2, <4>3 DEF PrefillsAreSaved
      <4> QED BY <2>3, <2>4, <3>2, <4>1, <4>2, <4>3
    <3> QED BY <3>1, <3>2
  <2> QED BY <2>2, <2>4 DEF PrefillsAreSaved, Unit
<1> QED BY <1>1, <1>2, <1>3
---------------------------------------------------------------------------
(***************************************************************************)
(* Stable placement.                                                       *)
(***************************************************************************)

\* What is planned is finite, and there are no more keys than units.
LEMMA PlannedCounts ==
  ASSUME launched \in Launches, NEW p \in Processes, NEW i
  PROVE  LET turns == {turn \in Range(ScheduleOf(p)) : turn.instance = i}
             units == {Unit(args(p).policy, turn.invocation) : turn \in turns}
         IN  /\ IsFiniteSet(PlannedKeys(p, i)) /\ Cardinality(PlannedKeys(p, i)) \in Nat
             /\ args(p).policy # "reset" => /\ Cardinality(units) \in Nat
                                            /\ Cardinality(PlannedKeys(p, i)) <= Cardinality(units)
<1> DEFINE turns == {turn \in Range(ScheduleOf(p)) : turn.instance = i}
           policy == args(p).policy
           units == {Unit(policy, turn.invocation) : turn \in turns}
           keys == PlannedKeys(p, i)
<1>1. IsFiniteSet(turns)
  <2>1. IsFiniteSet(Range(ScheduleOf(p)))
    BY ScheduleOfType, SequenceCounts
  <2> QED BY <2>1, FS_Subset
<1>2. keys = {state_key(policy, turn.invocation) : turn \in turns}
  BY DEF PlannedKeys
<1>3. policy \in Policies
  BY ScheduleOfType
<1> HIDE DEF turns, keys, policy
<1>4. IsFiniteSet(keys)
  <2> DEFINE f == [turn \in turns |-> state_key(policy, turn.invocation)]
  <2>1. f \in Surjection(turns, keys)
    BY <1>2 DEF Surjection
  <2> HIDE DEF f
  <2> QED BY <1>1, <2>1, FS_Surjection
<1>5. IsFiniteSet(units)
  <2> DEFINE f == [turn \in turns |-> Unit(policy, turn.invocation)]
  <2>1. f \in Surjection(turns, units)
    BY DEF Surjection
  <2> HIDE DEF f, units
  <2> QED BY <1>1, <2>1, FS_Surjection
<1>6. ASSUME policy # "reset" PROVE Cardinality(keys) <= Cardinality(units)
  <2> DEFINE Key(unit) == IF policy = "whole_graph" THEN <<"graph", unit[1], unit[2]>>
                          ELSE <<"layout", unit>>
             f == [unit \in units |-> Key(unit)]
  <2>1. \A turn \in turns :
            Key(Unit(policy, turn.invocation)) = state_key(policy, turn.invocation)
    BY <1>3, <1>6 DEF Unit, state_key, Policies
  <2> HIDE DEF Key
  <2>2. f \in Surjection(units, keys)
    BY <1>2, <2>1 DEF Surjection
  <2> HIDE DEF f, units
  <2> QED BY <1>5, <2>2, FS_Surjection
<1>7. Cardinality(keys) \in Nat /\ Cardinality(units) \in Nat
  BY <1>4, <1>5, FS_CardinalityType
<1> QED BY <1>4, <1>6, <1>7 DEF turns, keys, policy

\* Stable placement brings equal keys to one instance.
LEMMA SameKeySameInstance ==
  ASSUME launched \in Launches, NEW p \in Processes,
         args(p).policy # "reset", args(p).placement = "stable",
         NEW j \in 1..Len(ScheduleOf(p)), NEW k \in 1..Len(ScheduleOf(p)),
         TurnKey(p, j) = TurnKey(p, k)
  PROVE  ScheduleOf(p)[j].instance = ScheduleOf(p)[k].instance
<1>1. PICK n \in 1..Len(Arguments) : n = launched[p] /\ args(p) = Arguments[n]
  BY ScheduleOfType DEF args
<1>2. PICK a \in TurnsOf(Arguments[n]) : a = ScheduleOf(p)[j]
  BY <1>1, ScheduleOfType
<1>3. PICK b \in TurnsOf(Arguments[n]) : b = ScheduleOf(p)[k]
  BY <1>1, ScheduleOfType
<1>4. /\ a.invocation \in InvocationsOf(Arguments[n]) /\ b.invocation \in InvocationsOf(Arguments[n])
      /\ args(p).policy \in Policies
  BY <1>1, <1>2, <1>3, ScheduleOfType
<1>5. a.invocation.role = b.invocation.role
  <2>1. state_key(args(p).policy, a.invocation) = state_key(args(p).policy, b.invocation)
    BY <1>2, <1>3 DEF TurnKey
  <2>2. CASE args(p).policy = "whole_graph"
    BY <1>4, <2>1, <2>2, KeyDetermines
  <2>3. CASE args(p).policy = "local_layout"
    <3>1. a.invocation.layout = b.invocation.layout
      BY <1>4, <2>1, <2>3, KeyDetermines
    <3> QED BY <1>4, <3>1, SameLayoutSamePrompt
  <2> QED BY <1>4, <2>2, <2>3 DEF Policies
<1> QED BY <1>1, <1>2, <1>3, <1>5, StablePlace

\* What is planned does not change.
LEMMA RoomKept ==
  ASSUME launched' = launched
  PROVE  \A p, i : /\ PlannedKeys(p, i)' = PlannedKeys(p, i)
                   /\ Roomy(p, i)' <=> Roomy(p, i)
<1>1. \A p : args(p)' = args(p) /\ ScheduleOf(p)' = ScheduleOf(p)
  BY LaunchKept
<1>2. \A p, i : PlannedKeys(p, i)' = PlannedKeys(p, i)
  BY <1>1 DEF PlannedKeys
<1> QED BY <1>1, <1>2 DEF Roomy

\* p's step at its manager is all there is to look at.
LEMMA StableFrame ==
  ASSUME Basic, StableInv, NEW p \in Processes, HasTurn(p), NEW i \in Instances,
         Manager(p) = <<p, i>>, OthersKept(<<p, i>>),
         launched' = launched, samples' = samples,
         \A o \in Processes \ {p} : phase'[o] = phase[o],
         Roomy(p, i) => StableAt(p, i)'
  PROVE  StableInv'
<1> SUFFICES ASSUME NEW o \in Processes, NEW n \in Instances, Roomy(o, n), <<o, n>> # <<p, i>>
             PROVE  StableAt(o, n)'
  BY RoomKept DEF StableInv
<1>1. <<o, n>> \in Managers \ {<<p, i>>}
  BY ManagerPairs
<1>2. PICK m \in Managers : m = <<o, n>>
  BY <1>1
<1>3. /\ pc'[m] = pc[m] /\ result'[m] = result[m]
      /\ local'[m] = local[m] /\ local_order'[m] = local_order[m]
  BY <1>1, <1>2 DEF OthersKept
<1>4. StableAt(o, n)
  BY DEF StableInv
<1>5. /\ PlannedKeys(o, n)' = PlannedKeys(o, n) /\ \A j : TurnKey(o, j)' = TurnKey(o, j)
      /\ Manager(o)' = Manager(o)
  BY RoomKept, LaunchKept, TurnKept
<1>6. FirstOfItsKey(o)' <=> FirstOfItsKey(o)
  BY <1>5 DEF FirstOfItsKey
<1>7. Manager(o) = <<o, n>> => o # p
  BY <1>1
<1> QED BY <1>2, <1>3, <1>4, <1>5, <1>6, <1>7 DEF StableAt

\* The key of a turn is planned where it is placed.
LEMMA TurnIsPlanned ==
  ASSUME SettingInv, SampleInv, NEW p \in Processes, HasTurn(p)
  PROVE  TurnKey(p, Len(samples[p]) + 1) \in PlannedKeys(p, Turn(p).instance)
<1>1. ScheduleOf(p) \in Seq(TurnsOf(args(p)))
  BY ScheduleOfType DEF SettingInv
<1>2. /\ Len(samples[p]) + 1 \in 1..Len(ScheduleOf(p))
      /\ Turn(p) = ScheduleOf(p)[Len(samples[p]) + 1]
      /\ TurnKey(p, Len(samples[p]) + 1) = state_key(args(p).policy, Turn(p).invocation)
  BY TurnType
<1>3. Turn(p) \in Range(ScheduleOf(p))
  BY <1>1, <1>2 DEF Range
<1> QED BY <1>2, <1>3 DEF PlannedKeys

\* What is not in the local cache has not been sampled.
LEMMA MissIsFirst ==
  ASSUME SettingInv, SampleInv, NEW p \in Processes, HasTurn(p), NEW i, Turn(p).instance = i,
         Roomy(p, i), StableAt(p, i), local[<<p, i>>][TurnKey(p, Len(samples[p]) + 1)] = None
  PROVE  FirstOfItsKey(p)
<1> SUFFICES ASSUME NEW j \in 1..Len(samples[p]),
                    TurnKey(p, j) = TurnKey(p, Len(samples[p]) + 1)
             PROVE  FALSE
  BY DEF FirstOfItsKey
<1>1. j \in 1..Len(ScheduleOf(p))
  BY SampledKeys
<1>2. ScheduleOf(p)[j].instance = i
  <2>1. PICK k \in 1..Len(ScheduleOf(p)) : k = Len(samples[p]) + 1 /\ Turn(p) = ScheduleOf(p)[k]
    BY TurnType
  <2>2. launched \in Launches /\ args(p).policy # "reset" /\ args(p).placement = "stable"
    BY DEF Roomy, SettingInv
  <2>3. TurnKey(p, j) = TurnKey(p, k)
    BY <2>1
  <2> QED BY <1>1, <2>1, <2>2, <2>3, SameKeySameInstance
<1>3. samples[p][j] = Sample(ScheduleOf(p)[j].invocation, ScheduleOf(p)[j].instance, samples[p][j])
  BY DEF SampleInv
<1>4. samples[p][j].instance = i
  BY <1>2, <1>3 DEF Sample
<1> QED BY <1>4 DEF StableAt

\* A turn's acquire begins.
LEMMA StartStable ==
  ASSUME Basic, StableInv, NEW p \in Processes, StartAcquire(p)
  PROVE  StableInv'
<1>1. /\ phase[p] = "next" /\ HasTurn(p) /\ launched' = launched /\ samples' = samples
      /\ phase' = [phase EXCEPT ![p] = "acquiring"]
  BY DEF StartAcquire, Become
<1>2. PICK i \in Instances : i = Turn(p).instance /\ Manager(p) = <<p, i>>
  BY <1>1, TurnType DEF Basic, Manager
<1>3. PICK m \in Managers : m = <<p, i>> /\ config[m].policy = args(p).policy
  BY <1>1, <1>2, TurnType DEF Basic
<1>4. PICK q \in Requests : /\ q = Turn(p).invocation
                            /\ TurnKey(p, Len(samples[p]) + 1) = state_key(args(p).policy, q)
  BY <1>1, TurnType DEF Basic
<1>5. /\ pc[m] = "idle" /\ OthersKept(m) /\ local' = local
      /\ Hits(m, q) \/ Starts(m, q)
  BY <1>2, <1>3, <1>4, StartOutcome DEF StartAcquire, Basic
<1>6. \A o \in Processes \ {p} : phase'[o] = phase[o]
  BY <1>1 DEF Basic, TurnInv
<1>7. ASSUME Roomy(p, i) PROVE StableAt(p, i)'
  <2> DEFINE key == TurnKey(p, Len(samples[p]) + 1)
  <2>1. StableAt(p, i) /\ args(p).policy # "reset"
    BY <1>7 DEF StableInv, Roomy
  <2>2. /\ PlannedKeys(p, i)' = PlannedKeys(p, i) /\ \A j : TurnKey(p, j)' = TurnKey(p, j)
        /\ FirstOfItsKey(p)' <=> FirstOfItsKey(p)
    BY <1>1, RoomKept, LaunchKept DEF FirstOfItsKey
  <2>3. key \in PlannedKeys(p, i)
    BY <1>1, <1>2, TurnIsPlanned DEF Basic
  <2> HIDE DEF key
  <2>4. Range(local_order'[m]) \subseteq PlannedKeys(p, i)
    <3>1. CASE Starts(m, q)
      BY <1>3, <2>1, <3>1 DEF Starts, StableAt
    <3>2. CASE Hits(m, q)
      <4>1. local_order \in [Managers -> Seq(StateKeys)] /\ IsInjective(local_order[m])
        BY DEF Basic, IInv, ManagerInv, CacheInv, LocalCacheConsistent
      <4>2. local_order'[m] = _touch(local_order[m], key)
        BY <1>3, <1>4, <3>2, <4>1 DEF Hits, key
      <4>3. key \in StateKeys
        BY <1>1, SampledKeys, TurnType, ScheduleOfType DEF Basic, SettingInv, key
      <4>4. Range(local_order'[m]) = Range(local_order[m]) \cup {key}
        BY <4>1, <4>2, <4>3, ToEndProperties DEF _touch
      <4> QED BY <1>3, <2>1, <2>3, <4>4 DEF StableAt
    <3> QED BY <1>5, <3>1, <3>2
  <2>5. \A j \in 1..Len(samples'[p]) :
            samples'[p][j].instance = i => local'[m][TurnKey(p, j)] # None
    BY <1>1, <1>3, <1>5, <2>1 DEF StableAt
  <2>6. CASE Hits(m, q)
    <3>1. pc'[m] = "idle" /\ result'[m].decision = "local_hit"
      BY <1>5, <2>6 DEF Hits, Access
    <3> QED BY <1>3, <2>2, <2>4, <2>5, <3>1 DEF StableAt
  <2>7. CASE Starts(m, q)
    <3>1. local[m][key] = None
      BY <1>3, <1>4, <2>1, <2>7 DEF Starts, key
    <3>2. FirstOfItsKey(p)
      BY <1>1, <1>2, <1>3, <1>7, <2>1, <3>1, MissIsFirst DEF Basic, key
    <3> QED BY <1>3, <2>2, <2>4, <2>5, <3>2 DEF StableAt
  <2> QED BY <1>5, <2>6, <2>7
<1> QED BY <1>1, <1>2, <1>3, <1>5, <1>6, <1>7, StableFrame

\* A turn's acquire goes on: there is room for what it adds.
LEMMA GoOnStable ==
  ASSUME Basic, StableInv, NEW p \in Processes, GoOn(p)
  PROVE  StableInv'
<1>1. /\ phase[p] = "acquiring" /\ HasTurn(p) /\ launched' = launched /\ samples' = samples
      /\ phase' = phase /\ Proceed(Manager(p))
  BY DEF GoOn, benchVars, Basic, TurnInv
<1>2. PICK i \in Instances : i = Turn(p).instance /\ Manager(p) = <<p, i>>
  BY <1>1, TurnType DEF Basic, Manager
<1>3. PICK m \in Managers : m = <<p, i>> /\ config[m].policy = args(p).policy
  BY <1>1, <1>2, TurnType DEF Basic
<1>4. pc[m] # "idle" /\ OthersKept(m)
  BY <1>1, <1>2, <1>3, ProceedFrame DEF Basic
<1>5. \/ GoesOn(m) \/ Fails(m)
      \/ \E d \in {"remote_hit", "recompute"}, q \in Requests, v \in Nat : Returns(m, d, q, v)
  BY <1>1, <1>2, <1>3, ProceedOutcome DEF Basic
<1>6. KeyOf(m) \in StateKeys /\ KeyOf(m) = TurnKey(p, Len(samples[p]) + 1)
  BY <1>1, <1>2, <1>3, <1>4, KeyOfType, UnderWay DEF Basic, IInv, ManagerInv
<1>7. ASSUME Roomy(p, i) PROVE StableAt(p, i)'
  <2>1. StableAt(p, i) /\ args(p).policy # "reset"
    BY <1>7 DEF StableInv, Roomy
  <2>2. /\ PlannedKeys(p, i)' = PlannedKeys(p, i) /\ \A j : TurnKey(p, j)' = TurnKey(p, j)
        /\ FirstOfItsKey(p)' <=> FirstOfItsKey(p)
    BY <1>1, RoomKept, LaunchKept DEF FirstOfItsKey
  <2>3. FirstOfItsKey(p)
    BY <1>1, <1>2, <1>3, <1>4, <2>1 DEF StableAt
  <2>4. /\ Range(local_order[m]) \subseteq PlannedKeys(p, i)
        /\ \A j \in 1..Len(samples[p]) :
            samples[p][j].instance = i => local[m][TurnKey(p, j)] # None
    BY <1>3, <2>1 DEF StableAt
  <2>5. /\ Range(local_order'[m]) \subseteq PlannedKeys(p, i)
        /\ \A j \in 1..Len(samples[p]) :
            samples[p][j].instance = i => local'[m][TurnKey(p, j)] # None
    <3>1. CASE GoesOn(m) \/ Fails(m)
      BY <2>4, <3>1 DEF GoesOn, Fails
    <3>2. ASSUME NEW d \in {"remote_hit", "recompute"}, NEW q \in Requests, NEW v \in Nat,
                 Returns(m, d, q, v)
          PROVE  /\ Range(local_order'[m]) \subseteq PlannedKeys(p, i)
                 /\ \A k \in StateKeys \ {KeyOf(m)} : local'[m][k] = local[m][k]
      <4> DEFINE record == [version |-> v, payload |-> q]
                 planned == PlannedKeys(p, i)
      <4>1. _remember(m, KeyOf(m), record)
        BY <1>3, <2>1, <3>2 DEF Returns
      <4>2. IsFiniteSet(planned) /\ Cardinality(planned) <= MaxLocal
        BY <1>7, PlannedCounts DEF Basic, SettingInv, Roomy
      <4>3. Range(local_order[m]) \cup {KeyOf(m)} \subseteq planned
        BY <1>1, <1>2, <1>6, <2>4, TurnIsPlanned DEF Basic
      <4> HIDE DEF record, planned
      <4>4. /\ Range(local_order'[m]) \subseteq Range(local_order[m]) \cup {KeyOf(m)}
            /\ \A k \in StateKeys \ {KeyOf(m)} : local'[m][k] = local[m][k]
        BY <1>6, <4>1, <4>2, <4>3, RememberEffect DEF Basic, IInv, ManagerInv
      <4> QED BY <4>3, <4>4 DEF planned
    <3>3. \A j \in 1..Len(samples[p]) : TurnKey(p, j) \in StateKeys \ {KeyOf(m)}
      BY <1>6, <2>3, SampledKeys DEF FirstOfItsKey, Basic
    <3> QED BY <1>5, <2>4, <3>1, <3>2, <3>3
  <2> QED BY <1>1, <1>3, <2>2, <2>3, <2>5 DEF StableAt
<1> QED BY <1>1, <1>2, <1>3, <1>4, <1>7, StableFrame

\* No manager moves.
LEMMA QuietStable ==
  ASSUME Basic, StableInv, UNCHANGED managerVars, launched' = launched,
         \A p \in Processes :
            \/ samples'[p] = samples[p] /\ phase'[p] = phase[p]
            \/ /\ phase'[p] # "acquiring"
               /\ \A i \in Instances : Roomy(p, i) =>
                    \A j \in 1..Len(samples'[p]) :
                        samples'[p][j].instance = i => local[<<p, i>>][TurnKey(p, j)] # None
  PROVE  StableInv'
<1> SUFFICES ASSUME NEW p \in Processes, NEW i \in Instances, Roomy(p, i)
             PROVE  StableAt(p, i)'
  BY RoomKept DEF StableInv
<1>1. pc' = pc /\ local' = local /\ local_order' = local_order /\ result' = result
  BY DEF managerVars, cacheVars, frameVars
<1>2. StableAt(p, i)
  BY DEF StableInv
<1>3. PlannedKeys(p, i)' = PlannedKeys(p, i) /\ \A j : TurnKey(p, j)' = TurnKey(p, j)
  BY RoomKept, LaunchKept
<1>4. CASE samples'[p] = samples[p] /\ phase'[p] = phase[p]
  <2>1. Manager(p)' = Manager(p) /\ (FirstOfItsKey(p)' <=> FirstOfItsKey(p))
    BY <1>3, <1>4, TurnKept DEF FirstOfItsKey
  <2> QED BY <1>1, <1>2, <1>3, <1>4, <2>1 DEF StableAt
<1>5. CASE /\ phase'[p] # "acquiring"
           /\ \A j \in 1..Len(samples'[p]) :
                samples'[p][j].instance = i => local[<<p, i>>][TurnKey(p, j)] # None
  BY <1>1, <1>2, <1>3, <1>5 DEF StableAt
<1> QED BY <1>4, <1>5

\* The state is restored and sampled; the local cache has it.
LEMMA DeliverStable ==
  ASSUME Basic, StableInv, NEW p \in Processes, Deliver(p)
  PROVE  StableInv'
<1>1. /\ HasTurn(p) /\ UNCHANGED vars /\ launched' = launched
      /\ result[Manager(p)].kind = "returned" /\ result[Manager(p)].decision \in Decisions
      /\ result[Manager(p)].asked = Turn(p).invocation
      /\ Recorded(p) \/ Stopped(p)
  BY DeliverOutcome
<1>2. UNCHANGED managerVars
  BY <1>1 DEF vars, managerVars
<1>3. ASSUME NEW o \in Processes \ {p} PROVE samples'[o] = samples[o] /\ phase'[o] = phase[o]
  BY <1>1, RecordSample DEF Recorded, Stopped, Basic, TurnInv
<1>4. phase'[p] # "acquiring"
  BY <1>1 DEF Recorded, Stopped, Basic, TurnInv
<1>5. ASSUME NEW i \in Instances, Roomy(p, i), NEW j \in 1..Len(samples'[p]),
             samples'[p][j].instance = i
      PROVE  local[<<p, i>>][TurnKey(p, j)] # None
  <2>1. \A k \in 1..Len(samples[p]) :
            samples[p][k].instance = i => local[<<p, i>>][TurnKey(p, k)] # None
    BY <1>5 DEF StableInv, StableAt
  <2>2. CASE Stopped(p)
    BY <1>5, <2>1, <2>2 DEF Stopped
  <2>3. CASE Recorded(p)
    <3>1. /\ Len(samples'[p]) = Len(samples[p]) + 1 /\ Len(samples[p]) \in Nat
          /\ \A k \in 1..Len(samples[p]) : samples'[p][k] = samples[p][k]
          /\ samples'[p][Len(samples[p]) + 1].instance = Turn(p).instance
      BY <1>1, <2>3, RecordSample DEF Basic, SampleInv
    <3>2. Turn(p).instance = i => local[<<p, i>>][TurnKey(p, Len(samples[p]) + 1)] # None
      BY <1>1, <1>5, ReturnedIsHeld DEF Roomy, Manager
    <3>3. j \in 1..Len(samples[p]) \/ j = Len(samples[p]) + 1
      BY <3>1
    <3> QED BY <1>5, <2>1, <3>1, <3>2, <3>3
  <2> QED BY <1>1, <2>2, <2>3
<1> QED BY <1>1, <1>2, <1>3, <1>4, <1>5, QuietStable

LEMMA EndStable ==
  ASSUME Basic, StableInv, NEW p \in Processes, AcquireRaised(p) \/ Summarize(p)
  PROVE  StableInv'
<1>1. UNCHANGED vars /\ launched' = launched /\ samples' = samples
  BY DEF AcquireRaised, Summarize
<1>2. UNCHANGED managerVars
  BY <1>1 DEF vars, managerVars
<1>3. /\ phase'[p] # "acquiring"
      /\ \A o \in Processes \ {p} : phase'[o] = phase[o]
  BY DEF AcquireRaised, Summarize, Become, Basic, TurnInv
<1>4. \A i \in Instances : Roomy(p, i) => \A j \in 1..Len(samples[p]) :
        samples[p][j].instance = i => local[<<p, i>>][TurnKey(p, j)] # None
  BY DEF StableInv, StableAt
<1> QED BY <1>1, <1>2, <1>3, <1>4, QuietStable

LEMMA SurroundingsStable ==
  ASSUME Basic, StableInv, UNCHANGED managerVars, UNCHANGED benchVars
  PROVE  StableInv'
<1>1. launched' = launched /\ samples' = samples /\ phase' = phase
  BY DEF benchVars
<1> QED BY <1>1, QuietStable

\* Where the units fit, so do the keys.
LEMMA RoomyIfFits ==
  ASSUME SettingInv, NEW p \in Processes, NEW i,
         args(p).policy # "reset", args(p).placement = "stable", Fits(p, i)
  PROVE  Roomy(p, i)
<1> DEFINE units == {Unit(args(p).policy, turn.invocation) :
                        turn \in {turn \in Range(ScheduleOf(p)) : turn.instance = i}}
<1>1. /\ Cardinality(PlannedKeys(p, i)) \in Nat /\ Cardinality(units) \in Nat
      /\ Cardinality(PlannedKeys(p, i)) <= Cardinality(units)
  BY PlannedCounts DEF SettingInv
<1>2. Cardinality(units) <= MaxLocal /\ MaxLocal \in Nat
  BY ManagerAssumption DEF Fits, ScheduleOf
<1> HIDE DEF units
<1> QED BY <1>1, <1>2 DEF Roomy

LEMMA LocalKept ==
  ASSUME StableStaysLocal, launched' = launched, samples' = samples
  PROVE  StableStaysLocal'
<1>1. \A p : args(p)' = args(p)
  BY LaunchKept
<1>2. \A p, i : Fits(p, i)' <=> Fits(p, i)
  BY <1>1 DEF Fits, Unit
<1> QED BY <1>1, <1>2 DEF StableStaysLocal, Unit

\* A sample whose unit was sampled before is one of a local hit.
LEMMA DeliverLocal ==
  ASSUME Basic, StableInv, StableStaysLocal, NEW p \in Processes, Deliver(p), Basic'
  PROVE  StableStaysLocal'
<1>1. /\ Acquired(p) /\ HasTurn(p) /\ launched' = launched
      /\ result[Manager(p)].kind = "returned" /\ result[Manager(p)].decision \in Decisions
      /\ Recorded(p) \/ Stopped(p)
  BY DeliverOutcome
<1>2. CASE Stopped(p)
  BY <1>1, <1>2, LocalKept DEF Stopped
<1>3. CASE Recorded(p)
  <2> DEFINE length == Len(samples[p])
             policy == args(p).policy
  <2>1. /\ Len(samples'[p]) = length + 1 /\ length \in Nat
        /\ \A j \in 1..length : samples'[p][j] = samples[p][j]
        /\ samples'[p][length + 1].decision = result[Manager(p)].decision
        /\ samples'[p][length + 1].instance = Turn(p).instance
        /\ \A o \in Processes \ {p} : samples'[o] = samples[o]
    BY <1>1, <1>3, RecordSample DEF Basic, SampleInv
  <2>2. \A o : args(o)' = args(o) /\ ScheduleOf(o)' = ScheduleOf(o)
    BY <1>1, LaunchKept
  <2>3. \A o, i : Fits(o, i)' <=> Fits(o, i)
    BY <1>1, <2>2 DEF Fits, Unit
  <2>4. ASSUME policy # "reset", args(p).placement = "stable", NEW j \in 1..length,
               Unit(policy, samples'[p][j]) = Unit(policy, samples'[p][length + 1]),
               Fits(p, samples'[p][length + 1].instance)
        PROVE  samples'[p][length + 1].decision = "local_hit"
    <3>1. policy \in Policies \ {"reset"}
      BY <2>4, ScheduleOfType DEF Basic, SettingInv
    <3>2. \A i \in 1..length + 1 :
            samples'[p][i] = Sample(ScheduleOf(p)[i].invocation, ScheduleOf(p)[i].instance,
                                    samples'[p][i])
      BY <2>1, <2>2 DEF Basic, SampleInv
    <3>3. TurnKey(p, j) = TurnKey(p, length + 1)
      <4>1. j \in 1..length + 1 /\ length + 1 \in 1..length + 1
        BY <2>1
      <4> HIDE DEF length
      <4> QED BY <2>4, <3>1, <3>2, <4>1, UnitKey DEF TurnKey
    <3>4. ~ FirstOfItsKey(p)
      BY <3>3 DEF FirstOfItsKey
    <3>5. PICK i \in Instances : i = Turn(p).instance /\ Manager(p) = <<p, i>>
      BY <1>1, TurnType DEF Basic, Manager
    <3>6. Roomy(p, i)
      BY <2>1, <2>4, <3>5, RoomyIfFits DEF Basic
    <3>7. StableAt(p, i)
      BY <3>6 DEF StableInv
    <3> QED BY <1>1, <2>1, <3>4, <3>5, <3>7 DEF StableAt, Acquired
  <2>5. ASSUME NEW o \in Processes, args(o).policy # "reset", args(o).placement = "stable",
               NEW j \in 1..Len(samples'[o]), NEW k \in 1..Len(samples'[o]), j < k,
               Unit(args(o).policy, samples'[o][j]) = Unit(args(o).policy, samples'[o][k]),
               Fits(o, samples'[o][k].instance)
        PROVE  samples'[o][k].decision = "local_hit"
    <3>1. CASE o # p
      BY <2>1, <2>5, <3>1 DEF StableStaysLocal
    <3>2. CASE o = p
      <4>1. j \in 1..length /\ (k \in 1..length \/ k = length + 1)
        BY <2>1, <2>5, <3>2
      <4>2. CASE k \in 1..length
        BY <2>1, <2>5, <3>2, <4>1, <4>2 DEF StableStaysLocal
      <4> QED BY <2>4, <2>5, <3>2, <4>1, <4>2
    <3> QED BY <3>1, <3>2
  <2> QED BY <2>2, <2>3, <2>5 DEF StableStaysLocal, Unit
<1> QED BY <1>1, <1>2, <1>3
---------------------------------------------------------------------------
(***************************************************************************)
(* Counting.                                                               *)
(***************************************************************************)

\* Counting at m adds one to the counter of a decision and to no other.
LEMMA CountDecision ==
  ASSUME IInv, NEW m \in Managers, NEW e \in Decisions, Count(m, Counter(e))
  PROVE  \A d \in Decisions :
            stats'[m][Counter(d)] = stats[m][Counter(d)] + (IF d = e THEN 1 ELSE 0)
<1>1. stats \in [Managers -> [DOMAIN ZeroStats -> Nat]]
  BY DEF IInv, ManagerInv, FrameTypes
<1>2. \A d \in Decisions : Counter(d) \in DOMAIN ZeroStats /\ (Counter(d) = Counter(e) => d = e)
  BY DEF Decisions, Counter, ZeroStats
<1>3. /\ stats'[m][Counter(e)] = stats[m][Counter(e)] + 1
      /\ \A c \in DOMAIN ZeroStats \ {Counter(e)} : stats'[m][c] = stats[m][c]
  BY <1>2, CountStats DEF IInv, ManagerInv
<1>4. \A d \in Decisions : stats[m][Counter(d)] \in Nat
  BY <1>1, <1>2
<1> QED BY <1>2, <1>3, <1>4

\* A manager other than that of p's turn, or of another process.
LEMMA CountedKept ==
  ASSUME Basic, launched' = launched, NEW o \in Processes, NEW i \in Instances,
         NEW d \in Decisions, CountedAt(o, i, d), samples'[o] = samples[o],
         phase'[o] \in {"next", "acquiring", "summarized"} =>
            phase[o] \in {"next", "acquiring", "summarized"},
         stats'[<<o, i>>] = stats[<<o, i>>], Undelivered(o, i, d)' <=> Undelivered(o, i, d)
  PROVE  CountedAt(o, i, d)'
<1>1. Decided(o, i, d)' = Decided(o, i, d)
  BY DEF Decided
<1> QED BY <1>1 DEF CountedAt

\* p's step at its manager is all there is to look at.
LEMMA CountedFrame ==
  ASSUME Basic, CountInv, NEW p \in Processes, HasTurn(p), NEW i \in Instances,
         Manager(p) = <<p, i>>, OthersKept(<<p, i>>),
         launched' = launched, samples' = samples, phase[p] \in {"next", "acquiring"},
         \A o \in Processes \ {p} : phase'[o] = phase[o],
         \A d \in Decisions : /\ ~ Undelivered(p, i, d)
                              /\ stats'[<<p, i>>][Counter(d)] =
                                    stats[<<p, i>>][Counter(d)]
                                        + (IF Undelivered(p, i, d)' THEN 1 ELSE 0)
  PROVE  CountInv'
<1> SUFFICES ASSUME NEW o \in Processes, NEW n \in Instances, NEW d \in Decisions
             PROVE  CountedAt(o, n, d)'
  BY DEF CountInv
<1>1. CountedAt(o, n, d) /\ Decided(o, n, d)' = Decided(o, n, d) /\ Manager(o)' = Manager(o)
  BY TurnKept DEF CountInv, Decided
<1>2. CASE <<o, n>> # <<p, i>>
  <2>1. PICK m \in Managers \ {<<p, i>>} : m = <<o, n>>
    BY <1>2, ManagerPairs
  <2>2. stats'[m] = stats[m] /\ pc'[m] = pc[m] /\ result'[m] = result[m]
    BY <2>1 DEF OthersKept
  <2>3. Undelivered(o, n, d)' <=> Undelivered(o, n, d)
    <3>1. CASE o = p
      BY <1>1, <1>2, <3>1 DEF Undelivered
    <3>2. CASE o # p
      BY <1>1, <2>1, <2>2, <3>2 DEF Undelivered, Acquired
    <3> QED BY <3>1, <3>2
  <2>4. phase'[o] \in {"next", "acquiring", "summarized"} =>
            phase[o] \in {"next", "acquiring", "summarized"}
    OBVIOUS
  <2> QED BY <1>1, <2>1, <2>2, <2>3, <2>4, CountedKept
<1>3. CASE <<o, n>> = <<p, i>>
  <2>1. o = p /\ n = i
    BY <1>3
  <2>2. stats[<<p, i>>][Counter(d)] = Cardinality(Decided(p, i, d)) + 0
    BY <1>1, <2>1 DEF CountedAt
  <2>3. Cardinality(Decided(p, i, d)) \in Nat
    <3>1. IsFiniteSet(1..Len(samples[p]))
      BY SequenceCounts DEF Basic, SampleInv
    <3>2. IsFiniteSet(Decided(p, i, d))
      BY <3>1, FS_Subset DEF Decided
    <3> QED BY <3>2, FS_CardinalityType
  <2> QED BY <1>1, <2>1, <2>2, <2>3 DEF CountedAt
<1> QED BY <1>2, <1>3

LEMMA StartCounts ==
  ASSUME Basic, CountInv, NEW p \in Processes, StartAcquire(p)
  PROVE  CountInv'
<1>1. /\ phase[p] = "next" /\ HasTurn(p) /\ launched' = launched /\ samples' = samples
      /\ phase' = [phase EXCEPT ![p] = "acquiring"]
  BY DEF StartAcquire, Become
<1>2. PICK i \in Instances : Manager(p) = <<p, i>>
  BY <1>1, TurnType DEF Basic, Manager
<1>3. PICK m \in Managers : m = <<p, i>>
  BY <1>1, <1>2, TurnType DEF Basic
<1>4. PICK q \in Requests : q = Turn(p).invocation
  BY <1>1, TurnType DEF Basic
<1>5. /\ pc[m] = "idle" /\ OthersKept(m)
      /\ Hits(m, q) \/ Starts(m, q)
  BY <1>2, <1>3, <1>4, StartOutcome DEF StartAcquire, Basic
<1>6. phase'[p] = "acquiring" /\ \A o \in Processes \ {p} : phase'[o] = phase[o]
  BY <1>1 DEF Basic, TurnInv
<1>7. Manager(p)' = m
  BY <1>1, <1>2, <1>3, TurnKept
<1>8. ASSUME NEW d \in Decisions
      PROVE  /\ ~ Undelivered(p, i, d)
             /\ stats'[m][Counter(d)] =
                    stats[m][Counter(d)] + (IF Undelivered(p, i, d)' THEN 1 ELSE 0)
  <2>1. ~ Undelivered(p, i, d)
    BY <1>1 DEF Undelivered, Acquired
  <2>2. CASE Starts(m, q)
    <3>1. ~ Undelivered(p, i, d)'
      BY <1>3, <1>7, <2>2 DEF Starts, Undelivered, Acquired
    <3>2. stats' = stats /\ stats[m][Counter(d)] \in Nat
      BY <2>2 DEF Starts, Basic, IInv, ManagerInv, FrameTypes, Decisions, Counter, ZeroStats
    <3> QED BY <2>1, <3>1, <3>2
  <2>3. CASE Hits(m, q)
    <3>1. Undelivered(p, i, d)' <=> d = "local_hit"
      BY <1>3, <1>5, <1>6, <1>7, <2>3 DEF Hits, Access, Undelivered, Acquired
    <3>2. Count(m, Counter("local_hit")) /\ "local_hit" \in Decisions
      BY <2>3 DEF Hits, Counter, Decisions
    <3>3. stats'[m][Counter(d)] = stats[m][Counter(d)] + (IF d = "local_hit" THEN 1 ELSE 0)
      BY <3>2, CountDecision DEF Basic
    <3> QED BY <2>1, <3>1, <3>3
  <2> QED BY <1>5, <2>2, <2>3
<1> QED BY <1>1, <1>2, <1>3, <1>5, <1>6, <1>8, CountedFrame

LEMMA GoOnCounts ==
  ASSUME Basic, CountInv, NEW p \in Processes, GoOn(p)
  PROVE  CountInv'
<1>1. /\ phase[p] = "acquiring" /\ HasTurn(p) /\ launched' = launched /\ samples' = samples
      /\ phase' = phase /\ Proceed(Manager(p))
  BY DEF GoOn, benchVars, Basic, TurnInv
<1>2. PICK i \in Instances : Manager(p) = <<p, i>>
  BY <1>1, TurnType DEF Basic, Manager
<1>3. PICK m \in Managers : m = <<p, i>>
  BY <1>1, <1>2, TurnType DEF Basic
<1>4. pc[m] # "idle" /\ OthersKept(m)
  BY <1>1, <1>2, <1>3, ProceedFrame DEF Basic
<1>5. \/ GoesOn(m) \/ Fails(m)
      \/ \E d \in {"remote_hit", "recompute"}, q \in Requests, v \in Nat : Returns(m, d, q, v)
  BY <1>1, <1>2, <1>3, ProceedOutcome DEF Basic
<1>6. Manager(p)' = m
  BY <1>1, <1>2, <1>3, TurnKept
<1>7. ASSUME NEW d \in Decisions
      PROVE  /\ ~ Undelivered(p, i, d)
             /\ stats'[m][Counter(d)] =
                    stats[m][Counter(d)] + (IF Undelivered(p, i, d)' THEN 1 ELSE 0)
  <2>1. ~ Undelivered(p, i, d)
    BY <1>2, <1>3, <1>4 DEF Undelivered, Acquired
  <2>2. CASE GoesOn(m) \/ Fails(m)
    <3>1. ~ Undelivered(p, i, d)'
      BY <1>3, <1>6, <2>2 DEF GoesOn, Fails, Undelivered, Acquired
    <3>2. stats' = stats /\ stats[m][Counter(d)] \in Nat
      BY <2>2 DEF GoesOn, Fails, Basic, IInv, ManagerInv, FrameTypes, Decisions, Counter, ZeroStats
    <3> QED BY <2>1, <3>1, <3>2
  <2>3. ASSUME NEW e \in {"remote_hit", "recompute"}, NEW q \in Requests, NEW v \in Nat,
               Returns(m, e, q, v)
        PROVE  stats'[m][Counter(d)] =
                    stats[m][Counter(d)] + (IF Undelivered(p, i, d)' THEN 1 ELSE 0)
    <3>1. pc'[m] = "idle" /\ result'[m].kind = "returned" /\ result'[m].decision = e
          /\ Count(m, Counter(e)) /\ e \in Decisions
      BY <2>3 DEF Returns, Access, Decisions
    <3>2. Undelivered(p, i, d)' <=> d = e
      BY <1>1, <1>3, <1>6, <3>1 DEF Undelivered, Acquired
    <3>3. stats'[m][Counter(d)] = stats[m][Counter(d)] + (IF d = e THEN 1 ELSE 0)
      BY <3>1, CountDecision DEF Basic
    <3> QED BY <3>2, <3>3
  <2> QED BY <1>5, <2>1, <2>2, <2>3
<1> QED BY <1>1, <1>2, <1>3, <1>4, <1>7, CountedFrame

\* The counted decision becomes that of a sample.
LEMMA DeliverCounts ==
  ASSUME Basic, CountInv, NEW p \in Processes, Deliver(p)
  PROVE  CountInv'
<1>1. /\ Acquired(p) /\ HasTurn(p) /\ UNCHANGED vars /\ launched' = launched
      /\ result[Manager(p)].kind = "returned" /\ result[Manager(p)].decision \in Decisions
      /\ Recorded(p) \/ Stopped(p)
  BY DeliverOutcome
<1>2. stats' = stats /\ pc' = pc /\ result' = result
  BY <1>1 DEF vars, frameVars
<1>3. ASSUME NEW o \in Processes \ {p} PROVE samples'[o] = samples[o] /\ phase'[o] = phase[o]
  BY <1>1, RecordSample DEF Recorded, Stopped, Basic, TurnInv
<1> SUFFICES ASSUME NEW o \in Processes, NEW i \in Instances, NEW d \in Decisions
             PROVE  CountedAt(o, i, d)'
  BY DEF CountInv
<1>4. CountedAt(o, i, d)
  BY DEF CountInv
<1>5. CASE o # p
  <2>1. samples'[o] = samples[o] /\ phase'[o] = phase[o]
    BY <1>3, <1>5
  <2>2. Undelivered(o, i, d)' <=> Undelivered(o, i, d)
    BY <1>1, <1>2, <2>1, TurnKept DEF Undelivered, Acquired
  <2> QED BY <1>1, <1>2, <1>4, <2>1, <2>2, CountedKept
<1>6. CASE o = p /\ Stopped(p)
  <2>1. phase'[p] \notin {"next", "acquiring", "summarized"}
    BY <1>6 DEF Stopped, Basic, TurnInv
  <2> QED BY <1>6, <2>1 DEF CountedAt
<1>7. CASE o = p /\ Recorded(p)
  <2> DEFINE length == Len(samples[p])
             decided == Decided(p, i, d)
  <2>1. /\ Len(samples'[p]) = length + 1 /\ length \in Nat
        /\ \A j \in 1..length : samples'[p][j] = samples[p][j]
        /\ samples'[p][length + 1].instance = Turn(p).instance
        /\ samples'[p][length + 1].decision = result[Manager(p)].decision
    BY <1>1, <1>7, RecordSample DEF Basic, SampleInv
  <2>2. phase'[p] = "next" /\ phase[p] = "acquiring"
    BY <1>1, <1>7 DEF Recorded, Acquired, Basic, TurnInv
  <2>3. ~ Undelivered(p, i, d)'
    BY <2>2 DEF Undelivered, Acquired
  <2>4. Undelivered(p, i, d) <=> Turn(p).instance = i /\ result[Manager(p)].decision = d
    BY <1>1 DEF Undelivered, Manager
  <2>5. Decided(p, i, d)' = decided \cup (IF Undelivered(p, i, d) THEN {length + 1} ELSE {})
    <3>1. 1..length + 1 = (1..length) \cup {length + 1} /\ length + 1 \notin 1..length
      BY <2>1
    <3> HIDE DEF length
    <3> QED BY <2>1, <2>4, <3>1 DEF Decided, length
  <2>6. IsFiniteSet(decided) /\ Cardinality(decided) \in Nat /\ length + 1 \notin decided
    <3>1. IsFiniteSet(1..length)
      BY SequenceCounts DEF Basic, SampleInv
    <3>2. decided \subseteq 1..length
      BY DEF Decided
    <3>3. IsFiniteSet(decided)
      BY <3>1, <3>2, FS_Subset
    <3> QED BY <2>1, <3>2, <3>3, FS_CardinalityType
  <2>7. Cardinality(Decided(p, i, d)') =
            Cardinality(decided) + (IF Undelivered(p, i, d) THEN 1 ELSE 0)
    <3>1. CASE Undelivered(p, i, d)
      <4>1. Decided(p, i, d)' = decided \cup {length + 1}
        BY <2>5, <3>1
      <4> HIDE DEF decided, length
      <4> QED BY <2>6, <3>1, <4>1, FS_AddElement
    <3>2. CASE ~ Undelivered(p, i, d)
      <4>1. Decided(p, i, d)' = decided
        BY <2>5, <3>2
      <4> HIDE DEF decided
      <4> QED BY <2>6, <3>2, <4>1
    <3> QED BY <3>1, <3>2
  <2>8. stats[<<p, i>>][Counter(d)] =
            Cardinality(decided) + (IF Undelivered(p, i, d) THEN 1 ELSE 0)
    BY <1>4, <1>7, <2>2 DEF CountedAt
  <2>9. stats'[<<p, i>>][Counter(d)] = Cardinality(Decided(p, i, d)') + 0
    BY <1>2, <2>6, <2>7, <2>8
  <2> QED BY <1>7, <2>3, <2>9 DEF CountedAt
<1> QED BY <1>1, <1>5, <1>6, <1>7

LEMMA EndCounts ==
  ASSUME Basic, CountInv, NEW p \in Processes, AcquireRaised(p) \/ Summarize(p)
  PROVE  CountInv'
<1>1. UNCHANGED vars /\ launched' = launched /\ samples' = samples
  BY DEF AcquireRaised, Summarize
<1>2. stats' = stats /\ pc' = pc /\ result' = result
  BY <1>1 DEF vars, frameVars
<1>3. ASSUME NEW o \in Processes, NEW i \in Instances, NEW d \in Decisions
      PROVE  CountedAt(o, i, d)'
  <2>1. CountedAt(o, i, d)
    BY DEF CountInv
  <2>2. Manager(o)' = Manager(o)
    BY <1>1, TurnKept
  <2>3. CASE o # p \/ Summarize(p)
    <3>1. \/ phase'[o] = phase[o]
          \/ phase[o] = "next" /\ phase'[o] # "acquiring"
      BY <2>3 DEF AcquireRaised, Summarize, Become, Basic, TurnInv
    <3>2. Undelivered(o, i, d)' <=> Undelivered(o, i, d)
      BY <1>2, <2>2, <3>1 DEF Undelivered, Acquired
    <3> QED BY <1>1, <1>2, <2>1, <3>1, <3>2, CountedKept
  <2>4. CASE o = p /\ AcquireRaised(p)
    <3>1. phase'[p] = "acquire raised"
      BY <2>4 DEF AcquireRaised, Become, Basic, TurnInv
    <3> QED BY <2>4, <3>1 DEF CountedAt
  <2> QED BY <2>3, <2>4
<1> QED BY <1>3 DEF CountInv

LEMMA SurroundingsCounts ==
  ASSUME Basic, CountInv, UNCHANGED managerVars, UNCHANGED benchVars
  PROVE  CountInv'
BY DEF managerVars, frameVars, benchVars, CountInv, CountedAt, Decided, Undelivered, Acquired,
       Manager, Turn
---------------------------------------------------------------------------
(***************************************************************************)
(* The theorems.                                                           *)
(***************************************************************************)
LEMMA BenchInitInv ==
  ASSUME BenchInit
  PROVE  BenchInv
<1>1. /\ launched \in Launches /\ Init
      /\ config = [m \in Managers |-> [policy |-> args(m[1]).policy, remote_store |-> TRUE,
                                       fetch_admission |-> FALSE]]
      /\ phase = [p \in Processes |-> IF args(p).prompt_tokens <= 0 THEN "exited" ELSE "next"]
      /\ gpu_states = [m \in Managers |-> [k \in StateKeys |-> None]]
      /\ samples = [p \in Processes |-> <<>>]
  BY DEF BenchInit
<1>2. IInv
  BY <1>1, InitIInv
<1>3. /\ pc = [m \in Managers |-> "idle"] /\ rejected = [m \in Managers |-> FALSE]
      /\ result = [m \in Managers |-> NoResult] /\ stats = [m \in Managers |-> ZeroStats]
      /\ local = [m \in Managers |-> [k \in StateKeys |-> None]]
      /\ local_order = [m \in Managers |-> <<>>] /\ late = {}
      /\ records = [k \in StateKeys |-> None]
  BY <1>1 DEF Init, Store!Init
<1>4. \A p \in Processes : /\ phase[p] \in {"exited", "next"} /\ samples[p] = <<>>
                           /\ Len(samples[p]) = 0
  BY <1>1
<1>5. \A m \in Managers : pc[m] = "idle" /\ result[m].kind = "none"
  BY <1>3 DEF NoResult
<1>6. SettingInv
  BY <1>1, <1>3 DEF SettingInv
<1>7. SampleInv
  <2>1. ASSUME NEW p \in Processes PROVE Len(samples[p]) <= Len(ScheduleOf(p))
    BY <1>1, <1>4, ScheduleOfType
  <2>2. samples \in [Processes -> Seq(Rows)]
    BY <1>1
  <2> QED BY <1>4, <2>1, <2>2 DEF SampleInv
<1>8. TurnInv
  <2>1. phase \in [Processes -> {"next", "acquiring", "summarized"} \cup Failures]
    BY <1>1 DEF Failures
  <2> QED BY <1>4, <1>5, <2>1 DEF TurnInv, Acquired
<1>9. ResultInv
  BY <1>5 DEF ResultInv
<1>10. GpuInv
  BY <1>1, <1>3 DEF GpuInv
<1>11. OriginInv
  BY <1>3, <1>5 DEF OriginInv
<1>12. SavedInv
  BY <1>3, <1>4, <1>5 DEF SavedInv, AllSaved, HeldIsSaved, SampledIsSaved
<1>13. StableInv
  <2>1. ASSUME NEW p \in Processes, NEW i \in Instances PROVE local_order[<<p, i>>] = <<>>
    BY <1>3, ManagerPairs
  <2>2. Range(<<>>) = {}
    BY DEF Range
  <2> QED BY <1>4, <2>1, <2>2 DEF StableInv, StableAt
<1>14. CountInv
  <2>1. ASSUME NEW p \in Processes, NEW i \in Instances, NEW d \in Decisions
        PROVE  CountedAt(p, i, d)
    <3>1. ~ Undelivered(p, i, d)
      BY <1>4 DEF Undelivered, Acquired
    <3>2. Decided(p, i, d) = {}
      BY <1>4 DEF Decided
    <3>3. Cardinality(Decided(p, i, d)) = 0
      BY <3>2, FS_EmptySet
    <3>4. stats[<<p, i>>] = ZeroStats
      BY <1>3, ManagerPairs
    <3>5. ZeroStats[Counter(d)] = 0
      BY DEF ZeroStats, Counter
    <3> QED BY <3>1, <3>3, <3>4, <3>5 DEF CountedAt
  <2> QED BY <2>1 DEF CountInv
<1>15. ChecksFireOnlyAcrossSettings
  BY <1>4 DEF ChecksFireOnlyAcrossSettings
<1>16. \A p \in Processes : 1..Len(samples[p]) = {}
  BY <1>4
<1>17. PrefillsAreSaved
  BY <1>16 DEF PrefillsAreSaved
<1>18. StableStaysLocal
  BY <1>16 DEF StableStaysLocal
<1> QED BY <1>2, <1>6, <1>7, <1>8, <1>9, <1>10, <1>11, <1>12, <1>13, <1>14, <1>15, <1>17, <1>18
        DEF BenchInv

\* Every step of a process keeps the invariant.
LEMMA RunInv ==
  ASSUME BenchInv, NEW p \in Processes, Step(p), NoteLosses, IInv'
  PROVE  BenchInv'
<1>1. /\ Basic /\ GpuInv /\ OriginInv /\ SavedInv /\ StableInv /\ CountInv
      /\ ChecksFireOnlyAcrossSettings /\ PrefillsAreSaved /\ StableStaysLocal
  BY DEF BenchInv, Basic
<1>2. ~ lost' => ~ lost /\ AllSaved /\ RecordsKept
  BY <1>1, Losses DEF SavedInv
<1>3. phase \in [Processes -> {"next", "acquiring", "summarized"} \cup Failures]
  BY <1>1 DEF Basic, TurnInv
<1>4. CASE StartAcquire(p)
  <2>1. launched' = launched /\ samples' = samples /\ phase' = [phase EXCEPT ![p] = "acquiring"]
    BY <1>4 DEF StartAcquire, Become
  <2>2. Basic' /\ GpuInv' /\ OriginInv' /\ StableInv' /\ CountInv'
    BY <1>1, <1>4, StartBasic, StartGpu, StartOrigin, StartStable, StartCounts
  <2>3. SavedInv'
    BY <1>1, <1>2, <1>4, StartSaved DEF SavedInv
  <2>4. ChecksFireOnlyAcrossSettings' /\ PrefillsAreSaved' /\ StableStaysLocal'
    BY <1>1, <1>2, <1>3, <2>1, ChecksKept, PrefillsKept, LocalKept
  <2> QED BY <2>2, <2>3, <2>4 DEF BenchInv, Basic
<1>5. CASE GoOn(p)
  <2>1. launched' = launched /\ samples' = samples /\ phase' = phase
    BY <1>5 DEF GoOn, benchVars
  <2>2. Basic' /\ GpuInv' /\ OriginInv' /\ StableInv' /\ CountInv'
    BY <1>1, <1>5, GoOnBasic, GoOnGpu, GoOnOrigin, GoOnStable, GoOnCounts
  <2>3. SavedInv'
    BY <1>1, <1>2, <1>5, GoOnSaved DEF SavedInv
  <2>4. ChecksFireOnlyAcrossSettings' /\ PrefillsAreSaved' /\ StableStaysLocal'
    BY <1>1, <1>2, <2>1, ChecksKept, PrefillsKept, LocalKept
  <2> QED BY <2>2, <2>3, <2>4 DEF BenchInv, Basic
<1>6. CASE Deliver(p)
  <2>1. UNCHANGED vars /\ launched' = launched
    BY <1>1, <1>6, DeliverOutcome
  <2>2. Basic' /\ GpuInv' /\ OriginInv' /\ StableInv' /\ CountInv'
    BY <1>1, <1>6, <2>1, DeliverBasic, DeliverGpu, OtherOrigin, DeliverStable, DeliverCounts
  <2>3. SavedInv'
    BY <1>1, <1>2, <1>6, DeliverSaved DEF SavedInv
  <2>4. ChecksFireOnlyAcrossSettings' /\ PrefillsAreSaved' /\ StableStaysLocal'
    BY <1>1, <1>2, <1>6, <2>2, DeliverChecks, DeliverPrefills, DeliverLocal
  <2> QED BY <2>2, <2>3, <2>4 DEF BenchInv, Basic
<1>7. CASE AcquireRaised(p) \/ Summarize(p)
  <2>1. UNCHANGED vars /\ launched' = launched /\ samples' = samples
    BY <1>7 DEF AcquireRaised, Summarize
  <2>2. \A o \in Processes :
            \/ phase'[o] = phase[o]
            \/ phase'[o] \in {"acquire raised", "no samples", "summarized"}
    BY <1>3, <1>7 DEF AcquireRaised, Summarize, Become
  <2>3. Basic' /\ GpuInv' /\ OriginInv' /\ StableInv' /\ CountInv'
    BY <1>1, <1>7, <2>1, EndBasic, EndGpu, OtherOrigin, EndStable, EndCounts
  <2>4. SavedInv'
    BY <1>1, <1>2, <1>7, EndSaved DEF SavedInv
  <2>5. ChecksFireOnlyAcrossSettings' /\ PrefillsAreSaved' /\ StableStaysLocal'
    BY <1>1, <1>2, <2>1, <2>2, ChecksKept, PrefillsKept, LocalKept
  <2> QED BY <2>3, <2>4, <2>5 DEF BenchInv, Basic
<1> QED BY <1>4, <1>5, <1>6, <1>7 DEF Step

LEMMA BenchNextInv ==
  ASSUME BenchInv, [BenchNext]_allVars
  PROVE  BenchInv'
<1>1. IInv'
  BY ManagerStep, NextIInv DEF BenchInv
<1>2. ASSUME NEW p \in Processes, Run(p) PROVE BenchInv'
  BY <1>1, <1>2, RunInv DEF Run
<1>3. CASE Surroundings /\ NoteLosses
  <2>1. /\ Basic /\ GpuInv /\ OriginInv /\ SavedInv /\ StableInv /\ CountInv
        /\ ChecksFireOnlyAcrossSettings /\ PrefillsAreSaved /\ StableStaysLocal
    BY DEF BenchInv, Basic
  <2>2. UNCHANGED managerVars /\ UNCHANGED benchVars
    BY <1>3, <2>1, SurroundingsStore DEF Basic
  <2>3. ~ lost' => ~ lost /\ AllSaved /\ RecordsKept
    BY <1>3, <2>1, Losses DEF SavedInv
  <2>4. Basic' /\ GpuInv' /\ StableInv' /\ CountInv'
    BY <1>1, <2>1, <2>2, SurroundingsBasic, SurroundingsGpu, SurroundingsStable, SurroundingsCounts
  <2>5. OriginInv'
    BY <1>3, <2>1, OtherOrigin
  <2>6. SavedInv'
    BY <2>1, <2>2, <2>3, SurroundingsSaved DEF SavedInv
  <2>7. launched' = launched /\ samples' = samples /\ phase' = phase
    BY <2>2 DEF benchVars
  <2>8. ChecksFireOnlyAcrossSettings' /\ PrefillsAreSaved' /\ StableStaysLocal'
    BY <2>1, <2>3, <2>7, ChecksKept, PrefillsKept, LocalKept
  <2> QED BY <2>4, <2>5, <2>6, <2>8 DEF BenchInv, Basic
<1>4. CASE UNCHANGED allVars
  <2>1. /\ Basic /\ GpuInv /\ OriginInv /\ SavedInv /\ StableInv /\ CountInv
        /\ ChecksFireOnlyAcrossSettings /\ PrefillsAreSaved /\ StableStaysLocal
    BY DEF BenchInv, Basic
  <2>2. /\ UNCHANGED managerVars /\ UNCHANGED benchVars /\ UNCHANGED vars
        /\ lost' = lost /\ records' = records
    BY <1>4 DEF allVars, vars, managerVars, storeVars, lateVars
  <2>3. Basic' /\ GpuInv' /\ StableInv' /\ CountInv'
    BY <1>1, <2>1, <2>2, SurroundingsBasic, SurroundingsGpu, SurroundingsStable, SurroundingsCounts
  <2>4. launched' = launched /\ samples' = samples /\ phase' = phase
    BY <2>2 DEF benchVars
  <2>5. OriginInv'
    BY <2>1, <2>2, <2>4, OtherOrigin
  <2>6. SavedInv'
    BY <2>1, <2>2, SurroundingsSaved DEF SavedInv, RecordsKept
  <2>7. ChecksFireOnlyAcrossSettings' /\ PrefillsAreSaved' /\ StableStaysLocal'
    BY <2>1, <2>2, <2>4, ChecksKept, PrefillsKept, LocalKept
  <2> QED BY <2>3, <2>5, <2>6, <2>7 DEF BenchInv, Basic
<1> QED BY <1>2, <1>3, <1>4 DEF BenchNext

\* The invariant holds of any number of benchmarks and instances, with any
\* arguments, traces, bounds and losses.
THEOREM BenchInvariance == BenchSpec => []BenchInv
<1>1. BenchInit => BenchInv
  BY BenchInitInv
<1>2. BenchInv /\ [BenchNext]_allVars => BenchInv'
  BY BenchNextInv
<1> QED BY <1>1, <1>2, PTL DEF BenchSpec

\* Types; a process's managers are idle except for the one its turn names.
THEOREM BenchTypeCorrectness == BenchSpec => []BenchTypeOK
<1>1. BenchInv => BenchTypeOK
  <2> SUFFICES ASSUME BenchInv PROVE BenchTypeOK
    OBVIOUS
  <2>1. TypeOK
    BY DEF BenchInv, IInv, StoreInv, ManagerInv, CacheInv, FrameTypes, TypeOK
  <2>2. phase \in [Processes -> {"next", "acquiring", "summarized"} \cup Failures]
    BY DEF BenchInv, TurnInv
  <2>3. gpu_states \in [Managers -> [StateKeys -> Requests \cup {None}]]
    BY DEF BenchInv, GpuInv
  <2>4. \A m \in Managers : pc[m] # "idle" => phase[m[1]] = "acquiring" /\ m = Manager(m[1])
    BY DEF BenchInv, TurnInv
  <2> QED BY <2>1, <2>2, <2>3, <2>4 DEF BenchTypeOK
<1> QED BY <1>1, BenchInvariance, PTL

\* Whatever a manager holds locally its process has on the GPU, the same
\* state, whenever it is not within an acquire.
THEOREM HeldIsOnGpu == BenchSpec => []LocalHitIsOnGpu
<1>1. BenchInv => LocalHitIsOnGpu
  <2> SUFFICES ASSUME BenchInv, NEW p \in Processes, NEW i \in Instances, NEW k \in StateKeys,
                      phase[p] # "acquiring", local[<<p, i>>][k] # None
               PROVE  gpu_states[<<p, i>>][k] = local[<<p, i>>][k].payload
    BY DEF LocalHitIsOnGpu
  <2>1. <<p, i>> \in Managers /\ <<p, i>>[1] = p
    BY ManagerPairs
  <2>2. ~ ToRestore(<<p, i>>, k)
    BY <2>1 DEF ToRestore, Acquired
  <2> QED BY <2>1, <2>2 DEF BenchInv, GpuInv
<1> QED BY <1>1, BenchInvariance, PTL

\* The checks of loaded states stop a benchmark only because of one with
\* other arguments; a local hit never fails for want of its state.
THEOREM ChecksAreForSettings == BenchSpec => []ChecksFireOnlyAcrossSettings
<1>1. BenchInv => ChecksFireOnlyAcrossSettings
  BY DEF BenchInv
<1> QED BY <1>1, BenchInvariance, PTL

\* Until the store loses a record, a benchmark prefills nothing twice.
THEOREM NothingIsPrefilledTwice == BenchSpec => []PrefillsAreSaved
<1>1. BenchInv => PrefillsAreSaved
  BY DEF BenchInv
<1> QED BY <1>1, BenchInvariance, PTL

\* With stable placement and room in the local cache, every recurrence is a
\* local hit.
THEOREM RecurrencesAreLocal == BenchSpec => []StableStaysLocal
<1>1. BenchInv => StableStaysLocal
  BY DEF BenchInv
<1> QED BY <1>1, BenchInvariance, PTL

\* With round-robin placement and as many repetitions as instances, every
\* layout visits every instance.
THEOREM LayoutsCross == BenchSpec => []RoundRobinCrosses
<1>1. BenchInv => RoundRobinCrosses
  <2> SUFFICES ASSUME BenchInv, NEW p \in Processes, phase[p] = "summarized",
                      args(p).placement = "round_robin", args(p).repetitions >= InstanceCount,
                      NEW j \in 1..Len(samples[p]), NEW i \in Instances
               PROVE  \E k \in 1..Len(samples[p]) :
                        /\ samples[p][k].layout = samples[p][j].layout
                        /\ samples[p][k].instance = i
    BY DEF RoundRobinCrosses
  <2>1. SettingInv /\ SampleInv /\ launched \in Launches
    BY DEF BenchInv, SettingInv
  <2>2. PICK n \in 1..Len(Arguments) : n = launched[p] /\ args(p) = Arguments[n]
    BY <2>1, ScheduleOfType DEF args
  <2>3. j \in 1..Len(ScheduleOf(p))
    BY <2>1, SampledKeys
  <2>4. PICK turn \in TurnsOf(Arguments[n]) : turn = ScheduleOf(p)[j]
    BY <2>1, <2>2, <2>3, ScheduleOfType
  <2>5. PICK other \in Range(Schedules[n]) :
            other.invocation = turn.invocation /\ other.instance = i
    BY <2>2, RoundRobinPlace
  <2>6. ScheduleOf(p) \in Seq(TurnsOf(args(p)))
    BY <2>1, ScheduleOfType
  <2>7. PICK k \in 1..Len(ScheduleOf(p)) : other = ScheduleOf(p)[k]
    <3>1. other \in Range(ScheduleOf(p))
      BY <2>2, <2>5 DEF ScheduleOf
    <3>2. DOMAIN ScheduleOf(p) = 1..Len(ScheduleOf(p))
      BY <2>6
    <3> QED BY <3>1, <3>2 DEF Range
  <2>8. k \in 1..Len(samples[p])
    <3>1. ~ HasTurn(p)
      BY DEF BenchInv, TurnInv
    <3>2. Len(samples[p]) \in Nat /\ Len(ScheduleOf(p)) \in Nat
      BY <2>1, <2>6, SampledKeys
    <3> QED BY <3>1, <3>2 DEF HasTurn, ScheduleOf
  <2>9. \A l \in 1..Len(samples[p]) :
            /\ samples[p][l].layout = ScheduleOf(p)[l].invocation.layout
            /\ samples[p][l].instance = ScheduleOf(p)[l].instance
    <3> SUFFICES ASSUME NEW l \in 1..Len(samples[p])
                 PROVE  /\ samples[p][l].layout = ScheduleOf(p)[l].invocation.layout
                        /\ samples[p][l].instance = ScheduleOf(p)[l].instance
      OBVIOUS
    <3>1. samples[p][l] = Sample(ScheduleOf(p)[l].invocation, ScheduleOf(p)[l].instance,
                                 samples[p][l])
      BY <2>1 DEF SampleInv
    <3> QED BY <3>1 DEF Sample
  <2> QED BY <2>4, <2>5, <2>7, <2>8, <2>9
<1> QED BY <1>1, BenchInvariance, PTL

\* A summary counts the decisions of its samples.
THEOREM SummariesAreConsistent == BenchSpec => []SummaryIsConsistent
<1>1. BenchInv => SummaryIsConsistent
  <2> SUFFICES ASSUME BenchInv, NEW p \in Processes, NEW i \in Instances,
                      phase[p] = "summarized"
               PROVE  /\ Cardinality(Decided(p, i, "local_hit")) = stats[<<p, i>>].local_hits
                      /\ Cardinality(Decided(p, i, "remote_hit")) = stats[<<p, i>>].remote_hits
                      /\ Cardinality(Decided(p, i, "recompute")) = stats[<<p, i>>].recomputes
    BY DEF SummaryIsConsistent, Decided
  <2>1. ASSUME NEW d \in Decisions
        PROVE  Cardinality(Decided(p, i, d)) = stats[<<p, i>>][Counter(d)]
    <3>1. ~ Undelivered(p, i, d) /\ CountedAt(p, i, d)
      BY DEF BenchInv, CountInv, Undelivered, Acquired
    <3>2. stats[<<p, i>>][Counter(d)] = Cardinality(Decided(p, i, d)) + 0
      BY <3>1 DEF CountedAt
    <3>3. IsFiniteSet(1..Len(samples[p]))
      BY SequenceCounts DEF BenchInv, SampleInv
    <3>4. Cardinality(Decided(p, i, d)) \in Nat
      BY <3>3, FS_Subset, FS_CardinalityType DEF Decided
    <3> QED BY <3>2, <3>4
  <2> QED BY <2>1 DEF Decisions, Counter
<1> QED BY <1>1, BenchInvariance, PTL
=============================================================================
