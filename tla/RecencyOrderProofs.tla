------------------------- MODULE RecencyOrderProofs -------------------------
(***************************************************************************)
(* Facts about recency orders, the sequences without repetition by which   *)
(* an OrderedDict and the list _local_order keep their keys, least         *)
(* recently used first: removing a key, moving it to the end, and dropping *)
(* the oldest ones.                                                        *)
(***************************************************************************)
EXTENDS Integers, SequencesExt, SequenceTheorems, WellFoundedInduction, TLAPS

\* The iteration order of a dictionary has no key twice; deleting a key
\* (OrderedDict.pop, list.remove) takes exactly that key out of it.
LEMMA RemoveFirstProperties ==
  ASSUME NEW S, NEW s \in Seq(S), IsInjective(s), NEW e
  PROVE  /\ RemoveFirst(s, e) \in Seq(S)
         /\ IsInjective(RemoveFirst(s, e))
         /\ Range(RemoveFirst(s, e)) = Range(s) \ {e}
         /\ e \in Range(s) => Len(RemoveFirst(s, e)) = Len(s) - 1
         /\ e \notin Range(s) => RemoveFirst(s, e) = s
<1>1. CASE e \notin Range(s)
  <2>1. ~ \E i \in 1..Len(s) : s[i] = e
    BY <1>1 DEF Range
  <2>2. RemoveFirst(s, e) = s
    BY <2>1 DEF RemoveFirst
  <2> QED
    BY <1>1, <2>2
<1>2. CASE e \in Range(s)
  <2>1. PICK i \in 1..Len(s) : s[i] = e
    BY <1>2 DEF Range
  <2>2. {j \in 1..Len(s) : s[j] = e} = {i}
    BY <2>1 DEF IsInjective
  <2>3. SelectInSeq(s, LAMBDA v : v = e) = i
    <3>1. Min({i}) = i
      BY DEF Min
    <3> QED
      BY <2>2, <3>1 DEF SelectInSeq
  <2>4. RemoveFirst(s, e) = SubSeq(s, 1, i - 1) \o SubSeq(s, i + 1, Len(s))
    BY <2>1, <2>3 DEF RemoveFirst, RemoveAt
  <2> DEFINE r == RemoveFirst(s, e)
  <2>5. /\ r \in Seq(S)
        /\ Len(r) = Len(s) - 1
        /\ \A j \in 1..Len(s) - 1 : r[j] = IF j < i THEN s[j] ELSE s[j + 1]
    <3> DEFINE front == SubSeq(s, 1, i - 1)
               back == SubSeq(s, i + 1, Len(s))
    <3>1. /\ front \in Seq(S) /\ Len(front) = i - 1
          /\ \A j \in 1..i - 1 : front[j] = s[j]
      BY SubSeqProperties, \A j \in 1..i - 1 : s[j] \in S
    <3>2. /\ back \in Seq(S) /\ Len(back) = Len(s) - i
          /\ \A j \in 1..Len(s) - i : back[j] = s[j + i]
      BY SubSeqProperties, \A j \in i + 1..Len(s) : s[j] \in S
    <3>3. r = front \o back
      BY <2>4
    <3> HIDE DEF front, back, r
    <3>4. /\ r \in Seq(S)
          /\ Len(r) = Len(front) + Len(back)
          /\ \A j \in 1..Len(front) + Len(back) :
                r[j] = IF j <= Len(front) THEN front[j] ELSE back[j - Len(front)]
      BY <3>1, <3>2, <3>3, ConcatProperties
    <3>5. ASSUME NEW j \in 1..Len(s) - 1
          PROVE  r[j] = IF j < i THEN s[j] ELSE s[j + 1]
      <4>1. r[j] = IF j <= i - 1 THEN front[j] ELSE back[j - (i - 1)]
        BY <3>1, <3>2, <3>4
      <4>2. j <= i - 1 => front[j] = s[j]
        BY <3>1
      <4>3. j > i - 1 => back[j - (i - 1)] = s[(j - (i - 1)) + i]
        BY <3>2
      <4> QED BY <4>1, <4>2, <4>3
    <3> QED
      BY <3>1, <3>2, <3>4, <3>5
  <2> HIDE DEF r
  <2>6. IsInjective(r)
    <3>1. ASSUME NEW j \in 1..Len(s) - 1, NEW k \in 1..Len(s) - 1, r[j] = r[k]
          PROVE  j = k
      <4> DEFINE J == IF j < i THEN j ELSE j + 1
                 K == IF k < i THEN k ELSE k + 1
      <4>1. J \in 1..Len(s) /\ K \in 1..Len(s) /\ s[J] = s[K]
        BY <2>5, <3>1
      <4>2. J = K
        BY <4>1 DEF IsInjective
      <4>3. i \in Int /\ j \in Int /\ k \in Int
        BY <2>1
      <4> QED BY <4>2, <4>3
    <3> QED
      BY <2>5, <3>1 DEF IsInjective
  <2>7. Range(r) = Range(s) \ {e}
    <3>1. ASSUME NEW x \in Range(r) PROVE x \in Range(s) \ {e}
      <4>1. PICK j \in 1..Len(s) - 1 : x = r[j]
        BY <2>5 DEF Range
      <4>2. PICK k \in 1..Len(s) : k # i /\ x = s[k]
        BY <2>5, <4>1
      <4>3. s[k] # s[i]
        BY <4>2 DEF IsInjective
      <4> QED BY <2>1, <4>2, <4>3 DEF Range
    <3>2. ASSUME NEW x \in Range(s) \ {e} PROVE x \in Range(r)
      <4>1. PICK j \in 1..Len(s) : s[j] = x
        BY DEF Range
      <4>2. j # i
        BY <2>1, <4>1
      <4>3. CASE j < i
        BY <2>5, <4>1, <4>3 DEF Range
      <4>4. CASE j > i
        <5>1. r[j - 1] = x /\ j - 1 \in 1..Len(r)
          BY <2>5, <4>1, <4>4
        <5> QED BY <2>5, <5>1 DEF Range
      <4> QED BY <4>2, <4>3, <4>4
    <3> QED BY <3>1, <3>2
  <2> QED
    BY <1>2, <2>5, <2>6, <2>7 DEF r
<1> QED BY <1>1, <1>2

\* list.remove, or OrderedDict.pop, then append: the key is last, added if it
\* was new, and no other key is disturbed.
LEMMA ToEndProperties ==
  ASSUME NEW S, NEW s \in Seq(S), IsInjective(s), NEW e \in S
  PROVE  LET m == Append(RemoveFirst(s, e), e)
         IN  /\ m \in Seq(S)
             /\ IsInjective(m)
             /\ Range(m) = Range(s) \cup {e}
             /\ m # <<>>
             /\ Last(m) = e
<1> DEFINE r == RemoveFirst(s, e)
           m == Append(r, e)
<1>1. r \in Seq(S) /\ IsInjective(r) /\ Range(r) = Range(s) \ {e}
  BY RemoveFirstProperties
<1> HIDE DEF r
<1>2. /\ m \in Seq(S) /\ m # <<>> /\ Len(m) = Len(r) + 1
      /\ \A i \in 1..Len(r) : m[i] = r[i]
      /\ m[Len(r) + 1] = e
  BY <1>1
<1> HIDE DEF m
<1>3. \A i \in 1..Len(r) : r[i] # e
  BY <1>1 DEF Range
<1>4. IsInjective(m)
  <2>1. ASSUME NEW i \in 1..Len(m), NEW j \in 1..Len(m), m[i] = m[j] PROVE i = j
    BY <1>1, <1>2, <1>3, <2>1 DEF IsInjective
  <2> QED BY <1>2, <2>1 DEF IsInjective
<1>5. Range(m) = Range(r) \cup {e}
  <2>1. Len(r) \in Nat /\ DOMAIN r = 1..Len(r) /\ DOMAIN m = 1 .. Len(r) + 1
    BY <1>1, <1>2
  <2>2. \A i \in 1 .. Len(r) + 1 : i \in 1..Len(r) \/ i = Len(r) + 1
    BY <2>1
  <2>3. 1..Len(r) \subseteq 1 .. Len(r) + 1 /\ Len(r) + 1 \in 1 .. Len(r) + 1
    BY <2>1
  <2> QED BY <1>2, <2>1, <2>2, <2>3 DEF Range
<1>6. Range(r) \cup {e} = Range(s) \cup {e}
  BY <1>1
<1> QED
  BY <1>2, <1>4, <1>5, <1>6 DEF Last, m, r

\* Dropping the oldest key of an order.
LEMMA TailProperties ==
  ASSUME NEW S, NEW s \in Seq(S), IsInjective(s), s # <<>>
  PROVE  /\ Tail(s) \in Seq(S)
         /\ IsInjective(Tail(s))
         /\ Range(Tail(s)) = Range(s) \ {Head(s)}
         /\ Head(s) \in Range(s)
         /\ Len(s) > 1 => Tail(s) # <<>> /\ Last(Tail(s)) = Last(s)
<1> DEFINE r == Tail(s)
<1>1. /\ r \in Seq(S) /\ Len(r) = Len(s) - 1
      /\ \A i \in 1..Len(r) : r[i] = s[i + 1]
      /\ Head(s) = s[1]
      /\ Len(s) \in Nat \ {0}
  BY HeadTailProperties, EmptySeq
<1> HIDE DEF r
<1>2. IsInjective(r)
  <2>1. ASSUME NEW i \in 1..Len(r), NEW j \in 1..Len(r), r[i] = r[j] PROVE i = j
    <3>1. s[i + 1] = s[j + 1] /\ i + 1 \in 1..Len(s) /\ j + 1 \in 1..Len(s)
      BY <1>1, <2>1
    <3> QED BY <3>1 DEF IsInjective
  <2> QED BY <1>1, <2>1 DEF IsInjective
<1>3. Range(r) = Range(s) \ {Head(s)}
  <2>1. ASSUME NEW x \in Range(r) PROVE x \in Range(s) \ {Head(s)}
    <3>1. PICK i \in 1..Len(r) : x = r[i]
      BY <1>1 DEF Range
    <3>2. x = s[i + 1] /\ i + 1 \in 1..Len(s) /\ i + 1 # 1 /\ 1 \in 1..Len(s)
      BY <1>1, <3>1
    <3>3. x # s[1]
      BY <3>2 DEF IsInjective
    <3> QED BY <1>1, <3>2, <3>3 DEF Range
  <2>2. ASSUME NEW x \in Range(s) \ {Head(s)} PROVE x \in Range(r)
    <3>1. PICK i \in 1..Len(s) : x = s[i]
      BY DEF Range
    <3>2. i # 1
      BY <1>1, <3>1
    <3>3. i - 1 \in 1..Len(r) /\ r[i - 1] = x
      BY <1>1, <3>1, <3>2
    <3> QED BY <1>1, <3>3 DEF Range
  <2> QED BY <2>1, <2>2
<1>4. Head(s) \in Range(s)
  BY <1>1 DEF Range
<1>5. Len(s) > 1 => r # <<>> /\ Last(r) = Last(s)
  BY <1>1 DEF Last
<1> QED BY <1>1, <1>2, <1>3, <1>4, <1>5 DEF r

\* Dropping the n oldest keys of an order.
LEMMA DropOldestProperties ==
  ASSUME NEW S, NEW s \in Seq(S), NEW n \in 0..Len(s)
  PROVE  LET r == SubSeq(s, n + 1, Len(s))
         IN  /\ r \in Seq(S)
             /\ Len(r) = Len(s) - n
             /\ n < Len(s) => r # <<>> /\ Last(r) = Last(s)
             /\ IsInjective(s) => IsInjective(r)
             /\ IsInjective(s) => \A x : x \in Range(r) <=>
                                   x \in Range(s) /\ ~ \E i \in 1..n : s[i] = x
<1> DEFINE r == SubSeq(s, n + 1, Len(s))
<1>1. /\ r \in Seq(S) /\ Len(r) = Len(s) - n
      /\ \A i \in 1..Len(s) - n : r[i] = s[n + i]
  BY SubSeqProperties, \A i \in n + 1..Len(s) : s[i] \in S
<1> HIDE DEF r
<1>2. n < Len(s) => r # <<>> /\ Last(r) = Last(s)
  BY <1>1 DEF Last
<1>3. ASSUME IsInjective(s) PROVE IsInjective(r)
  <2>1. ASSUME NEW i \in 1..Len(r), NEW j \in 1..Len(r), r[i] = r[j] PROVE i = j
    <3>1. s[n + i] = s[n + j] /\ n + i \in 1..Len(s) /\ n + j \in 1..Len(s)
      BY <1>1, <2>1
    <3>2. n + i = n + j
      BY <1>3, <3>1 DEF IsInjective
    <3> QED BY <3>2
  <2> QED BY <1>1, <2>1 DEF IsInjective
<1>4. ASSUME IsInjective(s)
      PROVE  \A x : x \in Range(r) <=> x \in Range(s) /\ ~ \E i \in 1..n : s[i] = x
  <2>1. ASSUME NEW x \in Range(r) PROVE x \in Range(s) /\ ~ \E i \in 1..n : s[i] = x
    <3>1. PICK j \in 1..Len(r) : x = r[j]
      BY <1>1 DEF Range
    <3>2. x = s[n + j] /\ n + j \in 1..Len(s)
      BY <1>1, <3>1
    <3>3. ASSUME NEW i \in 1..n, s[i] = x PROVE FALSE
      <4>1. i \in 1..Len(s) /\ i # n + j
        BY <3>3, <1>1
      <4> QED BY <1>4, <3>2, <3>3, <4>1 DEF IsInjective
    <3> QED BY <3>2, <3>3 DEF Range
  <2>2. ASSUME NEW x \in Range(s), ~ \E i \in 1..n : s[i] = x PROVE x \in Range(r)
    <3>1. PICK j \in 1..Len(s) : x = s[j]
      BY DEF Range
    <3>2. j > n
      BY <2>2, <3>1
    <3>3. j - n \in 1..Len(r) /\ r[j - n] = x
      BY <1>1, <3>1, <3>2
    <3> QED BY <1>1, <3>3 DEF Range
  <2> QED BY <2>1, <2>2
<1> QED BY <1>1, <1>2, <1>3, <1>4 DEF r

\* Among some natural numbers there is a least one; the place of an induction
\* rule in the proofs.
LEMMA LeastNumber ==
  ASSUME NEW I \in SUBSET Nat, I # {}
  PROVE  \E n \in I : \A k \in I : n <= k
<1>1. PICK n \in I : \A k \in I : ~ (<<k, n>> \in OpToRel(<, Nat))
  BY NatLessThanWellFounded, WFMin, Zenon
<1>2. ASSUME NEW k \in I PROVE n <= k
  <2>1. <<k, n>> \in Nat \X Nat /\ ~ (<<k, n>> \in OpToRel(<, Nat))
    BY <1>1
  <2>2. ~ (k < n)
    BY <2>1, Zenon DEF OpToRel
  <2> QED BY <2>2
<1> QED BY <1>2

\* list.remove makes up no keys, even where a key is repeated.
LEMMA RemoveFirstType ==
  ASSUME NEW S, NEW s \in Seq(S), NEW e
  PROVE  RemoveFirst(s, e) \in Seq(S)
<1>1. CASE ~ \E i \in 1..Len(s) : s[i] = e
  BY <1>1 DEF RemoveFirst
<1>2. CASE \E i \in 1..Len(s) : s[i] = e
  <2> DEFINE I == {i \in 1..Len(s) : s[i] = e}
  <2>1. I \in SUBSET Nat /\ I # {}
    BY <1>2
  <2>2. \E n \in I : \A k \in I : n <= k
    BY <2>1, LeastNumber
  <2>3. Min(I) \in I
    BY <2>2 DEF Min
  <2>4. SelectInSeq(s, LAMBDA v : v = e) \in 1..Len(s)
    BY <2>1, <2>3 DEF SelectInSeq
  <2> HIDE DEF I
  <2>5. ASSUME NEW i \in 1..Len(s) PROVE RemoveAt(s, i) \in Seq(S)
    <3>1. SubSeq(s, 1, i - 1) \in Seq(S)
      BY SubSeqProperties, \A j \in 1..i - 1 : s[j] \in S
    <3>2. SubSeq(s, i + 1, Len(s)) \in Seq(S)
      BY SubSeqProperties, \A j \in i + 1..Len(s) : s[j] \in S
    <3> QED BY <3>1, <3>2, ConcatProperties DEF RemoveAt
  <2> QED BY <1>2, <2>4, <2>5 DEF RemoveFirst
<1> QED BY <1>1, <1>2
=============================================================================
