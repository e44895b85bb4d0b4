---------------------------- MODULE CodecProofs ----------------------------
(***************************************************************************)
(* Proofs about Codec, for every set of states and however deep they are   *)
(* nested.                                                                 *)
(***************************************************************************)
EXTENDS Codec, RecencyOrderProofs

---------------------------------------------------------------------------
(***************************************************************************)
(* What a value is made of.                                                *)
(***************************************************************************)
\* Induction on the natural numbers, for a set of them.
LEMMA AllNumbers ==
  ASSUME NEW I \in SUBSET Nat, 0 \in I, \A n \in I : n + 1 \in I
  PROVE  I = Nat
<1> DEFINE J == Nat \ I
<1> SUFFICES ASSUME J # {} PROVE FALSE
  OBVIOUS
<1>1. PICK n \in J : \A k \in J : n <= k
  <2>1. J \in SUBSET Nat
    OBVIOUS
  <2> HIDE DEF J
  <2> QED BY <2>1, LeastNumber
<1>2. n \in Nat /\ n \notin I /\ n # 0
  BY <1>1
<1>3. n - 1 \in Nat /\ ~ (n <= n - 1) /\ (n - 1) + 1 = n
  BY <1>2
<1>4. n - 1 \in I
  BY <1>1, <1>3
<1> QED BY <1>2, <1>3, <1>4

\* The levels of a value, from the top.
LEMMA BelowStep ==
  ASSUME NEW x
  PROVE  /\ Below(x)[0] = {x}
         /\ \A n \in Nat : Below(x)[n + 1] = UNION {Children(y) : y \in Below(x)[n]}
<1> DEFINE Down(S) == UNION {Children(y) : y \in S}
           Chain(f, k) == f[0] = {x} /\ \A n \in 0 .. k - 1 : f[n + 1] = Down(f[n])
           Levels(f) == f = [n \in Nat |-> IF n = 0 THEN {x} ELSE Down(f[n - 1])]
<1>1. Below(x) = CHOOSE f : Levels(f)
  BY DEF Below
<1> HIDE DEF Down
<1>2. ASSUME NEW k \in Nat PROVE \E f : Chain(f, k)
  <2> DEFINE I == {n \in Nat : \E f : Chain(f, n)}
  <2>1. 0 \in I
    <3> DEFINE f == [n \in {0} |-> {x}]
    <3>1. Chain(f, 0)
      <4>1. 0 .. 0 - 1 = {}
        OBVIOUS
      <4> QED BY <4>1
    <3> HIDE DEF f, Chain
    <3> QED BY <3>1
  <2>2. ASSUME NEW n \in I PROVE n + 1 \in I
    <3>1. PICK f : Chain(f, n)
      OBVIOUS
    <3> DEFINE g == [m \in 0 .. n + 1 |-> IF m = n + 1 THEN Down(f[n]) ELSE f[m]]
    <3>2. ASSUME NEW m \in 0 .. (n + 1) - 1 PROVE g[m + 1] = Down(g[m])
      <4>1. CASE m = n
        BY <4>1
      <4>2. CASE m # n
        <5>1. m \in 0 .. n - 1 /\ m + 1 # n + 1 /\ m # n + 1 /\ m \in 0 .. n + 1 /\ m + 1 \in 0 .. n + 1
          BY <4>2
        <5> QED BY <3>1, <5>1
      <4> QED BY <4>1, <4>2
    <3>3. g[0] = {x}
      BY <3>1
    <3>4. Chain(g, n + 1)
      <4> HIDE DEF g
      <4> QED BY <3>2, <3>3
    <3> HIDE DEF g, Chain
    <3> QED BY <3>4
  <2> HIDE DEF I
  <2>3. I = Nat
    BY <2>1, <2>2, AllNumbers DEF I
  <2> QED BY <2>3 DEF I
<1>3. ASSUME NEW k \in Nat PROVE \A f, g : Chain(f, k) /\ Chain(g, k) => f[k] = g[k]
  <2> DEFINE I == {n \in Nat : \A f, g : Chain(f, n) /\ Chain(g, n) => f[n] = g[n]}
  <2>1. 0 \in I
    OBVIOUS
  <2>2. ASSUME NEW n \in I PROVE n + 1 \in I
    <3>1. ASSUME NEW f, Chain(f, n + 1) PROVE Chain(f, n) /\ f[n + 1] = Down(f[n])
      BY <3>1
    <3> HIDE DEF Chain
    <3> QED BY <3>1
  <2> HIDE DEF I
  <2>3. I = Nat
    BY <2>1, <2>2, AllNumbers DEF I
  <2> QED BY <2>3 DEF I
<1>4. \E f : Levels(f)
  <2> DEFINE chain(k) == CHOOSE f : Chain(f, k)
             h == [n \in Nat |-> chain(n)[n]]
  <2>1. ASSUME NEW n \in Nat PROVE Chain(chain(n), n)
    <3> HIDE DEF Chain
    <3> QED BY <1>2
  <2> HIDE DEF chain
  <2>2. h[0] = {x}
    BY <2>1
  <2>3. ASSUME NEW n \in Nat \ {0} PROVE h[n] = Down(h[n - 1])
    <3>1. n - 1 \in Nat /\ (n - 1) + 1 = n
      OBVIOUS
    <3>2. Chain(chain(n), n - 1) /\ chain(n)[n] = Down(chain(n)[n - 1])
      BY <2>1, <3>1
    <3>3. Chain(chain(n - 1), n - 1)
      BY <2>1, <3>1
    <3>4. chain(n)[n - 1] = chain(n - 1)[n - 1]
      <4> HIDE DEF Chain
      <4> QED BY <1>3, <3>1, <3>2, <3>3
    <3> QED BY <3>1, <3>2, <3>4
  <2>4. h = [n \in Nat |-> IF n = 0 THEN {x} ELSE Down(h[n - 1])]
    <3>1. \A n \in Nat : h[n] = IF n = 0 THEN {x} ELSE Down(h[n - 1])
      <4> HIDE DEF h
      <4> QED BY <2>2, <2>3
    <3>2. h = [n \in Nat |-> h[n]]
      OBVIOUS
    <3> HIDE DEF h
    <3> QED BY <3>1, <3>2
  <2> HIDE DEF h
  <2> QED BY <2>4
<1>5. Levels(Below(x))
  <2> HIDE DEF Levels
  <2> QED BY <1>1, <1>4
<1> DEFINE b == Below(x)
<1> HIDE DEF b
<1>6. b = [n \in Nat |-> IF n = 0 THEN {x} ELSE Down(b[n - 1])]
  BY <1>5 DEF b
<1>7. b[0] = {x} /\ \A n \in Nat : b[n + 1] = Down(b[n])
  BY <1>6
<1> QED BY <1>7 DEF b, Down

\* The levels of a value below the top one are those of the values in it.
LEMMA BelowChildren ==
  ASSUME NEW x, NEW n \in Nat
  PROVE  Below(x)[n + 1] = UNION {Below(c)[n] : c \in Children(x)}
<1> DEFINE I == {k \in Nat : Below(x)[k + 1] = UNION {Below(c)[k] : c \in Children(x)}}
<1>1. 0 \in I
  <2>1. Below(x)[0 + 1] = Children(x)
    <3>1. Below(x)[0] = {x} /\ Below(x)[0 + 1] = UNION {Children(y) : y \in Below(x)[0]}
      BY BelowStep
    <3> QED BY <3>1
  <2>2. \A c : Below(c)[0] = {c}
    BY BelowStep
  <2> QED BY <2>1, <2>2
<1>2. ASSUME NEW k \in I PROVE k + 1 \in I
  <2>1. k \in Nat /\ k + 1 \in Nat
    OBVIOUS
  <2>2. Below(x)[(k + 1) + 1] = UNION {Children(y) : y \in Below(x)[k + 1]}
    BY <2>1, BelowStep
  <2>3. \A c : Below(c)[k + 1] = UNION {Children(y) : y \in Below(c)[k]}
    BY <2>1, BelowStep
  <2>4. Below(x)[k + 1] = UNION {Below(c)[k] : c \in Children(x)}
    OBVIOUS
  <2>5. Below(x)[(k + 1) + 1] = UNION {Below(c)[k + 1] : c \in Children(x)}
    BY <2>2, <2>3, <2>4
  <2> QED BY <2>1, <2>5
<1> HIDE DEF I
<1>3. I = Nat
  BY <1>1, <1>2, AllNumbers DEF I
<1> QED BY <1>3 DEF I

\* How deep a value may be nested.
Fits(x, n) == Below(x)[n + 1] = {}

LEMMA FitsChild ==
  ASSUME NEW x, NEW n \in Nat, Fits(x, n), NEW c \in Children(x)
  PROVE  n # 0 /\ Fits(c, n - 1)
<1>1. Below(c)[n] = {}
  BY BelowChildren DEF Fits
<1>2. Below(c)[0] # {}
  BY BelowStep
<1>3. n # 0 /\ (n - 1) + 1 = n
  BY <1>1, <1>2
<1> QED BY <1>1, <1>3 DEF Fits

LEMMA FitsLater ==
  ASSUME NEW x, NEW m \in Nat, NEW n \in Nat, m <= n, Fits(x, m)
  PROVE  Fits(x, n)
<1> DEFINE I == {k \in Nat : Below(x)[m + k + 1] = {}}
<1>1. 0 \in I
  BY DEF Fits
<1>2. ASSUME NEW k \in I PROVE k + 1 \in I
  <2>1. m + k + 1 \in Nat /\ (m + k + 1) + 1 = m + (k + 1) + 1
    OBVIOUS
  <2>2. Below(x)[(m + k + 1) + 1] = UNION {Children(y) : y \in Below(x)[m + k + 1]}
    BY <2>1, BelowStep
  <2>3. Below(x)[(m + k + 1) + 1] = {}
    BY <2>2
  <2> QED BY <2>1, <2>3
<1>3. n - m \in Nat /\ m + (n - m) + 1 = n + 1
  OBVIOUS
<1>4. n - m \in I
  <2> HIDE DEF I
  <2>1. I = Nat
    BY <1>1, <1>2, AllNumbers DEF I
  <2> QED BY <1>3, <2>1
<1> QED BY <1>3, <1>4 DEF Fits

\* A value fits one level deeper than what it holds.
LEMMA FitsAll ==
  ASSUME NEW x, NEW n \in Nat, \A c \in Children(x) : n # 0 /\ Fits(c, n - 1)
  PROVE  Fits(x, n)
<1>1. ASSUME NEW c \in Children(x) PROVE Below(c)[n] = {}
  <2>1. n # 0 /\ Fits(c, n - 1) /\ (n - 1) + 1 = n
    OBVIOUS
  <2> QED BY <2>1 DEF Fits
<1> QED BY <1>1, BelowChildren DEF Fits

LEMMA DeepestType == Deepest \in Nat /\ MaxNesting \in Nat /\ 1 <= Deepest /\ MaxNesting <= Deepest
BY ValueAssumption DEF Deepest

\* What a value holds, at any level.
Inside(x) == UNION {Parts(c) : c \in Children(x)}

LEMMA PartOfItself ==
  ASSUME NEW x
  PROVE  x \in Parts(x) /\ Children(x) \subseteq Parts(x) /\ Children(x) \subseteq Inside(x)
<1>1. ASSUME NEW y PROVE y \in Parts(y)
  BY BelowStep, DeepestType DEF Parts
<1>2. Below(x)[0] = {x} /\ Below(x)[0 + 1] = UNION {Children(y) : y \in Below(x)[0]}
  BY BelowStep
<1>3. Children(x) = Below(x)[1] /\ 1 \in 0 .. Deepest
  BY <1>2, DeepestType
<1> QED BY <1>1, <1>3 DEF Parts, Inside

LEMMA PartsStep ==
  ASSUME NEW x, NEW n \in 0 .. Deepest, Fits(x, n)
  PROVE  Parts(x) = {x} \cup Inside(x)
<1>1. n \in Nat /\ Deepest \in Nat /\ n <= Deepest
  BY DeepestType
<1>2. ASSUME NEW k \in 0 .. Deepest, k # 0 PROVE Below(x)[k] \subseteq Inside(x)
  <2>1. k - 1 \in Nat /\ (k - 1) + 1 = k /\ k - 1 \in 0 .. Deepest
    BY <1>1, <1>2
  <2>2. Below(x)[k] = UNION {Below(c)[k - 1] : c \in Children(x)}
    BY <2>1, BelowChildren
  <2> QED BY <2>1, <2>2 DEF Inside, Parts
<1>3. ASSUME NEW c \in Children(x), NEW k \in 0 .. Deepest PROVE Below(c)[k] \subseteq Parts(x)
  <2>1. k \in Nat
    BY <1>1
  <2>2. Below(c)[k] \subseteq Below(x)[k + 1]
    BY <2>1, BelowChildren
  <2>3. CASE k = Deepest
    <3>1. Fits(x, k)
      BY <1>1, <2>3, FitsLater
    <3> QED BY <2>2, <3>1 DEF Fits
  <2>4. CASE k # Deepest
    <3>1. k + 1 \in 0 .. Deepest
      BY <1>1, <2>4
    <3> QED BY <2>2, <3>1 DEF Parts
  <2> QED BY <2>3, <2>4
<1>4. Parts(x) \subseteq {x} \cup Inside(x)
  BY <1>2, BelowStep DEF Parts
<1>5. Inside(x) \subseteq Parts(x)
  BY <1>3 DEF Inside, Parts
<1> QED BY <1>4, <1>5, PartOfItself

LEMMA PartsProperties ==
  ASSUME NEW n \in 0 .. Deepest, NEW x, Fits(x, n), NEW y \in Parts(x)
  PROVE  Fits(y, n) /\ Parts(y) \subseteq Parts(x)
<1> DEFINE I == {k \in Nat : k <= Deepest =>
                    \A z : Fits(z, k) => \A w \in Parts(z) : Fits(w, k) /\ Parts(w) \subseteq Parts(z)}
<1>1. ASSUME NEW k \in Nat, k <= Deepest, k # 0 => k - 1 \in I, NEW z, Fits(z, k), NEW w \in Parts(z)
      PROVE  Fits(w, k) /\ Parts(w) \subseteq Parts(z)
  <2>1. k \in 0 .. Deepest
    BY <1>1, DeepestType
  <2>2. Parts(z) = {z} \cup Inside(z)
    BY <1>1, <2>1, PartsStep
  <2>3. CASE w = z
    BY <1>1, <2>3
  <2>4. CASE w \in Inside(z)
    <3>1. PICK c \in Children(z) : w \in Parts(c)
      BY <2>4 DEF Inside
    <3>2. k # 0 /\ Fits(c, k - 1)
      BY <1>1, FitsChild
    <3>3. k - 1 \in Nat /\ k - 1 <= Deepest /\ k - 1 <= k
      BY <1>1, <3>2, DeepestType
    <3>4. Fits(w, k - 1) /\ Parts(w) \subseteq Parts(c)
      BY <1>1, <3>1, <3>2, <3>3
    <3>5. Parts(c) \subseteq Parts(z)
      BY <2>2 DEF Inside
    <3> QED BY <3>3, <3>4, <3>5, FitsLater
  <2> QED BY <1>1, <2>2, <2>3, <2>4
<1>2. 0 \in I
  <2>1. ~ (0 # 0)
    OBVIOUS
  <2> HIDE DEF I
  <2>2. 0 \in Nat /\ \A z : 0 <= Deepest /\ Fits(z, 0) => \A w \in Parts(z) : Fits(w, 0) /\ Parts(w) \subseteq Parts(z)
    BY <1>1, <2>1
  <2> QED BY <2>2 DEF I
<1>3. ASSUME NEW k \in I PROVE k + 1 \in I
  <2>1. k + 1 \in Nat /\ (k + 1) - 1 = k
    OBVIOUS
  <2> HIDE DEF I
  <2>2. \A z : k + 1 <= Deepest /\ Fits(z, k + 1) =>
            \A w \in Parts(z) : Fits(w, k + 1) /\ Parts(w) \subseteq Parts(z)
    BY <1>1, <1>3, <2>1
  <2> QED BY <2>1, <2>2 DEF I
<1>4. I = Nat
  <2> HIDE DEF I
  <2> QED BY <1>2, <1>3, AllNumbers DEF I
<1>5. n \in Nat /\ n <= Deepest
  BY DeepestType
<1> QED BY <1>4, <1>5

LEMMA InsideProperties ==
  ASSUME NEW n \in 0 .. Deepest, NEW x, Fits(x, n), NEW y \in Inside(x)
  PROVE  /\ n # 0 /\ n - 1 \in 0 .. Deepest
         /\ Fits(y, n - 1)
         /\ y \in Parts(x) /\ Parts(y) \subseteq Inside(x) /\ Inside(y) \subseteq Inside(x)
<1>1. PICK c \in Children(x) : y \in Parts(c)
  BY DEF Inside
<1>2. n \in Nat
  BY DeepestType
<1>3. n # 0 /\ Fits(c, n - 1)
  BY <1>2, FitsChild
<1>4. n - 1 \in 0 .. Deepest
  BY <1>2, <1>3, DeepestType
<1>5. Fits(y, n - 1) /\ Parts(y) \subseteq Parts(c)
  BY <1>1, <1>3, <1>4, PartsProperties
<1>6. Parts(y) = {y} \cup Inside(y)
  BY <1>4, <1>5, PartsStep
<1>7. Parts(c) \subseteq Inside(x) /\ Inside(x) \subseteq Parts(x)
  BY PartsStep DEF Inside
<1> QED BY <1>1, <1>3, <1>4, <1>5, <1>6, <1>7

---------------------------------------------------------------------------
(***************************************************************************)
(* The recursion, once for the three functions that follow a value.        *)
(***************************************************************************)
Step(m, d, y, f) ==
    CASE m = "pack" -> PackStep(y, f)
      [] m = "unpack" -> UnpackStep(y, d, f)
      [] OTHER -> MoveStep(y, d, f)

IsRun(f, m, d, x) == f = [y \in Parts(x) |-> Step(m, d, y, f)]

Outcome(m, d, x) == (CHOOSE f : IsRun(f, m, d, x))[x]

LEMMA EachOfAgreeing ==
  ASSUME NEW xs, NEW f, NEW g, \A y \in Range(xs) : f[y] = g[y]
  PROVE  Each(xs, f) = Each(xs, g)
<1>1. \A k \in DOMAIN xs : f[xs[k]] = g[xs[k]]
  BY DEF Range
<1> QED BY <1>1 DEF Each

\* A step reads only the results for what is inside the value.
LEMMA StepIsLocal ==
  ASSUME NEW m, NEW d, NEW x, NEW f, NEW g, \A y \in Inside(x) : f[y] = g[y]
  PROVE  Step(m, d, x, f) = Step(m, d, x, g)
<1>1. \A y \in Children(x) : f[y] = g[y]
  BY PartOfItself
<1>2. x.t = "dict" => Each(x.entries, f) = Each(x.entries, g)
  <2> SUFFICES ASSUME x.t = "dict" PROVE Each(x.entries, f) = Each(x.entries, g)
    OBVIOUS
  <2>1. Range(x.entries) = Children(x)
    BY DEF Children
  <2> QED BY <1>1, <2>1, EachOfAgreeing
<1>3. x.t \in {"list", "tuple"} => Each(x.items, f) = Each(x.items, g)
  <2> SUFFICES ASSUME x.t \in {"list", "tuple"} PROVE Each(x.items, f) = Each(x.items, g)
    OBVIOUS
  <2>1. Range(x.items) = Children(x)
    BY DEF Children
  <2> QED BY <1>1, <2>1, EachOfAgreeing
<1>4. PackStep(x, f) = PackStep(x, g)
  BY <1>2, <1>3 DEF PackStep
<1>5. MoveStep(x, d, f) = MoveStep(x, d, g)
  BY <1>2, <1>3 DEF MoveStep
<1>6. Kind(x) = Str("tuple") => UnpackItems(Field(x, "items"), f) = UnpackItems(Field(x, "items"), g)
  <2> SUFFICES ASSUME Kind(x) = Str("tuple")
               PROVE  UnpackItems(Field(x, "items"), f) = UnpackItems(Field(x, "items"), g)
    OBVIOUS
  <2> DEFINE c == Field(x, "items")
  <2>1. x.t = "dict"
    BY DEF Kind, Str, Nothing
  <2>2. CASE c.t = "list" /\ "items" \in DOMAIN x.entries
    <3>1. c \in Children(x)
      BY <2>1, <2>2 DEF Field, Children, Range
    <3>2. Range(c.items) = Children(c)
      BY <2>2 DEF Children
    <3>3. Children(c) \subseteq Inside(x)
      BY <3>1, PartOfItself DEF Inside
    <3> HIDE DEF c
    <3>4. Each(c.items, f) = Each(c.items, g)
      BY <3>2, <3>3, EachOfAgreeing
    <3> QED BY <2>2, <3>4 DEF UnpackItems, c
  <2>3. CASE ~ (c.t = "list" /\ "items" \in DOMAIN x.entries)
    <3>1. c.t # "list"
      BY <2>3 DEF Field, Raise
    <3> HIDE DEF c
    <3> QED BY <3>1 DEF UnpackItems, c
  <2> QED BY <2>2, <2>3
<1>7. UnpackStep(x, d, f) = UnpackStep(x, d, g)
  BY <1>2, <1>3, <1>6 DEF UnpackStep
<1> QED BY <1>4, <1>5, <1>7 DEF Step

\* A run on a value is one on each of its parts.
LEMMA RunOnPart ==
  ASSUME NEW n \in 0 .. Deepest, NEW x, Fits(x, n), NEW y \in Parts(x),
         NEW m, NEW d, NEW f, IsRun(f, m, d, x)
  PROVE  IsRun([z \in Parts(y) |-> f[z]], m, d, y)
<1> DEFINE g == [z \in Parts(y) |-> f[z]]
<1>1. Fits(y, n) /\ Parts(y) \subseteq Parts(x)
  BY PartsProperties
<1>2. ASSUME NEW z \in Parts(y) PROVE g[z] = Step(m, d, z, g)
  <2>1. Fits(z, n) /\ Parts(z) \subseteq Parts(y)
    BY <1>1, PartsProperties
  <2>2. Inside(z) \subseteq Parts(y)
    BY <2>1, PartsStep
  <2>3. Step(m, d, z, f) = Step(m, d, z, g)
    BY <2>2, StepIsLocal
  <2>4. f[z] = Step(m, d, z, f)
    BY <1>1 DEF IsRun
  <2> QED BY <2>3, <2>4
<1>3. g = [z \in Parts(y) |-> g[z]]
  OBVIOUS
<1> HIDE DEF g
<1>4. g = [z \in Parts(y) |-> Step(m, d, z, g)]
  BY <1>2, <1>3
<1>5. IsRun(g, m, d, y)
  BY <1>4 DEF IsRun
<1> QED BY <1>5 DEF g

\* A value has one run, and the result for each part is that of the part.
LEMMA RunsExist ==
  ASSUME NEW m, NEW d, NEW n \in 0 .. Deepest, NEW x, Fits(x, n)
  PROVE  /\ \E f : IsRun(f, m, d, x)
         /\ \A f : IsRun(f, m, d, x) => \A y \in Parts(x) : f[y] = Outcome(m, d, y)
<1> DEFINE Good(z) == /\ \E f : IsRun(f, m, d, z)
                      /\ \A f, g : IsRun(f, m, d, z) /\ IsRun(g, m, d, z) => f[z] = g[z]
           I == {k \in Nat : k <= Deepest => \A z : Fits(z, k) => Good(z)}
<1>1. ASSUME NEW z, Good(z), NEW f, IsRun(f, m, d, z) PROVE f[z] = Outcome(m, d, z)
  <2> DEFINE h == CHOOSE g : IsRun(g, m, d, z)
  <2>1. IsRun(h, m, d, z)
    BY <1>1
  <2>2. f[z] = h[z]
    <3> HIDE DEF h
    <3> QED BY <1>1, <2>1
  <2> QED BY <2>2 DEF Outcome
<1>2. ASSUME NEW k \in 0 .. Deepest, NEW z, Fits(z, k), \A w \in Parts(z) : Good(w),
             NEW f, IsRun(f, m, d, z), NEW w \in Parts(z)
      PROVE  f[w] = Outcome(m, d, w)
  <2> DEFINE g == [v \in Parts(w) |-> f[v]]
  <2>1. IsRun(g, m, d, w)
    BY <1>2, RunOnPart
  <2>2. g[w] = f[w]
    BY PartOfItself
  <2> HIDE DEF g, Good
  <2>3. Good(w)
    BY <1>2
  <2> QED BY <1>1, <2>1, <2>2, <2>3
<1>3. ASSUME NEW k \in 0 .. Deepest, k # 0 => k - 1 \in I, NEW z, Fits(z, k) PROVE Good(z)
  <2> DEFINE inner == [y \in Inside(z) |-> Outcome(m, d, y)]
             f == [y \in Parts(z) |-> IF y = z THEN Step(m, d, z, inner) ELSE Outcome(m, d, y)]
  <2> HIDE DEF Good
  <2>1. ASSUME NEW y \in Inside(z) PROVE Good(y)
    <3>1. k # 0 /\ k - 1 \in 0 .. Deepest /\ Fits(y, k - 1)
      BY <1>3, InsideProperties
    <3> QED BY <1>3, <3>1, DeepestType
  <2>2. ASSUME NEW y \in Inside(z), NEW g, IsRun(g, m, d, z) PROVE g[y] = Outcome(m, d, y)
    <3> DEFINE h == [v \in Parts(y) |-> g[v]]
    <3>1. y \in Parts(z)
      BY <1>3, InsideProperties
    <3>2. IsRun(h, m, d, y)
      BY <1>3, <2>2, <3>1, RunOnPart
    <3>3. h[y] = g[y]
      BY PartOfItself
    <3> HIDE DEF h
    <3> QED BY <1>1, <2>1, <3>2, <3>3
  <2>3. ASSUME NEW g, NEW h, IsRun(g, m, d, z), IsRun(h, m, d, z) PROVE g[z] = h[z]
    <3>1. \A y \in Inside(z) : g[y] = h[y]
      BY <2>2, <2>3
    <3>2. Step(m, d, z, g) = Step(m, d, z, h)
      BY <3>1, StepIsLocal
    <3>3. g[z] = Step(m, d, z, g) /\ h[z] = Step(m, d, z, h)
      BY <2>3, PartOfItself DEF IsRun
    <3> QED BY <3>2, <3>3
  <2>4. \E g : IsRun(g, m, d, z)
    <3>1. CASE z \in Inside(z)
      BY <2>1, <3>1 DEF Good
    <3>2. CASE z \notin Inside(z)
      <4>1. Parts(z) = {z} \cup Inside(z)
        BY <1>3, PartsStep
      <4>2. \A y \in Inside(z) : f[y] = Outcome(m, d, y) /\ inner[y] = f[y]
        BY <3>2, <4>1
      <4>3. f[z] = Step(m, d, z, f)
        <5>1. f[z] = Step(m, d, z, inner)
          BY <4>1
        <5> HIDE DEF f, inner
        <5>2. Step(m, d, z, inner) = Step(m, d, z, f)
          BY <4>2, StepIsLocal
        <5> QED BY <5>1, <5>2
      <4>4. ASSUME NEW y \in Inside(z) PROVE f[y] = Step(m, d, y, f)
        <5>1. k - 1 \in 0 .. Deepest /\ Fits(y, k - 1) /\ Inside(y) \subseteq Inside(z)
              /\ Parts(y) \subseteq Inside(z)
          BY <1>3, InsideProperties
        <5>2. PICK g : IsRun(g, m, d, y)
          BY <2>1 DEF Good
        <5>3. \A w \in Parts(y) : g[w] = Outcome(m, d, w)
          BY <1>2, <2>1, <5>1, <5>2
        <5>4. Inside(y) \subseteq Parts(y) /\ y \in Parts(y)
          BY <5>1, PartsStep
        <5> HIDE DEF f
        <5>5. \A w \in Inside(y) : g[w] = f[w]
          BY <4>2, <5>1, <5>3, <5>4
        <5>6. Step(m, d, y, g) = Step(m, d, y, f)
          BY <5>5, StepIsLocal
        <5>7. g[y] = Step(m, d, y, g)
          BY <5>2, <5>4 DEF IsRun
        <5> QED BY <4>2, <5>3, <5>4, <5>6, <5>7
      <4>5. f = [y \in Parts(z) |-> f[y]]
        OBVIOUS
      <4> HIDE DEF f
      <4>6. f = [y \in Parts(z) |-> Step(m, d, y, f)]
        BY <4>1, <4>3, <4>4, <4>5
      <4> QED BY <4>6 DEF IsRun
    <3> QED BY <3>1, <3>2
  <2> QED BY <2>3, <2>4 DEF Good
<1>4. I = Nat
  <2>1. 0 \in I
    <3>1. ~ (0 # 0) /\ (0 <= Deepest => 0 \in 0 .. Deepest)
      BY DeepestType
    <3> HIDE DEF I, Good
    <3>2. 0 <= Deepest => \A z : Fits(z, 0) => Good(z)
      BY <1>3, <3>1
    <3> QED BY <3>2 DEF I
  <2>2. ASSUME NEW k \in I PROVE k + 1 \in I
    <3>1. k \in Nat /\ k + 1 \in Nat /\ (k + 1) - 1 = k /\ (k + 1 <= Deepest => k + 1 \in 0 .. Deepest)
      BY DeepestType
    <3> HIDE DEF I, Good
    <3>2. k + 1 <= Deepest => \A z : Fits(z, k + 1) => Good(z)
      BY <1>3, <2>2, <3>1
    <3> QED BY <3>1, <3>2 DEF I
  <2> HIDE DEF I
  <2>3. I \in SUBSET Nat
    BY DEF I
  <2> QED BY <2>1, <2>2, <2>3, AllNumbers
<1>5. \A z : Fits(z, n) => Good(z)
  <2>1. n \in Nat /\ n <= Deepest
    BY DeepestType
  <2> HIDE DEF Good
  <2> QED BY <1>4, <2>1
<1> HIDE DEF Good, I
<1>6. \A w \in Parts(x) : Good(w)
  BY <1>5, PartsProperties
<1>7. \E f : IsRun(f, m, d, x)
  BY <1>5 DEF Good
<1> QED BY <1>2, <1>6, <1>7

\* The result for a value, from those for what it holds.
LEMMA OutcomeStep ==
  ASSUME NEW m, NEW d, NEW n \in 0 .. Deepest, NEW x, Fits(x, n), NEW f,
         \A y \in Inside(x) : f[y] = Outcome(m, d, y)
  PROVE  Outcome(m, d, x) = Step(m, d, x, f)
<1>1. PICK g : IsRun(g, m, d, x)
  BY RunsExist
<1>2. \A y \in Parts(x) : g[y] = Outcome(m, d, y)
  BY <1>1, RunsExist
<1>3. Inside(x) \subseteq Parts(x) /\ x \in Parts(x)
  BY PartsStep
<1>4. Step(m, d, x, g) = Step(m, d, x, f)
  BY <1>2, <1>3, StepIsLocal
<1>5. g[x] = Step(m, d, x, g)
  BY <1>1, <1>3 DEF IsRun
<1> QED BY <1>2, <1>3, <1>4, <1>5

LEMMA OutcomeOf ==
  ASSUME NEW d, NEW n \in 0 .. Deepest, NEW x, Fits(x, n)
  PROVE  /\ _pack(x) = Outcome("pack", d, x)
         /\ _unpack(x, d) = Outcome("unpack", d, x)
         /\ OnDevice(x, d) = Outcome("move", d, x)
<1>1. x \in Parts(x)
  BY PartOfItself
<1>2. _pack(x) = Outcome("pack", d, x)
  <2> DEFINE P(f) == f = [y \in Parts(x) |-> PackStep(y, f)]
             g == CHOOSE f : P(f)
  <2>1. \A f : P(f) <=> IsRun(f, "pack", d, x)
    BY DEF IsRun, Step
  <2>2. _pack(x) = g[x]
    BY DEF _pack
  <2> HIDE DEF P
  <2>3. \E f : P(f)
    BY <2>1, RunsExist
  <2>4. P(g)
    BY <2>3
  <2> HIDE DEF g
  <2> QED BY <1>1, <2>1, <2>2, <2>4, RunsExist
<1>3. _unpack(x, d) = Outcome("unpack", d, x)
  <2> DEFINE P(f) == f = [y \in Parts(x) |-> UnpackStep(y, d, f)]
             g == CHOOSE f : P(f)
  <2>1. \A f : P(f) <=> IsRun(f, "unpack", d, x)
    BY DEF IsRun, Step
  <2>2. _unpack(x, d) = g[x]
    BY DEF _unpack
  <2> HIDE DEF P
  <2>3. \E f : P(f)
    BY <2>1, RunsExist
  <2>4. P(g)
    BY <2>3
  <2> HIDE DEF g
  <2> QED BY <1>1, <2>1, <2>2, <2>4, RunsExist
<1>4. OnDevice(x, d) = Outcome("move", d, x)
  <2> DEFINE P(f) == f = [y \in Parts(x) |-> MoveStep(y, d, f)]
             g == CHOOSE f : P(f)
  <2>1. \A f : P(f) <=> IsRun(f, "move", d, x)
    BY DEF IsRun, Step
  <2>2. OnDevice(x, d) = g[x]
    BY DEF OnDevice
  <2> HIDE DEF P
  <2>3. \E f : P(f)
    BY <2>1, RunsExist
  <2>4. P(g)
    BY <2>3
  <2> HIDE DEF g
  <2> QED BY <1>1, <2>1, <2>2, <2>4, RunsExist
<1> QED BY <1>2, <1>3, <1>4

---------------------------------------------------------------------------
(***************************************************************************)
(* The three functions, one case per type.                                 *)
(***************************************************************************)
PackedAll(xs) == [k \in DOMAIN xs |-> _pack(xs[k])]
UnpackedAll(xs, d) == [k \in DOMAIN xs |-> _unpack(xs[k], d)]
MovedAll(xs, d) == [k \in DOMAIN xs |-> OnDevice(xs[k], d)]

LEMMA ChildrenOfContainer ==
  ASSUME NEW x
  PROVE  /\ x.t = "dict" => \A k \in DOMAIN x.entries : x.entries[k] \in Children(x)
         /\ x.t \in {"list", "tuple"} => \A k \in DOMAIN x.items : x.items[k] \in Children(x)
BY DEF Children, Range

LEMMA PackRule ==
  ASSUME NEW n \in 0 .. Deepest, NEW x, Fits(x, n)
  PROVE  /\ x.t = "cache" => _pack(x) = PackCache(x)
         /\ x.t = "tensor" => _pack(x) = Tagged("tensor", "value", To(x, "cpu"))
         /\ x.t = "dict" => _pack(x) = Whole(Dict(PackedAll(x.entries)), PackedAll(x.entries))
         /\ x.t = "list" => _pack(x) = Whole(List(PackedAll(x.items)), PackedAll(x.items))
         /\ x.t = "tuple" => _pack(x) = Whole(PackTuple(PackedAll(x.items)), PackedAll(x.items))
         /\ x.t \in {"none", "number", "str"} => _pack(x) = x
         /\ x.t = "other" => _pack(x) = Raise
<1> DEFINE f == [y \in Inside(x) |-> _pack(y)]
<1>1. \A y \in Inside(x) : f[y] = _pack(y)
  OBVIOUS
<1> HIDE DEF f
<1>2. \A y \in Inside(x) : f[y] = Outcome("pack", 0, y)
  BY <1>1, InsideProperties, OutcomeOf
<1>3. _pack(x) = PackStep(x, f)
  <2>1. _pack(x) = Outcome("pack", 0, x)
    BY OutcomeOf
  <2>2. Outcome("pack", 0, x) = Step("pack", 0, x, f)
    BY <1>2, OutcomeStep
  <2> QED BY <2>1, <2>2 DEF Step
<1>4. x.t = "dict" => Each(x.entries, f) = PackedAll(x.entries)
  BY <1>1, ChildrenOfContainer, PartOfItself DEF Each, PackedAll
<1>5. x.t \in {"list", "tuple"} => Each(x.items, f) = PackedAll(x.items)
  BY <1>1, ChildrenOfContainer, PartOfItself DEF Each, PackedAll
<1> QED BY <1>3, <1>4, <1>5 DEF PackStep

LEMMA UnpackRule ==
  ASSUME NEW n \in 0 .. Deepest, NEW x, Fits(x, n), NEW d
  PROVE  /\ Kind(x) = Str("tensor") => _unpack(x, d) = To(Field(x, "value"), d)
         /\ Kind(x) = Str("tuple") =>
              \E items : /\ _unpack(x, d) = Whole(Tuple(items), items)
                         /\ "items" \in DOMAIN x.entries /\ x.entries["items"].t = "list" =>
                                items = UnpackedAll(x.entries["items"].items, d)
         /\ Kind(x) = Str("dynamic_cache") => _unpack(x, d) = UnpackCache(x, d)
         /\ x.t = "list" => _unpack(x, d) = Whole(List(UnpackedAll(x.items, d)), UnpackedAll(x.items, d))
         /\ x.t = "dict" /\ Kind(x) \notin Kinds =>
              _unpack(x, d) = Whole(Dict(UnpackedAll(x.entries, d)), UnpackedAll(x.entries, d))
         /\ x.t \notin {"list", "dict"} => _unpack(x, d) = x
<1> DEFINE f == [y \in Inside(x) |-> _unpack(y, d)]
<1>1. \A y \in Inside(x) : f[y] = _unpack(y, d)
  OBVIOUS
<1> HIDE DEF f
<1>2. \A y \in Inside(x) : f[y] = Outcome("unpack", d, y)
  BY <1>1, InsideProperties, OutcomeOf
<1>3. _unpack(x, d) = UnpackStep(x, d, f)
  BY <1>2, OutcomeStep, OutcomeOf DEF Step
<1>4. x.t = "dict" => Each(x.entries, f) = UnpackedAll(x.entries, d)
  BY <1>1, ChildrenOfContainer, PartOfItself DEF Each, UnpackedAll
<1>5. x.t = "list" => Each(x.items, f) = UnpackedAll(x.items, d)
  BY <1>1, ChildrenOfContainer, PartOfItself DEF Each, UnpackedAll
<1>6. x.t # "dict" => Kind(x) = Nothing
  BY DEF Kind
<1>7. Nothing # Str("tensor") /\ Nothing # Str("tuple") /\ Nothing # Str("dynamic_cache")
      /\ Str("tensor") # Str("tuple") /\ Str("tensor") # Str("dynamic_cache") /\ Str("tuple") # Str("dynamic_cache")
  <2>1. Nothing.t = "none" /\ \A s : Str(s).t = "str" /\ Str(s).v = s
    BY DEF Nothing, Str
  <2> QED BY <2>1
<1>8. Kind(x) \in Kinds <=> Kind(x) = Str("tensor") \/ Kind(x) = Str("tuple") \/ Kind(x) = Str("dynamic_cache")
  BY DEF Kinds
<1>9. ASSUME Kind(x) = Str("tuple")
      PROVE  \E items : /\ _unpack(x, d) = Whole(Tuple(items), items)
                        /\ "items" \in DOMAIN x.entries /\ x.entries["items"].t = "list" =>
                                items = UnpackedAll(x.entries["items"].items, d)
  <2> DEFINE items == UnpackItems(Field(x, "items"), f)
  <2>1. _unpack(x, d) = Whole(Tuple(items), items)
    BY <1>3, <1>6, <1>7, <1>8, <1>9 DEF UnpackStep
  <2>2. ASSUME "items" \in DOMAIN x.entries, x.entries["items"].t = "list"
        PROVE  items = UnpackedAll(x.entries["items"].items, d)
    <3> DEFINE c == x.entries["items"]
    <3>1. c \in Children(x)
      BY <1>6, <1>7, <1>9, <2>2, ChildrenOfContainer
    <3>2. Children(c) \subseteq Inside(x)
      BY <3>1, PartOfItself DEF Inside
    <3>3. items = Each(c.items, f)
      BY <2>2 DEF UnpackItems, Field
    <3> HIDE DEF c
    <3>4. Each(c.items, f) = UnpackedAll(c.items, d)
      BY <1>1, <2>2, <3>2, ChildrenOfContainer DEF Each, UnpackedAll, c
    <3> QED BY <3>3, <3>4 DEF c
  <2> HIDE DEF items
  <2> QED BY <2>1, <2>2
<1>10. /\ Kind(x) = Str("tensor") => _unpack(x, d) = To(Field(x, "value"), d)
       /\ Kind(x) = Str("dynamic_cache") => _unpack(x, d) = UnpackCache(x, d)
  BY <1>3, <1>6, <1>7, <1>8 DEF UnpackStep
<1>11. x.t = "list" => _unpack(x, d) = Whole(List(UnpackedAll(x.items, d)), UnpackedAll(x.items, d))
  BY <1>3, <1>5, <1>6, <1>7 DEF UnpackStep
<1>12. x.t = "dict" /\ Kind(x) \notin Kinds =>
              _unpack(x, d) = Whole(Dict(UnpackedAll(x.entries, d)), UnpackedAll(x.entries, d))
  BY <1>3, <1>4, <1>8 DEF UnpackStep
<1>13. x.t \notin {"list", "dict"} => _unpack(x, d) = x
  BY <1>3, <1>6, <1>7 DEF UnpackStep
<1> QED BY <1>9, <1>10, <1>11, <1>12, <1>13

LEMMA MoveRule ==
  ASSUME NEW n \in 0 .. Deepest, NEW x, Fits(x, n), NEW d
  PROVE  /\ x.t = "tensor" => OnDevice(x, d) = To(x, d)
         /\ x.t = "cache" => OnDevice(x, d) =
                Cache([j \in 1..Len(x.layers) |-> [k \in 1..2 |-> To(x.layers[j][k], d)]])
         /\ x.t = "dict" => OnDevice(x, d) = Dict(MovedAll(x.entries, d))
         /\ x.t = "list" => OnDevice(x, d) = List(MovedAll(x.items, d))
         /\ x.t = "tuple" => OnDevice(x, d) = Tuple(MovedAll(x.items, d))
         /\ x.t \in {"none", "number", "str"} => OnDevice(x, d) = x
<1> DEFINE f == [y \in Inside(x) |-> OnDevice(y, d)]
<1>1. \A y \in Inside(x) : f[y] = OnDevice(y, d)
  OBVIOUS
<1> HIDE DEF f
<1>2. \A y \in Inside(x) : f[y] = Outcome("move", d, y)
  BY <1>1, InsideProperties, OutcomeOf
<1>3. OnDevice(x, d) = MoveStep(x, d, f)
  BY <1>2, OutcomeStep, OutcomeOf DEF Step
<1>4. x.t = "dict" => Each(x.entries, f) = MovedAll(x.entries, d)
  BY <1>1, ChildrenOfContainer, PartOfItself DEF Each, MovedAll
<1>5. x.t \in {"list", "tuple"} => Each(x.items, f) = MovedAll(x.items, d)
  BY <1>1, ChildrenOfContainer, PartOfItself DEF Each, MovedAll
<1> QED BY <1>3, <1>4, <1>5 DEF MoveStep

---------------------------------------------------------------------------
(***************************************************************************)
(* What _pack makes.                                                       *)
(***************************************************************************)
Plain(y) == y.t \notin {"cache", "other"} /\ (y.t = "tensor" => y.device = "cpu")

\* Plain throughout, and not too deep.
PlainTo(p, n) == Fits(p, n) /\ \A y \in Parts(p) : Plain(y)

Packed(p, n) == PlainTo(p, n) /\ p.t \in {"dict", "list", "none", "number", "str"}

LEMMA PlainAll ==
  ASSUME NEW n \in 0 .. Deepest, NEW p, Plain(p),
         \A c \in Children(p) : n # 0 /\ PlainTo(c, n - 1)
  PROVE  PlainTo(p, n)
<1>1. Fits(p, n)
  BY FitsAll, DeepestType DEF PlainTo
<1>2. Parts(p) = {p} \cup Inside(p)
  BY <1>1, PartsStep
<1> QED BY <1>1, <1>2 DEF PlainTo, Inside

LEMMA PlainLater ==
  ASSUME NEW p, NEW m \in Nat, NEW n \in Nat, m <= n, PlainTo(p, m)
  PROVE  PlainTo(p, n)
BY FitsLater DEF PlainTo

LEMMA TaggedPlain ==
  ASSUME NEW n \in Nat, n + 1 <= Deepest, NEW q, PlainTo(q, n), NEW kind, NEW field
  PROVE  PlainTo(Tagged(kind, field, q), n + 1)
<1> DEFINE p == Tagged(kind, field, q)
<1>1. n + 1 \in 0 .. Deepest /\ n \in 0 .. Deepest /\ 0 \in 0 .. Deepest /\ (n + 1) - 1 = n /\ n + 1 # 0
  BY DeepestType
<1>2. PlainTo(Str(kind), 0)
  <2>1. Str(kind).t = "str"
    BY DEF Str
  <2>2. Children(Str(kind)) = {} /\ Plain(Str(kind))
    BY <2>1 DEF Children, Plain
  <2> QED BY <1>1, <2>2, PlainAll
<1>3. PlainTo(Str(kind), n)
  BY <1>2, PlainLater
<1>4. p.t = "dict" /\ Children(p) \subseteq {Str(kind), q}
  BY DEF Tagged, Dict, Children, Range
<1>5. Plain(p)
  BY <1>4 DEF Plain
<1>6. \A c \in Children(p) : PlainTo(c, (n + 1) - 1)
  BY <1>1, <1>3, <1>4
<1> HIDE DEF p
<1>7. PlainTo(p, n + 1)
  BY <1>1, <1>5, <1>6, PlainAll
<1> QED BY <1>7 DEF p

\* A value as its types have it, at every level.
Shaped(x) == \A y \in Parts(x) : HasShape(y)

LEMMA ShapedChild ==
  ASSUME NEW x, Shaped(x), NEW c \in Children(x), NEW n \in 0 .. Deepest, Fits(x, n)
  PROVE  Shaped(c) /\ c \in Parts(x) /\ Parts(c) \subseteq Parts(x)
<1>1. Parts(x) = {x} \cup Inside(x)
  BY PartsStep
<1> QED BY <1>1, PartOfItself DEF Inside, Shaped

LEMMA PlainLeaf ==
  ASSUME NEW x, x.t \in {"none", "number", "str", "tensor"}, Plain(x)
  PROVE  PlainTo(x, 0)
<1>1. Children(x) = {}
  BY DEF Children
<1> QED BY <1>1, PlainAll, DeepestType

LEMMA TensorToCpu ==
  ASSUME NEW x, x.t = "tensor", HasShape(x)
  PROVE  PlainTo(To(x, "cpu"), 0)
<1>1. To(x, "cpu") = [t |-> "tensor", v |-> x.v, device |-> "cpu"]
  BY DEF HasShape, To
<1>2. To(x, "cpu").t = "tensor" /\ To(x, "cpu").device = "cpu"
  BY <1>1
<1> HIDE DEF To
<1> QED BY <1>2, PlainLeaf DEF Plain

LEMMA ShapeOfCache ==
  ASSUME NEW x, x.t = "cache", HasShape(x)
  PROVE  /\ Len(x.layers) \in Nat /\ DOMAIN x.layers = 1 .. Len(x.layers)
         /\ \A j \in 1 .. Len(x.layers) :
                /\ x.layers[j] = <<x.layers[j][1], x.layers[j][2]>>
                /\ \A k \in 1 .. 2 : x.layers[j][k].t = "tensor" /\ x.layers[j][k] \in Children(x)
<1>1. x.layers \in Seq(Range(x.layers))
  BY DEF HasShape
<1>2. Len(x.layers) \in Nat /\ DOMAIN x.layers = 1 .. Len(x.layers)
  BY <1>1
<1>3. ASSUME NEW j \in 1 .. Len(x.layers)
      PROVE  /\ x.layers[j] = <<x.layers[j][1], x.layers[j][2]>>
             /\ x.layers[j][1].t = "tensor" /\ x.layers[j][2].t = "tensor"
             /\ x.layers[j] \in Range(x.layers)
  <2>1. x.layers[j] \in Range(x.layers)
    BY <1>2 DEF Range
  <2> QED BY <2>1 DEF HasShape
<1>4. ASSUME NEW j \in 1 .. Len(x.layers), NEW k \in 1 .. 2
      PROVE  x.layers[j][k].t = "tensor" /\ x.layers[j][k] \in Children(x)
  <2> DEFINE layer == x.layers[j]
  <2>1. layer = <<layer[1], layer[2]>> /\ layer \in Range(x.layers)
    BY <1>3
  <2>2. k = 1 \/ k = 2
    OBVIOUS
  <2>3. layer[k].t = "tensor"
    BY <1>3, <2>2
  <2> HIDE DEF layer
  <2>4. DOMAIN layer = 1 .. 2
    BY <2>1
  <2>5. layer[k] \in Range(layer)
    BY <2>4 DEF Range
  <2>6. layer[k] \in Children(x)
    BY <2>1, <2>5 DEF Children
  <2> QED BY <2>3, <2>6 DEF layer
<1> QED BY <1>2, <1>3, <1>4

\* The list of pairs that a cache is reduced to.
LEMMA PackCachePlain ==
  ASSUME NEW x, x.t = "cache", Shaped(x), NEW n \in 0 .. MaxNesting, Fits(x, n)
  PROVE  Packed(PackCache(x), 2 * n + 1)
<1> DEFINE pair(j) == Pair([k \in 1 .. 2 |-> To(x.layers[j][k], "cpu")])
           pairs == List([j \in 1 .. Len(x.layers) |-> pair(j)])
<1>1. /\ n \in 0 .. Deepest /\ 0 \in 0 .. Deepest /\ n \in Nat
      /\ 2 * n + 1 <= Deepest /\ 2 * n \in 0 .. Deepest /\ 2 * n \in Nat
  BY DeepestType, ValueAssumption DEF Deepest
<1>2. HasShape(x)
  BY PartOfItself DEF Shaped
<1>3. ASSUME NEW j \in 1 .. Len(x.layers) PROVE 2 * n # 0 /\ PlainTo(pair(j), 2 * n - 1)
  <2>1. ASSUME NEW k \in 1 .. 2 PROVE n # 0 /\ PlainTo(To(x.layers[j][k], "cpu"), 0)
    <3> DEFINE c == x.layers[j][k]
    <3>1. c.t = "tensor" /\ c \in Children(x)
      BY <1>2, ShapeOfCache
    <3> HIDE DEF c
    <3>2. n # 0 /\ HasShape(c)
      BY <1>1, <3>1, FitsChild, ShapedChild DEF Shaped
    <3>3. PlainTo(To(c, "cpu"), 0)
      BY <3>1, <3>2, TensorToCpu
    <3> QED BY <3>2, <3>3 DEF c
  <2>2. n # 0 /\ 2 * n # 0 /\ 2 * n - 1 \in Nat /\ 1 <= 2 * n - 1 /\ 1 \in 0 .. Deepest
        /\ 1 # 0 /\ 1 - 1 = 0
    <3>1. 1 \in 1 .. 2
      OBVIOUS
    <3> QED BY <1>1, <2>1, <3>1, DeepestType
  <2>3. pair(j).t = "pair" /\ pair(j).items = [k \in 1 .. 2 |-> To(x.layers[j][k], "cpu")]
    BY DEF Pair
  <2> HIDE DEF pair
  <2>4. Children(pair(j)) = {To(x.layers[j][k], "cpu") : k \in 1 .. 2}
    BY <2>3 DEF Children, Range
  <2>5. \A c \in Children(pair(j)) : 1 # 0 /\ PlainTo(c, 1 - 1)
    BY <2>1, <2>2, <2>4
  <2>6. Plain(pair(j))
    BY <2>3 DEF Plain
  <2>7. PlainTo(pair(j), 1)
    BY <2>2, <2>5, <2>6, PlainAll
  <2> QED BY <2>2, <2>7, PlainLater
<1>4. PlainTo(pairs, 2 * n)
  <2> HIDE DEF pair
  <2>1. pairs.t = "list" /\ pairs.items = [j \in 1 .. Len(x.layers) |-> pair(j)]
    BY DEF List
  <2> HIDE DEF pairs
  <2>2. Children(pairs) = {pair(j) : j \in 1 .. Len(x.layers)}
    BY <2>1 DEF Children, Range
  <2>3. Plain(pairs)
    BY <2>1 DEF Plain
  <2> QED BY <1>1, <1>3, <2>2, <2>3, PlainAll
<1>5. PackCache(x) = Tagged("dynamic_cache", "layers", pairs)
  BY DEF PackCache
<1>6. PlainTo(PackCache(x), 2 * n + 1)
  <2> HIDE DEF pairs
  <2> QED BY <1>1, <1>4, <1>5, TaggedPlain
<1> QED BY <1>5, <1>6 DEF Packed, Tagged, Dict

\* A container of packed values.
LEMMA ContainerPlain ==
  ASSUME NEW xs, NEW n \in 0 .. Deepest,
         \A k \in DOMAIN xs : n # 0 /\ PlainTo(xs[k], n - 1)
  PROVE  PlainTo(List(xs), n) /\ PlainTo(Dict(xs), n)
<1>1. /\ List(xs).t = "list" /\ List(xs).items = xs
      /\ Dict(xs).t = "dict" /\ Dict(xs).entries = xs
  BY DEF List, Dict
<1>2. Children(List(xs)) = Range(xs) /\ Children(Dict(xs)) = Range(xs)
  BY <1>1 DEF Children
<1>3. \A c \in Range(xs) : n # 0 /\ PlainTo(c, n - 1)
  BY DEF Range
<1>4. Plain(List(xs)) /\ Plain(Dict(xs))
  BY <1>1 DEF Plain
<1> QED BY <1>2, <1>3, <1>4, PlainAll

HasOther(x) == \E y \in Parts(x) : y.t = "other"

LEMMA PackedAreNotRaise ==
  ASSUME NEW p, NEW n, Packed(p, n)
  PROVE  p # Raise
BY DEF Packed, Raise

\* _pack of a value with the properties for all it holds.
LEMMA PackOne ==
  ASSUME NEW n \in 0 .. MaxNesting, NEW x, Fits(x, n), Shaped(x),
         \A c \in Children(x) :
            /\ n # 0
            /\ _pack(c) = Raise => HasOther(c)
            /\ _pack(c) # Raise => Packed(_pack(c), 2 * (n - 1) + 1)
  PROVE  /\ _pack(x) = Raise => HasOther(x)
         /\ _pack(x) # Raise => Packed(_pack(x), 2 * n + 1)
         /\ _pack(x).t = "str" => _pack(x) = x
<1>1. /\ n \in 0 .. Deepest /\ n \in Nat /\ 2 * n \in 0 .. Deepest /\ 2 * n \in Nat
      /\ 2 * n + 1 \in 0 .. Deepest /\ 2 * n + 1 \in Nat /\ 0 \in 0 .. Deepest
      /\ (n # 0 => 2 * n # 0 /\ 2 * (n - 1) + 1 = 2 * n - 1)
  BY DeepestType, ValueAssumption DEF Deepest
<1>2. HasShape(x) /\ x \in Parts(x)
  BY PartOfItself DEF Shaped
<1>3. ASSUME NEW xs, \A k \in DOMAIN xs : xs[k] \in Children(x)
      PROVE  /\ Raise \in Range(PackedAll(xs)) => HasOther(x)
             /\ Raise \notin Range(PackedAll(xs)) =>
                    PlainTo(List(PackedAll(xs)), 2 * n) /\ PlainTo(Dict(PackedAll(xs)), 2 * n)
  <2>1. ASSUME Raise \in Range(PackedAll(xs)) PROVE HasOther(x)
    <3>1. PICK k \in DOMAIN xs : _pack(xs[k]) = Raise
      BY <2>1 DEF Range, PackedAll
    <3>2. HasOther(xs[k])
      BY <1>3, <3>1
    <3> QED BY <1>1, <1>3, <3>2, ShapedChild DEF HasOther
  <2>2. ASSUME Raise \notin Range(PackedAll(xs))
        PROVE  PlainTo(List(PackedAll(xs)), 2 * n) /\ PlainTo(Dict(PackedAll(xs)), 2 * n)
    <3>1. DOMAIN PackedAll(xs) = DOMAIN xs /\ \A k \in DOMAIN xs : PackedAll(xs)[k] = _pack(xs[k])
      BY DEF PackedAll
    <3>2. \A k \in DOMAIN xs : _pack(xs[k]) # Raise
      BY <2>2, <3>1 DEF Range
    <3>3. \A k \in DOMAIN xs : 2 * n # 0 /\ PlainTo(_pack(xs[k]), 2 * n - 1)
      BY <1>1, <1>3, <3>2 DEF Packed
    <3> QED BY <1>1, <3>1, <3>3, ContainerPlain
  <2> QED BY <2>1, <2>2
<1>4. ASSUME NEW p, PlainTo(p, 2 * n) PROVE PlainTo(p, 2 * n + 1)
  BY <1>1, <1>4, PlainLater
<1>5. CASE x.t = "cache"
  <2>1. _pack(x) = PackCache(x) /\ Packed(_pack(x), 2 * n + 1)
    BY <1>1, <1>5, PackRule, PackCachePlain
  <2>2. _pack(x).t = "dict"
    BY <2>1 DEF PackCache, Tagged, Dict
  <2> QED BY <2>1, <2>2, PackedAreNotRaise
<1>6. CASE x.t = "tensor"
  <2>1. _pack(x) = Tagged("tensor", "value", To(x, "cpu"))
    BY <1>1, <1>6, PackRule
  <2>2. PlainTo(To(x, "cpu"), 0)
    BY <1>2, <1>6, TensorToCpu
  <2>3. PlainTo(To(x, "cpu"), 2 * n)
    BY <1>1, <2>2, PlainLater
  <2>4. PlainTo(_pack(x), 2 * n + 1)
    BY <1>1, <2>1, <2>3, TaggedPlain
  <2>5. _pack(x).t = "dict"
    BY <2>1 DEF Tagged, Dict
  <2>6. Packed(_pack(x), 2 * n + 1)
    BY <2>4, <2>5 DEF Packed
  <2> QED BY <2>5, <2>6, PackedAreNotRaise
<1>7. CASE x.t = "dict"
  <2> DEFINE ps == PackedAll(x.entries)
  <2>1. _pack(x) = Whole(Dict(ps), ps)
    BY <1>1, <1>7, PackRule
  <2>2. Dict(ps).t = "dict" /\ Raise.t = "raise"
    BY DEF Dict, Raise
  <2>3. CASE Raise \in Range(ps)
    <3>1. _pack(x) = Raise /\ HasOther(x)
      BY <1>3, <1>7, <2>1, <2>3, ChildrenOfContainer DEF Whole
    <3> QED BY <2>2, <3>1
  <2>4. CASE Raise \notin Range(ps)
    <3>1. _pack(x) = Dict(ps)
      BY <2>1, <2>4 DEF Whole
    <3>2. PlainTo(_pack(x), 2 * n + 1)
      BY <1>3, <1>4, <1>7, <2>4, <3>1, ChildrenOfContainer
    <3>3. Packed(_pack(x), 2 * n + 1)
      BY <2>2, <3>1, <3>2 DEF Packed
    <3> HIDE DEF ps
    <3> QED BY <2>2, <3>1, <3>3, PackedAreNotRaise
  <2> QED BY <2>3, <2>4
<1>8. CASE x.t = "list"
  <2> DEFINE ps == PackedAll(x.items)
  <2>1. _pack(x) = Whole(List(ps), ps)
    BY <1>1, <1>8, PackRule
  <2>2. List(ps).t = "list" /\ Raise.t = "raise"
    BY DEF List, Raise
  <2>3. CASE Raise \in Range(ps)
    <3>1. _pack(x) = Raise /\ HasOther(x)
      BY <1>3, <1>8, <2>1, <2>3, ChildrenOfContainer DEF Whole
    <3> QED BY <2>2, <3>1
  <2>4. CASE Raise \notin Range(ps)
    <3>1. _pack(x) = List(ps)
      BY <2>1, <2>4 DEF Whole
    <3>2. PlainTo(_pack(x), 2 * n + 1)
      BY <1>3, <1>4, <1>8, <2>4, <3>1, ChildrenOfContainer
    <3>3. Packed(_pack(x), 2 * n + 1)
      BY <2>2, <3>1, <3>2 DEF Packed
    <3> HIDE DEF ps
    <3> QED BY <2>2, <3>1, <3>3, PackedAreNotRaise
  <2> QED BY <2>3, <2>4
<1>9. CASE x.t = "tuple"
  <2> DEFINE ps == PackedAll(x.items)
  <2>1. _pack(x) = Whole(PackTuple(ps), ps)
    BY <1>1, <1>9, PackRule
  <2>2. PackTuple(ps).t = "dict" /\ Raise.t = "raise"
    BY DEF PackTuple, Tagged, Dict, Raise
  <2>3. CASE Raise \in Range(ps)
    <3>1. _pack(x) = Raise /\ HasOther(x)
      BY <1>3, <1>9, <2>1, <2>3, ChildrenOfContainer DEF Whole
    <3> QED BY <2>2, <3>1
  <2>4. CASE Raise \notin Range(ps)
    <3>1. _pack(x) = PackTuple(ps)
      BY <2>1, <2>4 DEF Whole
    <3>2. PlainTo(List(ps), 2 * n)
      BY <1>3, <1>9, <2>4, ChildrenOfContainer
    <3>3. PlainTo(_pack(x), 2 * n + 1)
      <4> HIDE DEF ps
      <4> QED BY <1>1, <3>1, <3>2, TaggedPlain DEF PackTuple
    <3>4. Packed(_pack(x), 2 * n + 1)
      BY <2>2, <3>1, <3>3 DEF Packed
    <3> HIDE DEF ps
    <3> QED BY <2>2, <3>1, <3>4, PackedAreNotRaise
  <2> QED BY <2>3, <2>4
<1>10. CASE x.t \in {"none", "number", "str"}
  <2>1. _pack(x) = x
    BY <1>1, <1>10, PackRule
  <2>2. PlainTo(x, 0)
    BY <1>10, PlainLeaf DEF Plain
  <2>3. Packed(x, 2 * n + 1)
    BY <1>1, <1>10, <2>2, PlainLater DEF Packed
  <2> QED BY <2>1, <2>3, PackedAreNotRaise
<1>11. CASE x.t = "other"
  <2>1. _pack(x) = Raise /\ HasOther(x)
    BY <1>1, <1>2, <1>11, PackRule DEF HasOther
  <2> QED BY <2>1 DEF Raise
<1>12. x.t \in {"cache", "tensor", "dict", "list", "tuple", "none", "number", "str", "other"}
  BY <1>2 DEF HasShape
<1> QED BY <1>5, <1>6, <1>7, <1>8, <1>9, <1>10, <1>11, <1>12

\* A state that _pack accepts becomes plain data; it raises only for a value
\* of another type; and a string stands for itself.
LEMMA PackProperties ==
  ASSUME NEW n \in 0 .. MaxNesting, NEW x, Fits(x, n), Shaped(x)
  PROVE  /\ _pack(x) = Raise => HasOther(x)
         /\ _pack(x) # Raise => Packed(_pack(x), 2 * n + 1)
         /\ _pack(x).t = "str" => _pack(x) = x
<1> DEFINE Good(z, k) == /\ _pack(z) = Raise => HasOther(z)
                         /\ _pack(z) # Raise => Packed(_pack(z), 2 * k + 1)
                         /\ _pack(z).t = "str" => _pack(z) = z
           I == {k \in Nat : k <= MaxNesting => \A z : Fits(z, k) /\ Shaped(z) => Good(z, k)}
<1> HIDE DEF Good
<1>1. ASSUME NEW k \in 0 .. MaxNesting, k # 0 => k - 1 \in I, NEW z, Fits(z, k), Shaped(z) PROVE Good(z, k)
  <2>1. k \in Nat /\ k \in 0 .. Deepest /\ k <= MaxNesting
    BY DeepestType
  <2>2. ASSUME NEW c \in Children(z) PROVE k # 0 /\ Good(c, k - 1)
    <3>1. k # 0 /\ Fits(c, k - 1) /\ Shaped(c)
      BY <1>1, <2>1, FitsChild, ShapedChild
    <3>2. k - 1 <= MaxNesting
      BY <2>1, DeepestType
    <3> QED BY <1>1, <3>1, <3>2
  <2> HIDE DEF I
  <2>3. \A c \in Children(z) :
            /\ k # 0
            /\ _pack(c) = Raise => HasOther(c)
            /\ _pack(c) # Raise => Packed(_pack(c), 2 * (k - 1) + 1)
    BY <2>2 DEF Good
  <2> QED BY <1>1, <2>3, PackOne DEF Good
<1>2. I = Nat
  <2>1. 0 \in I
    <3>1. ~ (0 # 0) /\ 0 \in 0 .. MaxNesting
      BY DeepestType
    <3> HIDE DEF I
    <3>2. \A z : Fits(z, 0) /\ Shaped(z) => Good(z, 0)
      BY <1>1, <3>1
    <3> QED BY <3>2 DEF I
  <2>2. ASSUME NEW k \in I PROVE k + 1 \in I
    <3>1. k \in Nat /\ k + 1 \in Nat /\ (k + 1) - 1 = k /\ (k + 1 <= MaxNesting => k + 1 \in 0 .. MaxNesting)
      BY DeepestType
    <3> HIDE DEF I
    <3>2. k + 1 <= MaxNesting => \A z : Fits(z, k + 1) /\ Shaped(z) => Good(z, k + 1)
      BY <1>1, <2>2, <3>1
    <3> QED BY <3>1, <3>2 DEF I
  <2>3. I \in SUBSET Nat
    BY DEF I
  <2> HIDE DEF I
  <2> QED BY <2>1, <2>2, <2>3, AllNumbers
<1>3. n \in Nat /\ n <= MaxNesting
  BY DeepestType
<1>4. Good(x, n)
  BY <1>2, <1>3
<1> QED BY <1>4 DEF Good

---------------------------------------------------------------------------
(***************************************************************************)
(* What _unpack makes of it.                                               *)
(***************************************************************************)
\* The value comes back, on the device, exactly if it is not ambiguous; and
\* unpacking one that is not does not raise.
ComesBack(x, d) ==
    LET back == _unpack(_pack(x), d)
    IN  /\ back = OnDevice(x, d) <=> ~ Ambiguous(x)
        /\ back = Raise => Ambiguous(x)

LEMMA DistinctKinds ==
  /\ Nothing \notin Kinds
  /\ \A s : Str(s).t = "str"
  /\ Str("tensor") # Str("tuple") /\ Str("tensor") # Str("dynamic_cache")
  /\ Str("tuple") # Str("dynamic_cache")
<1>1. Nothing.t = "none" /\ \A s : Str(s).t = "str" /\ Str(s).v = s
  BY DEF Nothing, Str
<1> QED BY <1>1 DEF Kinds

LEMMA AmbiguousStep ==
  ASSUME NEW n \in 0 .. Deepest, NEW x, Fits(x, n)
  PROVE  Ambiguous(x) <=> Kind(x) \in Kinds \/ \E c \in Children(x) : Ambiguous(c)
<1>1. Parts(x) = {x} \cup Inside(x)
  BY PartsStep
<1> QED BY <1>1 DEF Ambiguous, Inside

\* What Tagged makes is read back.
LEMMA TaggedFields ==
  ASSUME NEW kind, NEW field, field # Tag, NEW q
  PROVE  LET p == Tagged(kind, field, q)
         IN  /\ p.t = "dict" /\ Kind(p) = Str(kind) /\ Field(p, field) = q
             /\ field \in DOMAIN p.entries /\ p.entries[field] = q
<1> DEFINE p == Tagged(kind, field, q)
           e == [name \in {Tag, field} |-> IF name = Tag THEN Str(kind) ELSE q]
<1>1. p.t = "dict" /\ p.entries = e
  BY DEF Tagged, Dict
<1>2. Tag \in DOMAIN e /\ field \in DOMAIN e /\ e[Tag] = Str(kind) /\ e[field] = q
  OBVIOUS
<1> HIDE DEF p, e
<1>3. Kind(p) = Str(kind) /\ Field(p, field) = q /\ field \in DOMAIN p.entries /\ p.entries[field] = q
  BY <1>1, <1>2 DEF Kind, Field
<1> QED BY <1>1, <1>3 DEF p

LEMMA MovedTwice ==
  ASSUME NEW x, x.t = "tensor", HasShape(x), NEW c, NEW d
  PROVE  To(To(x, c), d) = To(x, d) /\ To(x, d).t = "tensor" /\ To(x, d) # Raise
<1>1. x = [t |-> "tensor", v |-> x.v, device |-> x.device]
  BY DEF HasShape
<1>2. \A e : To(x, e) = [t |-> "tensor", v |-> x.v, device |-> e]
  BY <1>1 DEF To
<1>3. To(To(x, c), d) = [t |-> "tensor", v |-> x.v, device |-> d]
  BY <1>2 DEF To
<1> QED BY <1>2, <1>3 DEF Raise

LEMMA TensorComesBack ==
  ASSUME NEW n \in 0 .. MaxNesting, NEW x, x.t = "tensor", Fits(x, n), Shaped(x), NEW d
  PROVE  ComesBack(x, d)
<1>1. n \in 0 .. Deepest /\ 2 * n + 1 \in 0 .. Deepest
  BY DeepestType, ValueAssumption DEF Deepest
<1>2. HasShape(x)
  BY PartOfItself DEF Shaped
<1> DEFINE p == _pack(x)
<1>3. p = Tagged("tensor", "value", To(x, "cpu"))
  BY <1>1, PackRule
<1>4. Fits(p, 2 * n + 1)
  <2>1. p # Raise
    BY <1>3 DEF Tagged, Dict, Raise
  <2> QED BY <2>1, PackProperties DEF Packed, PlainTo
<1>5. Kind(p) = Str("tensor") /\ Field(p, "value") = To(x, "cpu")
  BY <1>3, TaggedFields DEF Tag
<1> HIDE DEF p
<1>6. _unpack(p, d) = To(To(x, "cpu"), d)
  BY <1>1, <1>4, <1>5, UnpackRule
<1>7. To(To(x, "cpu"), d) = To(x, d) /\ To(x, d) # Raise
  BY <1>2, MovedTwice
<1>8. OnDevice(x, d) = To(x, d)
  BY <1>1, MoveRule
<1>9. ~ Ambiguous(x)
  <2>1. Kind(x) = Nothing /\ Children(x) = {}
    BY DEF Kind, Children
  <2> QED BY <1>1, <2>1, AmbiguousStep, DistinctKinds
<1>10. _unpack(p, d) # Raise
  BY <1>6, <1>7
<1> QED BY <1>6, <1>7, <1>8, <1>9, <1>10 DEF ComesBack, p

LEMMA AtomComesBack ==
  ASSUME NEW n \in 0 .. MaxNesting, NEW x, x.t \in {"none", "number", "str"}, Fits(x, n), NEW d
  PROVE  ComesBack(x, d)
<1>1. n \in 0 .. Deepest
  BY DeepestType
<1>2. _pack(x) = x /\ _unpack(x, d) = x /\ OnDevice(x, d) = x
  BY <1>1, PackRule, UnpackRule, MoveRule
<1>3. Kind(x) = Nothing /\ Children(x) = {} /\ x # Raise
  BY DEF Kind, Children, Raise
<1>4. ~ Ambiguous(x)
  BY <1>1, <1>3, AmbiguousStep, DistinctKinds
<1> QED BY <1>2, <1>3, <1>4 DEF ComesBack

LEMMA PairIsNotRaise ==
  ASSUME NEW f, DOMAIN f = 1 .. 2
  PROVE  f # Raise
<1>1. DOMAIN Raise = {"t"}
  BY DEF Raise
<1>2. 1 \in 1 .. 2 /\ 2 \in 1 .. 2 /\ 1 # 2
  OBVIOUS
<1> QED BY <1>1, <1>2

LEMMA CacheComesBack ==
  ASSUME NEW n \in 0 .. MaxNesting, NEW x, x.t = "cache", Fits(x, n), Shaped(x), NEW d
  PROVE  ComesBack(x, d)
<1> DEFINE pair(j) == Pair([k \in 1 .. 2 |-> To(x.layers[j][k], "cpu")])
           pairs == [j \in 1 .. Len(x.layers) |-> pair(j)]
           moved == [j \in 1 .. Len(x.layers) |-> [k \in 1 .. 2 |-> To(x.layers[j][k], d)]]
           p == _pack(x)
<1>1. n \in 0 .. Deepest /\ 2 * n + 1 \in 0 .. Deepest
  BY DeepestType, ValueAssumption DEF Deepest
<1>2. HasShape(x) /\ Len(x.layers) \in Nat
  BY PartOfItself, ShapeOfCache DEF Shaped
<1>3. p = PackCache(x) /\ PackCache(x) = Tagged("dynamic_cache", "layers", List(pairs))
  BY <1>1, PackRule DEF PackCache
<1>4. Kind(p) = Str("dynamic_cache") /\ Field(p, "layers") = List(pairs)
  <2> HIDE DEF pairs, p
  <2>1. "layers" # Tag
    BY DEF Tag
  <2> QED BY <1>3, <2>1, TaggedFields
<1>5. Fits(p, 2 * n + 1)
  BY <1>3, PackCachePlain DEF Packed, PlainTo
<1>6. _unpack(p, d) = UnpackCache(p, d)
  <2> HIDE DEF p
  <2> QED BY <1>1, <1>4, <1>5, UnpackRule
<1>7. Iterated(Field(p, "layers")) = pairs
  <2> HIDE DEF pairs, p
  <2>1. List(pairs).t = "list" /\ List(pairs).items = pairs
    BY DEF List
  <2> QED BY <1>4, <2>1 DEF Iterated
<1>8. Len(pairs) = Len(x.layers)
  <2> HIDE DEF pair
  <2>1. pairs \in Seq({pair(j) : j \in 1 .. Len(x.layers)})
    BY <1>2
  <2>2. DOMAIN pairs = 1 .. Len(x.layers)
    OBVIOUS
  <2> HIDE DEF pairs
  <2> QED BY <1>2, <2>1, <2>2
<1>9. ASSUME NEW j \in 1 .. Len(x.layers)
      PROVE  UnpackLayer(pairs[j], d) = moved[j] /\ moved[j] # Raise
  <2> DEFINE cpu == [k \in 1 .. 2 |-> To(x.layers[j][k], "cpu")]
             there == [k \in 1 .. 2 |-> To(x.layers[j][k], d)]
             layer == x.layers[j]
  <2>1. ASSUME NEW k \in 1 .. 2
        PROVE  To(To(layer[k], "cpu"), d) = To(layer[k], d) /\ To(layer[k], d) # Raise
    <3> DEFINE c == layer[k]
    <3>1. c.t = "tensor" /\ c \in Children(x)
      BY <1>2, ShapeOfCache
    <3> HIDE DEF c
    <3>2. HasShape(c)
      BY <1>1, <3>1, ShapedChild, PartOfItself DEF Shaped
    <3>3. To(To(c, "cpu"), d) = To(c, d) /\ To(c, d) # Raise
      BY <3>1, <3>2, MovedTwice
    <3> QED BY <3>3 DEF c
  <2> HIDE DEF layer
  <2>2. Iterated(pairs[j]) = cpu
    <3>1. pairs[j] = Pair(cpu)
      BY DEF pairs
    <3> HIDE DEF cpu, pairs
    <3>2. Pair(cpu).t = "pair" /\ Pair(cpu).items = cpu
      BY DEF Pair
    <3> QED BY <3>1, <3>2 DEF Iterated
  <2>3. Len(cpu) = 2
    <3>1. cpu \in Seq({cpu[1], cpu[2]}) /\ DOMAIN cpu = 1 .. 2
      OBVIOUS
    <3> HIDE DEF cpu
    <3> QED BY <3>1
  <2>4. [k \in 1 .. Len(cpu) |-> To(cpu[k], d)] = there
    <3>1. \A k \in 1 .. 2 : To(cpu[k], d) = To(x.layers[j][k], d)
      BY <2>1 DEF layer
    <3> HIDE DEF cpu
    <3> QED BY <2>3, <3>1
  <2>5. Raise \notin Range(there)
    BY <2>1 DEF Range, layer
  <2>6. UnpackLayer(pairs[j], d) = there
    <3> HIDE DEF pairs, cpu, there
    <3> QED BY <2>2, <2>3, <2>4, <2>5 DEF UnpackLayer, Whole
  <2>7. there # Raise
    <3>1. DOMAIN there = 1 .. 2
      OBVIOUS
    <3> HIDE DEF there
    <3> QED BY <3>1, PairIsNotRaise
  <2> QED BY <2>6, <2>7
<1> HIDE DEF pair, pairs, moved, p
<1>10. [j \in 1 .. Len(pairs) |-> UnpackLayer(pairs[j], d)] = moved
  <2>1. moved = [j \in 1 .. Len(x.layers) |-> moved[j]]
    BY DEF moved
  <2> QED BY <1>8, <1>9, <2>1
<1>11. Raise \notin Range(moved)
  <2>1. DOMAIN moved = 1 .. Len(x.layers)
    BY DEF moved
  <2> QED BY <1>9, <2>1 DEF Range
<1>12. _unpack(p, d) = Cache(moved)
  BY <1>6, <1>7, <1>10, <1>11 DEF UnpackCache, Whole
<1>13. OnDevice(x, d) = Cache(moved) /\ Cache(moved) # Raise
  BY <1>1, MoveRule DEF moved, Cache, Raise
<1>14. ~ Ambiguous(x)
  <2>1. Kind(x) = Nothing
    BY DEF Kind
  <2>2. ASSUME NEW c \in Children(x) PROVE ~ Ambiguous(c)
    <3>1. PICK layer \in Range(x.layers) : c \in Range(layer)
      BY DEF Children
    <3>2. layer = <<layer[1], layer[2]>> /\ layer[1].t = "tensor" /\ layer[2].t = "tensor"
      BY <1>2 DEF HasShape
    <3>3. DOMAIN layer = 1 .. 2
      BY <3>2
    <3>4. c.t = "tensor"
      <4>1. PICK k \in 1 .. 2 : c = layer[k]
        BY <3>1, <3>3 DEF Range
      <4>2. k = 1 \/ k = 2
        OBVIOUS
      <4> QED BY <3>2, <4>1, <4>2
    <3>5. Kind(c) = Nothing /\ Children(c) = {}
      BY <3>4 DEF Kind, Children
    <3>6. 0 \in 0 .. Deepest /\ Fits(c, 0)
      BY <3>5, FitsAll, DeepestType
    <3> QED BY <3>5, <3>6, AmbiguousStep, DistinctKinds
  <2> QED BY <1>1, <2>1, <2>2, AmbiguousStep, DistinctKinds
<1> QED BY <1>12, <1>13, <1>14 DEF ComesBack, p

\* What holds for each item of a container, for all of them.
LEMMA AllComeBack ==
  ASSUME NEW xs, NEW d, \A k \in DOMAIN xs : ComesBack(xs[k], d)
  PROVE  LET us == UnpackedAll(PackedAll(xs), d)
         IN  /\ us = MovedAll(xs, d) <=> \A k \in DOMAIN xs : ~ Ambiguous(xs[k])
             /\ Raise \in Range(us) => \E k \in DOMAIN xs : Ambiguous(xs[k])
<1> DEFINE us == UnpackedAll(PackedAll(xs), d)
           ms == MovedAll(xs, d)
<1>1. DOMAIN us = DOMAIN xs /\ us = [k \in DOMAIN xs |-> us[k]]
      /\ \A k \in DOMAIN xs : us[k] = _unpack(_pack(xs[k]), d)
  BY DEF UnpackedAll, PackedAll
<1>2. ms = [k \in DOMAIN xs |-> ms[k]] /\ \A k \in DOMAIN xs : ms[k] = OnDevice(xs[k], d)
  BY DEF MovedAll
<1> HIDE DEF us, ms
<1>3. us = ms <=> \A k \in DOMAIN xs : us[k] = ms[k]
  BY <1>1, <1>2
<1>4. \A k \in DOMAIN xs : us[k] = ms[k] <=> ~ Ambiguous(xs[k])
  BY <1>1, <1>2 DEF ComesBack
<1>5. \A k \in DOMAIN xs : us[k] = Raise => Ambiguous(xs[k])
  BY <1>1 DEF ComesBack
<1>6. Raise \in Range(us) => \E k \in DOMAIN xs : us[k] = Raise
  BY <1>1 DEF Range
<1> QED BY <1>3, <1>4, <1>5, <1>6 DEF us, ms

\* No codec kind, so a container is ambiguous if one of its items is.
LEMMA PlainContainerComesBack ==
  ASSUME NEW n \in 0 .. Deepest, NEW x, Fits(x, n), Kind(x) \notin Kinds, NEW d, NEW xs,
         Children(x) = Range(xs), \A k \in DOMAIN xs : ComesBack(xs[k], d),
         NEW us, us = UnpackedAll(PackedAll(xs), d), NEW ms, ms = MovedAll(xs, d),
         NEW cu, NEW cm, cu # Raise, cm # Raise, cu = cm <=> us = ms,
         _unpack(_pack(x), d) = Whole(cu, us), OnDevice(x, d) = cm
  PROVE  ComesBack(x, d)
<1>1. Ambiguous(x) <=> \E k \in DOMAIN xs : Ambiguous(xs[k])
  BY AmbiguousStep DEF Range
<1>2. us = ms <=> ~ Ambiguous(x)
  BY <1>1, AllComeBack
<1>3. Raise \in Range(us) => Ambiguous(x)
  BY <1>1, AllComeBack
<1>4. CASE Raise \in Range(us)
  <2>1. _unpack(_pack(x), d) = Raise
    BY <1>4 DEF Whole
  <2> QED BY <1>3, <1>4, <2>1 DEF ComesBack
<1>5. CASE Raise \notin Range(us)
  <2>1. _unpack(_pack(x), d) = cu
    BY <1>5 DEF Whole
  <2> QED BY <1>2, <2>1 DEF ComesBack
<1> QED BY <1>4, <1>5

LEMMA PackedContainer ==
  ASSUME NEW xs, NEW c, Whole(c, PackedAll(xs)) # Raise
  PROVE  Whole(c, PackedAll(xs)) = c /\ \A k \in DOMAIN xs : _pack(xs[k]) # Raise
<1>1. Raise \notin Range(PackedAll(xs)) /\ Whole(c, PackedAll(xs)) = c
  BY DEF Whole
<1>2. DOMAIN PackedAll(xs) = DOMAIN xs /\ \A k \in DOMAIN xs : PackedAll(xs)[k] = _pack(xs[k])
  BY DEF PackedAll
<1>3. \A k \in DOMAIN xs : PackedAll(xs)[k] \in Range(PackedAll(xs))
  BY <1>2 DEF Range
<1> QED BY <1>1, <1>2, <1>3

LEMMA ListComesBack ==
  ASSUME NEW n \in 0 .. MaxNesting, NEW x, Fits(x, n), Shaped(x), NEW d, _pack(x) # Raise,
         \A c \in Children(x) : _pack(c) # Raise => ComesBack(c, d), x.t = "list"
  PROVE  ComesBack(x, d)
<1> DEFINE xs == x.items
           ps == PackedAll(xs)
           us == UnpackedAll(ps, d)
           ms == MovedAll(xs, d)
<1>1. n \in 0 .. Deepest /\ 2 * n + 1 \in 0 .. Deepest
  BY DeepestType, ValueAssumption DEF Deepest
<1>2. Children(x) = Range(xs) /\ Kind(x) \notin Kinds
  BY DistinctKinds DEF Children, Kind
<1>3. _pack(x) = Whole(List(ps), ps)
  BY <1>1, PackRule
<1>4. _pack(x) = List(ps) /\ \A k \in DOMAIN xs : _pack(xs[k]) # Raise
  BY <1>3, PackedContainer
<1>5. \A k \in DOMAIN xs : ComesBack(xs[k], d)
  BY <1>2, <1>4 DEF Range
<1>6. Fits(_pack(x), 2 * n + 1)
  BY PackProperties DEF Packed, PlainTo
<1> HIDE DEF ps, us, ms
<1>7. \A A : List(A).t = "list" /\ List(A).items = A /\ List(A) # Raise
  BY DEF List, Raise
<1>8. _unpack(_pack(x), d) = Whole(List(us), us)
  <2>1. _pack(x).t = "list" /\ _pack(x).items = ps
    BY <1>4, <1>7
  <2> QED BY <1>1, <1>6, <2>1, UnpackRule DEF us
<1>9. OnDevice(x, d) = List(ms)
  BY <1>1, MoveRule DEF ms
<1>10. List(us) = List(ms) <=> us = ms
  BY <1>7
<1>11. us = UnpackedAll(PackedAll(xs), d) /\ ms = MovedAll(xs, d)
  BY DEF us, ms, ps
<1> HIDE DEF xs
<1> QED BY <1>1, <1>2, <1>5, <1>7, <1>8, <1>9, <1>10, <1>11, PlainContainerComesBack

LEMMA TupleComesBack ==
  ASSUME NEW n \in 0 .. MaxNesting, NEW x, Fits(x, n), Shaped(x), NEW d, _pack(x) # Raise,
         \A c \in Children(x) : _pack(c) # Raise => ComesBack(c, d), x.t = "tuple"
  PROVE  ComesBack(x, d)
<1> DEFINE xs == x.items
           ps == PackedAll(xs)
           us == UnpackedAll(ps, d)
           ms == MovedAll(xs, d)
           p == _pack(x)
<1>1. n \in 0 .. Deepest /\ 2 * n + 1 \in 0 .. Deepest
  BY DeepestType, ValueAssumption DEF Deepest
<1>2. Children(x) = Range(xs) /\ Kind(x) \notin Kinds
  BY DistinctKinds DEF Children, Kind
<1>3. _pack(x) = Whole(PackTuple(ps), ps)
  BY <1>1, PackRule
<1>4. _pack(x) = PackTuple(ps) /\ \A k \in DOMAIN xs : _pack(xs[k]) # Raise
  BY <1>3, PackedContainer
<1>5. \A k \in DOMAIN xs : ComesBack(xs[k], d)
  BY <1>2, <1>4 DEF Range
<1>6. Fits(_pack(x), 2 * n + 1)
  BY PackProperties DEF Packed, PlainTo
<1> HIDE DEF ps, us, ms
<1>7. \A A : Tuple(A).t = "tuple" /\ Tuple(A).items = A /\ Tuple(A) # Raise
  BY DEF Tuple, Raise
<1>8. p = Tagged("tuple", "items", List(ps))
  BY <1>4 DEF PackTuple
<1>9. Kind(p) = Str("tuple") /\ "items" \in DOMAIN p.entries /\ p.entries["items"] = List(ps)
  <2>1. "items" # Tag
    BY DEF Tag
  <2> HIDE DEF p
  <2> QED BY <1>8, <2>1, TaggedFields
<1>10. List(ps).t = "list" /\ List(ps).items = ps
  BY DEF List
<1>11. _unpack(p, d) = Whole(Tuple(us), us)
  <2>1. Fits(p, 2 * n + 1)
    BY <1>6
  <2> HIDE DEF p
  <2>2. PICK items : /\ _unpack(p, d) = Whole(Tuple(items), items)
                     /\ "items" \in DOMAIN p.entries /\ p.entries["items"].t = "list" =>
                            items = UnpackedAll(p.entries["items"].items, d)
    BY <1>1, <1>9, <2>1, UnpackRule
  <2>3. items = us
    BY <1>9, <1>10, <2>2 DEF us
  <2> QED BY <2>2, <2>3
<1>12. OnDevice(x, d) = Tuple(ms)
  BY <1>1, MoveRule DEF ms
<1>13. Tuple(us) = Tuple(ms) <=> us = ms
  BY <1>7
<1>14. us = UnpackedAll(PackedAll(xs), d) /\ ms = MovedAll(xs, d)
  BY DEF us, ms, ps
<1> HIDE DEF xs
<1> QED BY <1>1, <1>2, <1>5, <1>7, <1>11, <1>12, <1>13, <1>14, PlainContainerComesBack

LEMMA WholeIs ==
  ASSUME NEW c, NEW xs
  PROVE  Whole(c, xs) = c \/ Whole(c, xs) = Raise
BY DEF Whole

LEMMA DictComesBack ==
  ASSUME NEW n \in 0 .. MaxNesting, NEW x, Fits(x, n), Shaped(x), NEW d, _pack(x) # Raise,
         \A c \in Children(x) : _pack(c) # Raise => ComesBack(c, d), x.t = "dict"
  PROVE  ComesBack(x, d)
<1> DEFINE xs == x.entries
           ps == PackedAll(xs)
           us == UnpackedAll(ps, d)
           ms == MovedAll(xs, d)
           p == _pack(x)
<1>1. n \in 0 .. Deepest /\ 2 * n + 1 \in 0 .. Deepest /\ n \in Nat
  BY DeepestType, ValueAssumption DEF Deepest
<1>2. Children(x) = Range(xs)
  BY DEF Children
<1>3. p = Whole(Dict(ps), ps)
  BY <1>1, PackRule
<1>4. p = Dict(ps) /\ \A k \in DOMAIN xs : _pack(xs[k]) # Raise
  BY <1>3, PackedContainer
<1>5. \A k \in DOMAIN xs : ComesBack(xs[k], d)
  BY <1>2, <1>4 DEF Range
<1>6. Fits(p, 2 * n + 1)
  BY PackProperties DEF Packed, PlainTo
<1>7. \A A : Dict(A).t = "dict" /\ Dict(A).entries = A /\ Dict(A) # Raise
  BY DEF Dict, Raise
<1>8. p.t = "dict" /\ p.entries = ps
  BY <1>4, <1>7
<1>9. DOMAIN ps = DOMAIN xs /\ \A k \in DOMAIN xs : ps[k] = _pack(xs[k])
  BY DEF PackedAll
\* A packed entry is plain; one that is a string was it before.
<1>10. ASSUME NEW k \in DOMAIN xs
       PROVE  ps[k].t \in {"dict", "list", "none", "number", "str"}
              /\ (ps[k].t = "str" \/ xs[k].t = "str" => ps[k] = xs[k])
  <2>1. xs[k] \in Children(x)
    BY <1>2 DEF Range
  <2>2. n # 0 /\ Fits(xs[k], n - 1) /\ Shaped(xs[k])
    BY <1>1, <2>1, FitsChild, ShapedChild
  <2>3. n - 1 \in 0 .. MaxNesting /\ n - 1 \in 0 .. Deepest
    BY <2>2, DeepestType
  <2>4. Packed(_pack(xs[k]), 2 * (n - 1) + 1) /\ (_pack(xs[k]).t = "str" => _pack(xs[k]) = xs[k])
    BY <1>4, <2>2, <2>3, PackProperties
  <2>5. xs[k].t = "str" => _pack(xs[k]) = xs[k]
    BY <2>2, <2>3, PackRule
  <2> QED BY <1>9, <2>4, <2>5 DEF Packed
<1> HIDE DEF ps, us, ms, p
<1>11. OnDevice(x, d) = Dict(ms)
  BY <1>1, MoveRule DEF ms
<1>12. Kind(x) \in Kinds <=> Kind(p) \in Kinds
  <2>1. \A e \in Kinds : e.t = "str"
    BY DistinctKinds DEF Kinds
  <2>2. CASE Tag \in DOMAIN xs
    <3>1. Kind(x) = xs[Tag] /\ Kind(p) = ps[Tag]
      BY <1>8, <1>9, <2>2 DEF Kind
    <3> QED BY <1>10, <2>1, <2>2, <3>1
  <2>3. CASE Tag \notin DOMAIN xs
    BY <1>8, <1>9, <2>3, DistinctKinds DEF Kind
  <2> QED BY <2>2, <2>3
<1>13. CASE Kind(x) \notin Kinds
  <2>1. _unpack(p, d) = Whole(Dict(us), us)
    BY <1>1, <1>6, <1>8, <1>12, <1>13, UnpackRule DEF us
  <2>2. Dict(us) = Dict(ms) <=> us = ms
    BY <1>7
  <2>3. us = UnpackedAll(PackedAll(xs), d) /\ ms = MovedAll(xs, d)
    BY DEF us, ms, ps
  <2>4. _unpack(_pack(x), d) = Whole(Dict(us), us)
    BY <2>1 DEF p
  <2> HIDE DEF xs
  <2> QED BY <1>1, <1>2, <1>5, <1>7, <1>11, <1>13, <2>2, <2>3, <2>4, PlainContainerComesBack
<1>14. CASE Kind(x) \in Kinds
  <2>1. Ambiguous(x)
    BY <1>1, <1>14, AmbiguousStep
  <2>2. _unpack(p, d).t # "dict"
    <3>1. Raise.t = "raise"
      BY DEF Raise
    <3>2. CASE Kind(p) = Str("tensor")
      <4>1. _unpack(p, d) = To(Field(p, "value"), d)
        BY <1>1, <1>6, <3>2, UnpackRule
      <4>2. Field(p, "value").t # "tensor"
        BY <1>8, <1>9, <1>10, <3>1 DEF Field
      <4> QED BY <3>1, <4>1, <4>2 DEF To
    <3>3. CASE Kind(p) = Str("tuple")
      <4>1. PICK items : _unpack(p, d) = Whole(Tuple(items), items)
        BY <1>1, <1>6, <3>3, UnpackRule
      <4>2. Tuple(items).t = "tuple"
        BY DEF Tuple
      <4> QED BY <3>1, <4>1, <4>2, WholeIs
    <3>4. CASE Kind(p) = Str("dynamic_cache")
      <4>1. _unpack(p, d) = UnpackCache(p, d)
        BY <1>1, <1>6, <3>4, UnpackRule
      <4>2. \A layers : Cache(layers).t = "cache"
        BY DEF Cache
      <4> QED BY <3>1, <4>1, <4>2 DEF UnpackCache, Whole
    <3> QED BY <1>12, <1>14, <3>2, <3>3, <3>4 DEF Kinds
  <2>3. _unpack(p, d) # OnDevice(x, d)
    BY <1>7, <1>11, <2>2
  <2> QED BY <2>1, <2>3 DEF ComesBack, p
<1> QED BY <1>13, <1>14

\* Whatever _pack accepts comes back.
LEMMA PackedComesBack ==
  ASSUME NEW n \in 0 .. MaxNesting, NEW x, Fits(x, n), Shaped(x), NEW d, _pack(x) # Raise
  PROVE  ComesBack(x, d)
<1> DEFINE Good(z) == _pack(z) # Raise => ComesBack(z, d)
           I == {k \in Nat : k <= MaxNesting => \A z : Fits(z, k) /\ Shaped(z) => Good(z)}
<1> HIDE DEF Good
<1>1. ASSUME NEW k \in 0 .. MaxNesting, k # 0 => k - 1 \in I, NEW z, Fits(z, k), Shaped(z) PROVE Good(z)
  <2>1. k \in Nat /\ k \in 0 .. Deepest /\ k <= MaxNesting
    BY DeepestType
  <2>2. ASSUME NEW c \in Children(z) PROVE Good(c)
    <3>1. k # 0 /\ Fits(c, k - 1) /\ Shaped(c)
      BY <1>1, <2>1, FitsChild, ShapedChild
    <3>2. k - 1 <= MaxNesting
      BY <2>1, DeepestType
    <3> QED BY <1>1, <3>1, <3>2
  <2> HIDE DEF I
  <2>3. \A c \in Children(z) : _pack(c) # Raise => ComesBack(c, d)
    BY <2>2 DEF Good
  <2>4. HasShape(z)
    BY <1>1, PartOfItself DEF Shaped
  <2>5. ASSUME _pack(z) # Raise PROVE ComesBack(z, d)
    <3>1. z.t # "other"
      BY <1>1, <2>1, <2>5, PackRule
    <3>2. z.t \in {"cache", "tensor", "dict", "list", "tuple", "none", "number", "str"}
      BY <2>4, <3>1 DEF HasShape
    <3>3. z.t = "cache" => ComesBack(z, d)
      BY <1>1, CacheComesBack
    <3>4. z.t = "tensor" => ComesBack(z, d)
      BY <1>1, TensorComesBack
    <3>5. z.t \in {"none", "number", "str"} => ComesBack(z, d)
      BY <1>1, AtomComesBack
    <3>6. z.t = "list" => ComesBack(z, d)
      BY <1>1, <2>3, <2>5, ListComesBack
    <3>7. z.t = "tuple" => ComesBack(z, d)
      BY <1>1, <2>3, <2>5, TupleComesBack
    <3>8. z.t = "dict" => ComesBack(z, d)
      BY <1>1, <2>3, <2>5, DictComesBack
    <3> QED BY <3>2, <3>3, <3>4, <3>5, <3>6, <3>7, <3>8
  <2> QED BY <2>5 DEF Good
<1>2. I = Nat
  <2>1. 0 \in I
    <3>1. ~ (0 # 0) /\ 0 \in 0 .. MaxNesting
      BY DeepestType
    <3> HIDE DEF I
    <3>2. \A z : Fits(z, 0) /\ Shaped(z) => Good(z)
      BY <1>1, <3>1
    <3> QED BY <3>2 DEF I
  <2>2. ASSUME NEW k \in I PROVE k + 1 \in I
    <3>1. k \in Nat /\ k + 1 \in Nat /\ (k + 1) - 1 = k /\ (k + 1 <= MaxNesting => k + 1 \in 0 .. MaxNesting)
      BY DeepestType
    <3> HIDE DEF I
    <3>2. k + 1 <= MaxNesting => \A z : Fits(z, k + 1) /\ Shaped(z) => Good(z)
      BY <1>1, <2>2, <3>1
    <3> QED BY <3>1, <3>2 DEF I
  <2>3. I \in SUBSET Nat
    BY DEF I
  <2> HIDE DEF I
  <2> QED BY <2>1, <2>2, <2>3, AllNumbers
<1>3. n \in Nat /\ n <= MaxNesting
  BY DeepestType
<1>4. Good(x)
  BY <1>2, <1>3
<1> QED BY <1>4 DEF Good

---------------------------------------------------------------------------
(***************************************************************************)
(* The two processes.                                                      *)
(***************************************************************************)
\* What is on the wire is what _pack has made of the state, or another
\* release's; what has been restored is what _unpack makes of it.
OnTheWire == wire = [format |-> FORMAT_VERSION, state |-> _pack(value)]

IInv ==
    /\ value \in Values /\ device \in Devices
    /\ stage \in {"state", "wire", "decoded", "raised"}
    /\ stage = "wire" =>
        \/ OnTheWire /\ _pack(value) # Raise
        \/ wire = [format |-> FORMAT_VERSION + 1, state |-> Nothing]
    /\ stage = "decoded" =>
        OnTheWire /\ _pack(value) # Raise /\ restored = _unpack(_pack(value), device)
    /\ stage = "raised" =>
        \/ wire.format = FORMAT_VERSION + 1
        \/ _pack(value) = Raise
        \/ _pack(value) # Raise /\ _unpack(_pack(value), device) = Raise

LEMMA IInvAlways == Spec => []IInv
<1>1. Init => IInv
  BY DEF Init, IInv
<1>2. IInv /\ [Next]_vars => IInv'
  <2> SUFFICES ASSUME IInv, [Next]_vars PROVE IInv'
    OBVIOUS
  <2>1. CASE encode
    <3>1. stage = "state" /\ value' = value /\ device' = device
      BY <2>1 DEF encode
    <3>2. wire' = [format |-> FORMAT_VERSION, state |-> _pack(value)]
      BY <2>1 DEF encode
    <3>3. wire'.state = _pack(value)
      BY <3>2
    <3>4. stage' = IF _pack(value) = Raise THEN "raised" ELSE "wire"
      BY <2>1, <3>3 DEF encode
    <3> QED BY <3>1, <3>2, <3>4 DEF IInv, OnTheWire
  <2>2. CASE OtherRelease
    BY <2>2 DEF OtherRelease, IInv, OnTheWire
  <2>3. CASE decode
    <3>1. /\ stage = "wire" /\ value' = value /\ device' = device /\ wire' = wire
          /\ restored' = IF wire.format = FORMAT_VERSION THEN _unpack(wire.state, device) ELSE Raise
          /\ stage' = IF restored' = Raise THEN "raised" ELSE "decoded"
      BY <2>3 DEF decode
    <3>2. CASE OnTheWire /\ _pack(value) # Raise
      <4>1. wire.format = FORMAT_VERSION /\ wire.state = _pack(value)
        BY <3>2 DEF OnTheWire
      <4>2. restored' = _unpack(_pack(value), device)
        BY <3>1, <4>1
      <4> QED BY <3>1, <3>2, <4>2 DEF IInv, OnTheWire
    <3>3. CASE wire = [format |-> FORMAT_VERSION + 1, state |-> Nothing]
      <4>1. wire.format = FORMAT_VERSION + 1 /\ wire.format # FORMAT_VERSION
        BY <3>3 DEF FORMAT_VERSION
      <4>2. stage' = "raised"
        BY <3>1, <4>1
      <4> QED BY <3>1, <4>1, <4>2 DEF IInv
    <3> QED BY <3>1, <3>2, <3>3 DEF IInv
  <2>4. CASE UNCHANGED vars
    BY <2>4 DEF vars, IInv, OnTheWire
  <2> QED BY <2>1, <2>2, <2>3, <2>4 DEF Next
<1> QED BY <1>1, <1>2, PTL DEF Spec

\* A state that the assumption allows has what the lemmas ask for.
LEMMA StateOf ==
  ASSUME NEW x \in Values
  PROVE  MaxNesting \in 0 .. MaxNesting /\ Fits(x, MaxNesting) /\ Shaped(x)
BY ValueAssumption, DeepestType DEF Fits, Shaped

\* decode(encode(state)) is the state on the device asked for, for every set
\* of states and however deep they nest tensors, caches and tuples, exactly
\* if no dict of the caller's carries the codec's own tag with one of its
\* kinds; and only such a dict, or a value of a type that the codec does not
\* support, makes encode or decode raise.
THEOREM StatesComeBack == Spec => []RoundTrip
<1>1. IInv => RoundTrip
  <2> SUFFICES ASSUME IInv PROVE RoundTrip
    OBVIOUS
  <2>1. MaxNesting \in 0 .. MaxNesting /\ Fits(value, MaxNesting) /\ Shaped(value)
    BY StateOf DEF IInv
  <2>2. _pack(value) # Raise => ComesBack(value, device)
    BY <2>1, PackedComesBack
  <2>3. _pack(value) = Raise => \E y \in Parts(value) : y.t = "other"
    BY <2>1, PackProperties DEF HasOther
  <2>4. stage = "decoded" => (restored = OnDevice(value, device) <=> ~ Ambiguous(value))
    BY <2>2 DEF IInv, ComesBack
  <2>5. stage = "raised" /\ wire.format = FORMAT_VERSION =>
            Ambiguous(value) \/ \E y \in Parts(value) : y.t = "other"
    <3>1. FORMAT_VERSION # FORMAT_VERSION + 1
      BY DEF FORMAT_VERSION
    <3> QED BY <2>2, <2>3, <3>1 DEF IInv, ComesBack
  <2> QED BY <2>4, <2>5 DEF RoundTrip
<1> QED BY <1>1, IInvAlways, PTL

\* What encode publishes holds no DynamicCache, no tensor of another device
\* than the cpu and no value of an unknown type at any level, so that a
\* reader needs neither the writer's classes nor its devices.
THEOREM WireHoldsPlainData == Spec => []WireIsPlain
<1>1. IInv => WireIsPlain
  <2> SUFFICES ASSUME IInv, stage \in {"wire", "decoded"}, NEW y \in Parts(wire.state)
               PROVE  Plain(y)
    BY DEF WireIsPlain, Plain
  <2>1. CASE OnTheWire /\ _pack(value) # Raise
    <3>1. wire.state = _pack(value)
      BY <2>1 DEF OnTheWire
    <3>2. Packed(_pack(value), 2 * MaxNesting + 1)
      BY <2>1, StateOf, PackProperties DEF IInv
    <3> QED BY <3>1, <3>2 DEF Packed, PlainTo
  <2>2. CASE wire = [format |-> FORMAT_VERSION + 1, state |-> Nothing]
    <3>1. wire.state = Nothing /\ Nothing.t = "none"
      BY <2>2 DEF Nothing
    <3>2. PlainTo(Nothing, 0)
      BY <3>1, PlainLeaf DEF Plain
    <3> QED BY <3>1, <3>2 DEF PlainTo
  <2> QED BY <2>1, <2>2 DEF IInv
<1> QED BY <1>1, IInvAlways, PTL
=============================================================================
