--------------------------- MODULE TopologyProofs ---------------------------
(***************************************************************************)
(* Proofs about topological_order, for every list of roles and edges: the  *)
(* order it returns is sound and the least one, and it raises "agent graph *)
(* must be acyclic" only for graphs with a cycle and for all of those; and *)
(* about load_topology_trace, for every file.                              *)
(***************************************************************************)
EXTENDS TopologyTrace, SequenceTheorems, FunctionTheorems, FiniteSetTheorems,
        WellFoundedInduction, TLAPS

---------------------------------------------------------------------------
(***************************************************************************)
(* The inductive invariant.                                                *)
(***************************************************************************)

\* The edges into r that the edge loop has seen and whose source is not
\* visited yet.
Pending(r) == {j \in 1 .. i - 1 : Target(edges[j]) = r /\ Source(edges[j]) \notin Range(order)}

\* indegree counts them.
IndegreeCounts == \A r \in roles : indegree[r] = Cardinality(Pending(r))

\* An edge the loop has passed joins two active roles, and is new.
PassedEdges ==
    \A j \in 1 .. i - 1 :
        /\ edges[j] \in roles \X roles
        /\ Source(edges[j]) # Target(edges[j])
        /\ \A k \in 1 .. j - 1 : edges[k] # edges[j]

\* Past the first check no role is listed twice, and a rejection for a
\* defect had one to show.
Defects ==
    /\ pc \in {"edges", "visit", "returned", "cycle"} => IsInjective(active_roles)
    /\ pc \in Rejections \ {"cycle"} => Defective

\* Nothing is visited before the edge loop ends; from then on ready is what
\* its name says.
Phases ==
    /\ pc \in {"roles", "edges"} => order = <<>> /\ ready = {}
    /\ pc \in {"visit", "returned", "cycle"} =>
        /\ i = Len(edges) + 1
        /\ ready = {r \in roles \ Range(order) : indegree[r] = 0}
    /\ pc = "returned" => Len(order) = Cardinality(roles)
    /\ pc = "cycle" => ready = {} /\ Len(order) # Cardinality(roles)

\* A visited role comes after every source of an edge into it.
VisitedAfterSources ==
    \A k \in 1..Len(order), j \in 1 .. i - 1 :
        Target(edges[j]) = order[k] => \E l \in 1 .. k - 1 : order[l] = Source(edges[j])

GInv ==
    /\ TypeOK /\ IndegreeCounts /\ PassedEdges /\ Defects /\ Phases
    /\ IsInjective(order) /\ VisitedAfterSources

---------------------------------------------------------------------------
(***************************************************************************)
(* Arithmetic and sets.                                                    *)
(***************************************************************************)

\* sorted(...)[0] is an element of a non-empty list of roles, and the least.
LEMMA MinIsLeast ==
  ASSUME NEW S \in SUBSET Nat, S # {}
  PROVE  Min(S) \in S /\ \A y \in S : Min(S) <= y
<1>1. \E x \in S : \A y \in S : ~ (<<y, x>> \in OpToRel(<, Nat))
  BY NatLessThanWellFounded, WFMin
<1>2. \A x, y \in Nat : ~(y < x) => x <= y
  OBVIOUS
<1>3. \A x, y \in Nat : y < x => <<y, x>> \in OpToRel(<, Nat)
  BY Zenon DEF OpToRel
<1>4. \E x \in S : \A y \in S : x <= y
  BY <1>1, <1>2, <1>3
<1> QED BY <1>4 DEF Min

\* A list names finitely many roles.
LEMMA RangeIsFinite ==
  ASSUME NEW S, NEW s \in Seq(S)
  PROVE  /\ IsFiniteSet(Range(s))
         /\ Cardinality(Range(s)) \in Nat
         /\ IsInjective(s) <=> Cardinality(Range(s)) = Len(s)
<1>1. Len(s) \in Nat /\ s \in [1..Len(s) -> Range(s)] /\ DOMAIN s = 1..Len(s)
  BY DEF Range
<1>2. s \in Surjection(1..Len(s), Range(s))
  BY <1>1 DEF Surjection, Range
<1>3. IsFiniteSet(1..Len(s)) /\ Cardinality(1..Len(s)) = Len(s)
  <2>1. /\ IsFiniteSet(1..Len(s))
        /\ Cardinality(1..Len(s)) = IF 1 > Len(s) THEN 0 ELSE Len(s) - 1 + 1
    BY <1>1, FS_Interval
  <2> QED BY <1>1, <2>1
<1>4. /\ IsFiniteSet(Range(s))
      /\ Cardinality(Range(s)) = Cardinality(1..Len(s)) <=> s \in Injection(1..Len(s), Range(s))
  BY <1>2, <1>3, FS_Surjection
<1>5. IsInjective(s) <=> s \in Injection(1..Len(s), Range(s))
  BY <1>1 DEF Injection, IsInjective
<1> QED BY <1>3, <1>4, <1>5, FS_CardinalityType

\* The sets of edge positions that the counters count are finite.
LEMMA PositionsFinite ==
  ASSUME TypeOK, NEW P \in SUBSET (1..Len(edges))
  PROVE  IsFiniteSet(P) /\ Cardinality(P) \in Nat
<1>1. Len(edges) \in Nat
  BY DEF TypeOK
<1>2. IsFiniteSet(1..Len(edges))
  BY <1>1, FS_Interval
<1> QED BY <1>2, FS_Subset, FS_CardinalityType

\* The roles are numbers, and finitely many.
LEMMA RolesType ==
  ASSUME TypeOK
  PROVE  /\ roles \in SUBSET Nat
         /\ IsFiniteSet(roles)
         /\ Cardinality(roles) \in Nat
         /\ IsInjective(active_roles) <=> Cardinality(roles) = Len(active_roles)
<1>1. active_roles \in Seq(Nat)
  BY DEF TypeOK
<1>2. roles \in SUBSET Nat
  BY <1>1 DEF roles, Range
<1> QED BY <1>1, <1>2, RangeIsFinite DEF roles

\* The counters count subsets of the edge positions.
LEMMA PendingType ==
  ASSUME TypeOK, NEW r
  PROVE  /\ Pending(r) \in SUBSET (1..Len(edges))
         /\ IsFiniteSet(Pending(r))
         /\ Cardinality(Pending(r)) \in Nat
<1>1. Pending(r) \in SUBSET (1..Len(edges))
  BY DEF Pending, TypeOK
<1> QED BY <1>1, PositionsFinite

---------------------------------------------------------------------------
(***************************************************************************)
(* Every step keeps the invariant.                                         *)
(***************************************************************************)

\* The first state: nothing passed, nothing visited.
Fresh ==
    /\ active_roles \in Seq(Nat) /\ edges \in Seq(Nat \X Nat)
    /\ pc = "roles" /\ i = 1 /\ indegree = [r \in roles |-> 0] /\ ready = {} /\ order = <<>>

LEMMA FreshGInv == Fresh => GInv
<1> SUFFICES ASSUME Fresh PROVE GInv
  OBVIOUS
<1>1. TypeOK
  BY DEF Fresh, TypeOK
<1>2. \A r \in roles : Pending(r) = {}
  BY DEF Fresh, Pending
<1>3. IndegreeCounts
  BY <1>2, FS_EmptySet DEF Fresh, IndegreeCounts
<1>4. PassedEdges /\ Defects /\ Phases /\ IsInjective(order) /\ VisitedAfterSources
  BY DEF Fresh, PassedEdges, Defects, Rejections, Phases, IsInjective, VisitedAfterSources
<1> QED BY <1>1, <1>3, <1>4 DEF GInv

\* What the invariant says of everything but pc depends on nothing else that
\* a step which only moves pc changes.
LEMMA OnlyPcMoves ==
  ASSUME GInv, UNCHANGED <<graph, i, indegree, ready, order>>,
         pc' \in {"roles", "edges", "visit", "returned"} \cup Rejections,
         Defects', Phases'
  PROVE  GInv'
<1> USE DEF graph, GInv
<1>1. TypeOK'
  BY DEF TypeOK, roles
<1>2. IndegreeCounts'
  BY DEF IndegreeCounts, Pending, roles
<1>3. PassedEdges' /\ IsInjective(order)' /\ VisitedAfterSources'
  BY DEF PassedEdges, VisitedAfterSources, roles
<1> QED BY <1>1, <1>2, <1>3

\* Rejecting a graph that has a defect.
LEMMA RejectGInv ==
  ASSUME GInv, Defective, NEW reason \in Rejections \ {"cycle"}, Reject(reason)
  PROVE  GInv'
<1>1. UNCHANGED <<graph, i, indegree, ready, order>> /\ pc' = reason
  BY DEF Reject
<1>2. Defective'
  BY <1>1 DEF Defective, graph, roles, EdgeSet
<1>3. Defects' /\ Phases'
  BY <1>1, <1>2 DEF Defects, Phases, Rejections
<1> QED BY <1>1, <1>3, OnlyPcMoves DEF Rejections

\* The checks on the list of roles.
LEMMA RolesGInv == GInv /\ (RolesNotUnique \/ RolesUnique) => GInv'
<1> SUFFICES ASSUME GInv PROVE RolesNotUnique \/ RolesUnique => GInv'
  OBVIOUS
<1>1. IsInjective(active_roles) <=> Cardinality(roles) = Len(active_roles)
  BY RolesType DEF GInv
<1>2. CASE RolesNotUnique
  BY <1>1, <1>2, RejectGInv DEF RolesNotUnique, Defective, Rejections
<1>3. CASE RolesUnique
  <2>1. UNCHANGED <<graph, i, indegree, ready, order>> /\ pc' = "edges" /\ pc = "roles"
    BY <1>3 DEF RolesUnique
  <2>2. Defects' /\ Phases'
    BY <1>1, <1>3, <2>1 DEF GInv, Defects, Phases, RolesUnique, graph, Rejections
  <2> QED BY <2>1, <2>2, OnlyPcMoves
<1> QED BY <1>2, <1>3

\* The rejections of the edge loop.
LEMMA EdgeRejectedGInv == GInv /\ (EdgeInactive \/ EdgeSelf \/ EdgeDuplicate) => GInv'
<1> SUFFICES ASSUME GInv, EdgeInactive \/ EdgeSelf \/ EdgeDuplicate PROVE GInv'
  OBVIOUS
<1>0. AtEdge
  BY DEF EdgeInactive, EdgeSelf, EdgeDuplicate
<1>1. i \in 1..Len(edges) /\ Len(edges) \in Nat /\ edges \in Seq(Nat \X Nat)
  BY <1>0 DEF GInv, TypeOK, AtEdge
<1>2. edges[i] \in EdgeSet /\ edges[i] \in Nat \X Nat
  BY <1>1 DEF EdgeSet, Range
<1>3. ASSUME Inactive PROVE Defective
  BY <1>2, <1>3 DEF Inactive, Defective, Source, Target
<1>4. ASSUME SelfEdge PROVE Defective
  BY <1>2, <1>4 DEF SelfEdge, Defective
<1>5. ASSUME Seen PROVE Defective
  <2>1. PICK j \in 1 .. i - 1 : edges[j] = edges[i]
    BY <1>5 DEF Seen
  <2>2. j \in DOMAIN edges /\ i \in DOMAIN edges /\ j # i
    BY <1>1
  <2> QED BY <2>1, <2>2 DEF Defective, IsInjective
<1>6. Defective
  BY <1>3, <1>4, <1>5 DEF EdgeInactive, EdgeSelf, EdgeDuplicate
<1>7. \E reason \in Rejections \ {"cycle"} : Reject(reason)
  BY DEF EdgeInactive, EdgeSelf, EdgeDuplicate, Rejections
<1> QED BY <1>6, <1>7, RejectGInv

\* The edge loop passes an edge.
LEMMA EdgeAcceptedGInv == GInv /\ EdgeAccepted => GInv'
<1> SUFFICES ASSUME GInv, EdgeAccepted PROVE GInv'
  OBVIOUS
<1> DEFINE target == Target(edges[i])
<1>1. /\ i \in 1..Len(edges) /\ Len(edges) \in Nat /\ edges \in Seq(Nat \X Nat)
      /\ pc = "edges" /\ order = <<>> /\ ready = {} /\ Range(order) = {}
  BY DEF GInv, TypeOK, Phases, EdgeAccepted, AtEdge, Range
<1>2. /\ UNCHANGED <<active_roles, edges, pc, ready, order, roles>>
      /\ i' = i + 1 /\ indegree' = [indegree EXCEPT ![target] = @ + 1]
  BY DEF EdgeAccepted, graph, roles
<1>3. edges[i] \in roles \X roles /\ target \in roles /\ edges[i] \in Nat \X Nat
  BY <1>1 DEF EdgeAccepted, Inactive, Source, Target
<1>4. ~SelfEdge /\ ~Seen
  BY DEF EdgeAccepted
<1>5. TypeOK'
  <2>1. indegree \in [roles -> Nat]
    BY DEF GInv, TypeOK
  <2>2. indegree' \in [roles -> Nat]
    BY <1>2, <1>3, <2>1
  <2>3. i' \in 1 .. Len(edges) + 1
    BY <1>1, <1>2
  <2> QED BY <1>2, <2>2, <2>3 DEF GInv, TypeOK
<1>6. IndegreeCounts'
  <2> SUFFICES ASSUME NEW r \in roles PROVE indegree'[r] = Cardinality(Pending(r)')
    BY <1>2 DEF IndegreeCounts
  <2>1. indegree[r] = Cardinality(Pending(r)) /\ IsFiniteSet(Pending(r)) /\ indegree \in [roles -> Nat]
    BY PendingType DEF GInv, IndegreeCounts, TypeOK
  <2>2. i \notin Pending(r)
    BY <1>1 DEF Pending
  <2>3. CASE r = target
    <3>1. Pending(r)' = Pending(r) \cup {i}
      BY <1>1, <1>2, <2>3 DEF Pending
    <3>2. Cardinality(Pending(r) \cup {i}) = Cardinality(Pending(r)) + 1
      BY <2>1, <2>2, FS_AddElement
    <3>3. indegree'[r] = indegree[r] + 1
      BY <1>2, <2>1, <2>3
    <3> QED BY <2>1, <3>1, <3>2, <3>3
  <2>4. CASE r # target
    <3>1. Pending(r)' = Pending(r)
      BY <1>1, <1>2, <2>4 DEF Pending
    <3> QED BY <1>2, <2>1, <2>4, <3>1
  <2> QED BY <2>3, <2>4
<1>7. PassedEdges'
  <2>1. \A j \in 1 .. i' - 1 : j \in 1 .. i - 1 \/ j = i
    BY <1>1, <1>2
  <2>2. \A k \in 1 .. i - 1 : edges[k] # edges[i]
    BY <1>4 DEF Seen
  <2> QED BY <1>2, <1>3, <1>4, <2>1, <2>2 DEF GInv, PassedEdges, SelfEdge
<1>8. Defects' /\ Phases'
  BY <1>1, <1>2 DEF GInv, Defects, Phases, Rejections
<1>9. IsInjective(order)' /\ VisitedAfterSources'
  BY <1>1, <1>2 DEF GInv, VisitedAfterSources
<1> QED BY <1>5, <1>6, <1>7, <1>8, <1>9 DEF GInv

\* The first ready roles.
LEMMA StartVisitingGInv == GInv /\ StartVisiting => GInv'
<1> SUFFICES ASSUME GInv, StartVisiting PROVE GInv'
  OBVIOUS
<1>1. /\ UNCHANGED <<active_roles, edges, i, indegree, order, roles>>
      /\ pc = "edges" /\ pc' = "visit" /\ ready' = {r \in roles : indegree[r] = 0}
  BY DEF StartVisiting, graph, roles
<1>2. order = <<>> /\ Range(order) = {} /\ i = Len(edges) + 1
  BY <1>1 DEF GInv, Phases, Range, StartVisiting, TypeOK
<1>3. TypeOK'
  BY <1>1 DEF GInv, TypeOK
<1>4. IndegreeCounts' /\ PassedEdges' /\ IsInjective(order)' /\ VisitedAfterSources'
  BY <1>1 DEF GInv, IndegreeCounts, Pending, PassedEdges, VisitedAfterSources
<1>5. Defects' /\ Phases'
  BY <1>1, <1>2 DEF GInv, Defects, Phases, Rejections
<1> QED BY <1>3, <1>4, <1>5 DEF GInv

\* How the loop ends.
LEMMA EndGInv == GInv /\ (Cyclic \/ Return) => GInv'
<1> SUFFICES ASSUME GInv, Cyclic \/ Return PROVE GInv'
  OBVIOUS
<1>1. /\ UNCHANGED <<graph, i, indegree, ready, order>>
      /\ pc = "visit" /\ pc' \in {"cycle", "returned"}
  BY DEF Cyclic, Return, Reject
<1>2. Defects'
  BY <1>1 DEF GInv, Defects, graph, Rejections
<1>3. roles' = roles /\ Range(order)' = Range(order)
  BY <1>1 DEF graph, roles
<1>4. Phases'
  BY <1>1, <1>3 DEF GInv, Phases, graph, Cyclic, Return, Reject
<1> QED BY <1>1, <1>2, <1>4, OnlyPcMoves DEF Rejections

\* Nothing is pending for a role that is visited or ready.
LEMMA NothingPending ==
  ASSUME GInv, pc = "visit", NEW r \in roles, r \in Range(order) \/ r \in ready
  PROVE  Pending(r) = {} /\ indegree[r] = 0
<1>1. indegree[r] = Cardinality(Pending(r)) /\ IsFiniteSet(Pending(r))
  BY PendingType DEF GInv, IndegreeCounts
<1>2. CASE r \in Range(order)
  <2>1. PICK k \in 1..Len(order) : order[k] = r
    BY <1>2 DEF Range, GInv, TypeOK
  <2>2. \A j \in 1 .. i - 1 : Target(edges[j]) = r => Source(edges[j]) \in Range(order)
    <3> SUFFICES ASSUME NEW j \in 1 .. i - 1, Target(edges[j]) = r
                 PROVE  Source(edges[j]) \in Range(order)
      OBVIOUS
    <3>1. PICK l \in 1 .. k - 1 : order[l] = Source(edges[j])
      BY <2>1 DEF GInv, VisitedAfterSources
    <3>2. l \in DOMAIN order
      BY <2>1, <3>1 DEF GInv, TypeOK
    <3> QED BY <3>1, <3>2 DEF Range
  <2>3. Pending(r) = {}
    BY <2>2 DEF Pending
  <2> QED BY <1>1, <2>3, FS_EmptySet
<1>3. CASE r \in ready
  <2>1. indegree[r] = 0
    BY <1>3 DEF GInv, Phases
  <2> QED BY <1>1, <2>1, FS_EmptySet
<1> QED BY <1>2, <1>3

\* Kahn's loop visits the least ready role.
LEMMA VisitGInv == GInv /\ Visit => GInv'
<1> SUFFICES ASSUME GInv, Visit PROVE GInv'
  OBVIOUS
<1> DEFINE role == Min(ready)
           ArcSet(r) == {j \in 1..Len(edges) : edges[j] = <<role, r>>}
           n == Len(order)
<1>1. /\ pc = "visit" /\ ready # {} /\ order' = Append(order, role)
      /\ indegree' = [r \in roles |-> indegree[r] - Arcs(role, r)]
      /\ ready' = (ready \ {role})
                    \cup {r \in roles : Arcs(role, r) > 0 /\ indegree[r] - Arcs(role, r) = 0}
      /\ UNCHANGED <<active_roles, edges, pc, i, roles>>
  BY DEF Visit, graph, roles
<1>2. role \in ready /\ role \in roles
  BY <1>1, RolesType, MinIsLeast DEF GInv, TypeOK
<1> HIDE DEF role
<1>3. role \notin Range(order) /\ Pending(role) = {} /\ i = Len(edges) + 1
  BY <1>1, <1>2, NothingPending DEF GInv, Phases
<1>4. /\ order \in Seq(roles) /\ n \in Nat /\ edges \in Seq(Nat \X Nat)
      /\ Len(edges) \in Nat /\ indegree \in [roles -> Nat] /\ DOMAIN order = 1..n
  BY DEF GInv, TypeOK
<1>5. /\ order' \in Seq(roles) /\ Len(order') = n + 1 /\ DOMAIN order' = 1 .. n + 1
      /\ \A k \in 1..n : order'[k] = order[k]
      /\ order'[n + 1] = role
  BY <1>1, <1>2, <1>4, AppendProperties
<1>6. Range(order') = Range(order) \cup {role}
  <2>1. \A k \in 1 .. n + 1 : k \in 1..n \/ k = n + 1
    BY <1>4
  <2>2. n + 1 \in 1 .. n + 1 /\ \A k \in 1..n : k \in 1 .. n + 1
    BY <1>4
  <2> QED BY <1>4, <1>5, <2>1, <2>2 DEF Range
<1>7. \A r \in roles :
        /\ Arcs(role, r) \in Nat
        /\ Arcs(role, r) > 0 => indegree[r] # 0
        /\ indegree[r] - Arcs(role, r) = Cardinality(Pending(r)')
        /\ IsFiniteSet(Pending(r)')
  <2> SUFFICES ASSUME NEW r \in roles
               PROVE  /\ Arcs(role, r) \in Nat
                      /\ Arcs(role, r) > 0 => indegree[r] # 0
                      /\ indegree[r] - Arcs(role, r) = Cardinality(Pending(r)')
                      /\ IsFiniteSet(Pending(r)')
    OBVIOUS
  <2>1. \A j \in 1..Len(edges) : edges[j] = <<Source(edges[j]), Target(edges[j])>>
    BY <1>4 DEF Source, Target
  <2>2. ArcSet(r) \subseteq Pending(r)
    BY <1>3, <1>4 DEF Pending, Source, Target
  <2>3. Pending(r)' = Pending(r) \ ArcSet(r)
    <3>1. \A j \in 1..Len(edges) : edges[j] = <<role, r>> <=>
                Source(edges[j]) = role /\ Target(edges[j]) = r
      BY <2>1 DEF Source, Target
    <3>2. i' - 1 = Len(edges) /\ i - 1 = Len(edges) /\ edges' = edges
      BY <1>1, <1>3, <1>4
    <3> QED BY <1>6, <3>1, <3>2 DEF Pending
  <2>4. IsFiniteSet(Pending(r)) /\ Cardinality(Pending(r)) = indegree[r]
    BY PendingType DEF GInv, IndegreeCounts
  <2>5. Arcs(role, r) = Cardinality(ArcSet(r)) /\ Cardinality(ArcSet(r)) \in Nat
    BY PositionsFinite DEF Arcs, GInv
  <2>6. Pending(r) \cap ArcSet(r) = ArcSet(r)
    BY <2>2
  <2>7. /\ IsFiniteSet(Pending(r)')
        /\ Cardinality(Pending(r)') = Cardinality(Pending(r)) - Cardinality(ArcSet(r))
    <3> HIDE DEF ArcSet
    <3> QED BY <2>3, <2>4, <2>6, FS_Difference
  <2>8. Cardinality(ArcSet(r)) <= Cardinality(Pending(r))
    <3> HIDE DEF ArcSet
    <3> QED BY <2>2, <2>4, FS_Subset
  <2> HIDE DEF ArcSet
  <2>9. indegree[r] \in Nat
    BY <1>4
  <2> QED BY <2>4, <2>5, <2>7, <2>8, <2>9
<1>8. IndegreeCounts'
  BY <1>1, <1>7 DEF IndegreeCounts
<1>9. TypeOK'
  <2>1. \A r \in roles : indegree[r] - Arcs(role, r) \in Nat
    BY <1>7, FS_CardinalityType
  <2>2. indegree' \in [roles -> Nat]
    BY <1>1, <2>1
  <2>3. ready' \subseteq roles
    BY <1>1 DEF GInv, TypeOK
  <2> QED BY <1>1, <1>5, <2>2, <2>3 DEF GInv, TypeOK
<1>10. ready' = {r \in roles \ Range(order') : indegree'[r] = 0}
  <2>1. ready = {r \in roles \ Range(order) : indegree[r] = 0}
    BY <1>1 DEF GInv, Phases
  <2>2. \A r \in roles : r \in Range(order) \/ r = role => ~(Arcs(role, r) > 0)
    BY <1>1, <1>2, <1>7, NothingPending
  <2>3. \A r \in roles : indegree'[r] = indegree[r] - Arcs(role, r)
    BY <1>1
  <2>4. \A r \in roles : indegree[r] \in Nat /\ Arcs(role, r) \in Nat
    BY <1>4, <1>7
  <2>5. \A r \in roles : ~(Arcs(role, r) > 0) => indegree'[r] = indegree[r]
    BY <2>3, <2>4
  <2>6. \A r \in roles : indegree[r] = 0 => ~(Arcs(role, r) > 0)
    BY <1>7
  <2> QED BY <1>1, <1>6, <2>1, <2>2, <2>3, <2>5, <2>6
<1>11. IsInjective(order)'
  <2>1. \A k \in 1 .. n + 1 : k \in 1..n \/ k = n + 1
    BY <1>4
  <2>2. \A k \in 1..n : order[k] # role
    BY <1>3, <1>4 DEF Range
  <2> QED BY <1>4, <1>5, <2>1, <2>2 DEF IsInjective, GInv
<1>12. VisitedAfterSources'
  <2> SUFFICES ASSUME NEW k \in 1 .. n + 1, NEW j \in 1 .. i - 1,
                      Target(edges[j]) = order'[k]
               PROVE  \E l \in 1 .. k - 1 : order'[l] = Source(edges[j])
    BY <1>1, <1>5 DEF VisitedAfterSources
  <2>1. CASE k \in 1..n
    <3>1. PICK l \in 1 .. k - 1 : order[l] = Source(edges[j])
      BY <1>5, <2>1 DEF GInv, VisitedAfterSources
    <3> QED BY <1>4, <1>5, <2>1, <3>1
  <2>2. CASE k = n + 1
    <3>1. Source(edges[j]) \in Range(order)
      BY <1>3, <1>5, <2>2 DEF Pending
    <3>2. PICK l \in 1..n : order[l] = Source(edges[j])
      BY <1>4, <3>1 DEF Range
    <3>3. l \in 1 .. k - 1
      BY <1>4, <2>2
    <3> QED BY <1>5, <3>2, <3>3
  <2> QED BY <1>4, <2>1, <2>2
<1>13. PassedEdges' /\ Defects'
  BY <1>1 DEF GInv, PassedEdges, Defects, Rejections
<1>14. Phases'
  BY <1>1, <1>3, <1>10 DEF Phases
<1> QED BY <1>8, <1>9, <1>11, <1>12, <1>13, <1>14 DEF GInv

---------------------------------------------------------------------------
(***************************************************************************)
(* The theorems.                                                           *)
(***************************************************************************)

\* Every step keeps GInv.
LEMMA GraphNextGInv == GInv /\ [Next]_vars => GInv'
<1> SUFFICES ASSUME GInv, [Next]_vars PROVE GInv'
  OBVIOUS
<1>1. CASE UNCHANGED vars
  <2>1. UNCHANGED <<graph, i, indegree, ready, order>> /\ pc' = pc /\ roles' = roles
    BY <1>1 DEF vars, graph, roles
  <2>2. Defects' /\ Phases'
    BY <2>1 DEF GInv, Defects, Defective, EdgeSet, Phases, graph
  <2> QED BY <2>1, <2>2, OnlyPcMoves DEF GInv, TypeOK
<1>2. CASE Next
  BY <1>2, RolesGInv, EdgeRejectedGInv, EdgeAcceptedGInv, StartVisitingGInv,
     VisitGInv, EndGInv DEF Next
<1> QED BY <1>1, <1>2

\* GInv holds throughout every run of topological_order.
THEOREM GraphInvariance == Spec => []GInv
<1>1. Init => GInv
  BY FreshGInv, GraphAssumption DEF Init, Fresh
<1> QED BY <1>1, GraphNextGInv, PTL DEF Spec

\* Every variable of topological_order keeps its type.
THEOREM GraphTypes == Spec => []TypeOK
<1>1. GInv => TypeOK
  BY DEF GInv
<1> QED BY <1>1, GraphInvariance, PTL

\* The visited roles are distinct active roles.
LEMMA VisitedRoles ==
  ASSUME GInv
  PROVE  /\ Range(order) \subseteq roles
         /\ Len(order) = Cardinality(roles) <=> Range(order) = roles
<1>1. order \in Seq(roles)
  BY DEF GInv, TypeOK
<1>2. Range(order) \in SUBSET roles
  BY <1>1 DEF Range
<1>3. Cardinality(Range(order)) = Len(order)
  BY <1>1, RangeIsFinite DEF GInv
<1>4. IsFiniteSet(roles)
  BY RolesType DEF GInv
<1> QED BY <1>2, <1>3, <1>4, FS_Subset

\* In a returned order the source of an edge stands before its target.
LEMMA ReturnedEdges ==
  ASSUME GInv, pc = "returned"
  PROVE  /\ Range(order) = roles
         /\ \A e \in EdgeSet : \A k \in 1..Len(order) : order[k] = Target(e) =>
                \E j \in 1 .. k - 1 : order[j] = Source(e)
         /\ \A e \in EdgeSet : e \in roles \X roles
<1>1. Range(order) = roles
  BY VisitedRoles DEF GInv, Phases
<1>2. \A e \in EdgeSet : \E j \in 1 .. i - 1 : edges[j] = e
  <2>1. i = Len(edges) + 1 /\ edges \in Seq(Nat \X Nat) /\ Len(edges) \in Nat
    BY DEF GInv, Phases, TypeOK
  <2>2. 1 .. i - 1 = DOMAIN edges
    BY <2>1
  <2> QED BY <2>2 DEF EdgeSet, Range
<1> QED BY <1>1, <1>2 DEF GInv, PassedEdges, VisitedAfterSources

\* OrderIsSound follows from GInv.
LEMMA SoundByGInv == GInv => OrderIsSound
<1>1. ASSUME GInv, pc = "returned",  NEW e \in EdgeSet
      PROVE  \E j, k \in 1..Len(order) : j < k /\ order[j] = Source(e) /\ order[k] = Target(e)
  <2>1. Target(e) \in Range(order)
    BY <1>1, ReturnedEdges DEF Target
  <2>2. order \in Seq(roles) /\ Len(order) \in Nat
    BY <1>1 DEF GInv, TypeOK
  <2>3. PICK k \in 1..Len(order) : order[k] = Target(e)
    BY <2>1, <2>2 DEF Range
  <2>4. PICK j \in 1 .. k - 1 : order[j] = Source(e)
    BY <1>1, <2>3, ReturnedEdges
  <2>5. j \in 1..Len(order) /\ j < k
    BY <2>2
  <2> QED BY <2>3, <2>4, <2>5
<1> QED BY <1>1, ReturnedEdges DEF OrderIsSound, GInv

\* The order topological_order returns has every active role once, and each
\* role after all of its predecessors.
THEOREM ReturnedOrderIsSound == Spec => []OrderIsSound
BY SoundByGInv, GraphInvariance, PTL

\* The roles that are left when nothing is ready wait for each other.
LEMMA CycleHasKnot ==
  ASSUME GInv, pc = "cycle"
  PROVE  \E C \in SUBSET roles : Knot(C)
<1> DEFINE C == roles \ Range(order)
<1>1. C # {}
  BY VisitedRoles DEF GInv, Phases
<1>2. ASSUME NEW r \in C PROVE Predecessors(r) \cap C # {}
  <2>1. indegree[r] # 0 /\ indegree[r] = Cardinality(Pending(r))
    BY DEF GInv, Phases, IndegreeCounts
  <2>2. PICK j \in Pending(r) : TRUE
    BY <2>1, FS_EmptySet
  <2>3. /\ j \in 1..Len(edges) /\ edges[j] \in roles \X roles
        /\ Target(edges[j]) = r /\ Source(edges[j]) \notin Range(order)
    BY DEF Pending, GInv, Phases, PassedEdges, TypeOK
  <2>4. edges[j] = <<Source(edges[j]), r>> /\ Source(edges[j]) \in roles
    BY <2>3 DEF Source, Target
  <2>5. edges[j] \in EdgeSet
    BY <2>3 DEF EdgeSet, Range, GInv, TypeOK
  <2> QED BY <2>3, <2>4, <2>5 DEF Predecessors
<1> QED BY <1>1, <1>2 DEF Knot

\* CycleVerdict follows from GInv.
LEMMA CycleByGInv == GInv => CycleVerdict
<1>1. ASSUME GInv, pc = "cycle" PROVE \E C \in SUBSET roles : Knot(C)
  BY <1>1, CycleHasKnot
<1>2. ASSUME GInv, pc = "returned", NEW C \in SUBSET roles, Knot(C) PROVE FALSE
  <2> DEFINE K == {k \in 1..Len(order) : order[k] \in C}
  <2>1. K # {} /\ K \in SUBSET Nat
    <3>1. PICK r \in C : r \in Range(order)
      BY <1>2, ReturnedEdges DEF Knot
    <3>2. order \in Seq(roles) /\ Len(order) \in Nat
      BY <1>2 DEF GInv, TypeOK
    <3>3. PICK k \in 1..Len(order) : order[k] = r
      BY <3>1, <3>2 DEF Range
    <3>4. k \in K
      BY <3>3
    <3> QED BY <3>4
  <2>2. Min(K) \in K /\ \A k \in K : Min(K) <= k
    BY <2>1, MinIsLeast
  <2>3. PICK first \in K : \A k \in K : first <= k
    BY <2>2
  <2>4. PICK s \in C : <<s, order[first]>> \in EdgeSet
    BY <1>2 DEF Knot, Predecessors
  <2>5. PICK j \in 1 .. first - 1 : order[j] = s
    BY <1>2, <2>4, ReturnedEdges DEF Source, Target
  <2>6. j \in 1..Len(order) /\ ~(first <= j)
    BY <1>2 DEF GInv, TypeOK
  <2> QED BY <2>3, <2>5, <2>6
<1> QED BY <1>1, <1>2 DEF CycleVerdict

\* "agent graph must be acyclic" is raised only if some roles wait for each
\* other, and an order is returned only if none do.
THEOREM CycleVerdictIsRight == Spec => []CycleVerdict
BY CycleByGInv, GraphInvariance, PTL

\* What has passed the checks has no defect.
LEMMA NotDefective ==
  ASSUME GInv, pc \in {"returned", "cycle"}
  PROVE  ~Defective
<1>1. /\ i = Len(edges) + 1 /\ Len(edges) \in Nat /\ edges \in Seq(Nat \X Nat)
      /\ DOMAIN edges = 1..Len(edges)
  BY DEF GInv, Phases, TypeOK
<1>2. IsInjective(active_roles)
  BY DEF GInv, Defects
<1>3. \A j \in DOMAIN edges :
          /\ edges[j] \in roles \X roles
          /\ Source(edges[j]) # Target(edges[j])
          /\ \A k \in 1 .. j - 1 : edges[k] # edges[j]
  BY <1>1 DEF GInv, PassedEdges
<1>4. IsInjective(edges)
  <2>1. \A j, k \in DOMAIN edges : j = k \/ j \in 1 .. k - 1 \/ k \in 1 .. j - 1
    BY <1>1
  <2> QED BY <1>3, <2>1 DEF IsInjective
<1> QED BY <1>2, <1>3, <1>4 DEF Defective, EdgeSet, Range

\* DefectVerdict follows from GInv.
LEMMA DefectByGInv == GInv => DefectVerdict
BY NotDefective DEF GInv, Defects, DefectVerdict

\* topological_order raises for a defect of the roles or the edges exactly if
\* there is one.
THEOREM DefectVerdictIsRight == Spec => []DefectVerdict
BY DefectByGInv, GraphInvariance, PTL

---------------------------------------------------------------------------
(***************************************************************************)
(* The order is the least one.                                             *)
(***************************************************************************)

\* The first n roles of the order have all the sources of r.
SourcesWithin(n, r) ==
    \A j \in 1..Len(edges) :
        Target(edges[j]) = r => \E l \in 1..n : order[l] = Source(edges[j])

\* When a role was visited, no lesser one could have been.
LeastChoice ==
    \A k \in 1..Len(order), r \in roles :
        /\ \A l \in 1 .. k - 1 : order[l] # r
        /\ SourcesWithin(k - 1, r)
        => order[k] <= r

\* The loop takes the least of the roles that are ready.
LEMMA VisitLeast ==
  ASSUME GInv, LeastChoice, Visit
  PROVE  LeastChoice'
<1> DEFINE role == Min(ready)
           n == Len(order)
<1>1. /\ pc = "visit" /\ ready # {} /\ order' = Append(order, role)
      /\ UNCHANGED <<active_roles, edges, roles>>
  BY DEF Visit, graph, roles
<1>2. role \in roles /\ \A r \in ready : role <= r
  BY <1>1, RolesType, MinIsLeast DEF GInv, TypeOK
<1> HIDE DEF role
<1>3. order \in Seq(roles) /\ n \in Nat
  BY DEF GInv, TypeOK
<1>4. /\ Len(order') = n + 1 /\ order'[n + 1] = role
      /\ \A k \in 1..n : order'[k] = order[k]
  BY <1>1, <1>2, <1>3, AppendProperties
<1> SUFFICES ASSUME NEW k \in 1 .. n + 1, NEW r \in roles,
                    \A l \in 1 .. k - 1 : order'[l] # r,
                    SourcesWithin(k - 1, r)'
             PROVE  order'[k] <= r
  BY <1>1, <1>4 DEF LeastChoice
<1>5. \A l \in 1 .. k - 1 : l \in 1..n /\ order'[l] = order[l]
  BY <1>3, <1>4
<1>6. (\A l \in 1 .. k - 1 : order[l] # r) /\ SourcesWithin(k - 1, r)
  BY <1>1, <1>5 DEF SourcesWithin
<1>7. CASE k \in 1..n
  <2>1. order[k] <= r
    BY <1>6, <1>7 DEF LeastChoice
  <2> QED BY <1>4, <1>7, <2>1
<1>8. CASE k = n + 1
  <2>1. k - 1 = n
    BY <1>3, <1>8
  <2>2. r \notin Range(order)
    BY <1>3, <1>6, <2>1 DEF Range
  <2>3. Pending(r) = {}
    <3>1. i - 1 = Len(edges)
      BY <1>1 DEF GInv, Phases, TypeOK
    <3>2. \A l \in 1..n : order[l] \in Range(order)
      BY <1>3 DEF Range
    <3> QED BY <1>6, <2>1, <3>1, <3>2 DEF Pending, SourcesWithin
  <2>4. indegree[r] = 0
    BY <2>3, FS_EmptySet DEF GInv, IndegreeCounts
  <2>5. r \in ready
    BY <1>1, <2>2, <2>4 DEF GInv, Phases
  <2> QED BY <1>2, <1>4, <1>8, <2>5
<1> QED BY <1>3, <1>7, <1>8

\* A list of all the roles leaves none out.
LEMMA ListsAll ==
  ASSUME TypeOK, NEW t \in SetToSeqs(roles)
  PROVE  /\ t \in Seq(roles) /\ Len(t) = Cardinality(roles)
         /\ \A j, k \in 1..Len(t) : t[j] = t[k] => j = k
         /\ \A r \in roles : \E k \in 1..Len(t) : t[k] = r
<1>1. IsFiniteSet(roles) /\ Cardinality(roles) \in Nat
  BY RolesType
<1>2. /\ t \in [1..Cardinality(roles) -> roles]
      /\ \A j, k \in 1..Cardinality(roles) : j # k => t[j] # t[k]
  BY DEF SetToSeqs
<1>3. t \in Seq(roles) /\ Len(t) = Cardinality(roles) /\ DOMAIN t = 1..Len(t)
  BY <1>1, <1>2
<1>4. IsInjective(t)
  BY <1>2, <1>3 DEF IsInjective
<1>5. Cardinality(Range(t)) = Cardinality(roles)
  BY <1>3, <1>4, RangeIsFinite
<1>6. Range(t) \in SUBSET roles
  BY <1>3 DEF Range
<1>7. Range(t) = roles
  BY <1>1, <1>5, <1>6, FS_Subset
<1> QED BY <1>2, <1>3, <1>7 DEF Range

\* A returned order respects the edges.
LEMMA ReturnedRespects ==
  ASSUME GInv, pc = "returned"
  PROVE  /\ order \in SetToSeqs(roles)
         /\ Respects([active_roles |-> active_roles, edges |-> edges], order)
<1>1. /\ order \in Seq(roles) /\ Len(order) = Cardinality(roles) /\ IsInjective(order)
      /\ Len(order) \in Nat /\ DOMAIN order = 1..Len(order)
  BY DEF GInv, TypeOK, Phases
<1>2. \A j, k \in 1..Len(order) : order[j] = order[k] => j = k
  BY <1>1 DEF IsInjective
<1>3. order \in SetToSeqs(roles)
  BY <1>1, <1>2 DEF SetToSeqs
<1>4. ASSUME NEW j \in 1..Len(order), NEW k \in 1..Len(order),
             <<order[j], order[k]>> \in EdgeSet
      PROVE  j < k
  <2>1. PICK l \in 1 .. k - 1 : order[l] = order[j]
    BY <1>4, ReturnedEdges DEF Source, Target
  <2>2. l \in 1..Len(order) /\ l < k
    BY <1>1
  <2> QED BY <1>2, <2>1, <2>2
<1> QED BY <1>3, <1>4 DEF Respects, EdgeSet

\* An order that is less than the returned one has, at the first place where
\* they differ, a role that could have been visited there and is less.
LEMMA NoLesserOrder ==
  ASSUME GInv, LeastChoice, pc = "returned", NEW t \in SetToSeqs(roles),
         Respects([active_roles |-> active_roles, edges |-> edges], t), Precedes(t, order)
  PROVE  FALSE
<1>1. /\ t \in Seq(roles) /\ Len(t) = Cardinality(roles)
      /\ \A j, k \in 1..Len(t) : t[j] = t[k] => j = k
      /\ \A r \in roles : \E k \in 1..Len(t) : t[k] = r
  BY ListsAll DEF GInv
<1>2. /\ order \in Seq(roles) /\ Len(order) = Cardinality(roles)
      /\ Cardinality(roles) \in Nat /\ roles \in SUBSET Nat
      /\ edges \in Seq(Nat \X Nat) /\ DOMAIN edges = 1..Len(edges)
  BY RolesType DEF GInv, TypeOK, Phases
<1>3. PICK k \in 1..Len(t) : t[k] < order[k] /\ \A j \in 1 .. k - 1 : t[j] = order[j]
  BY DEF Precedes
<1>4. k \in 1..Len(order) /\ t[k] \in roles /\ order[k] \in roles
  BY <1>1, <1>2
<1>5. ASSUME NEW l \in 1 .. k - 1 PROVE order[l] # t[k]
  <2>1. l \in 1..Len(t) /\ l # k
    BY <1>1, <1>2
  <2> QED BY <1>1, <1>3, <2>1
<1>6. SourcesWithin(k - 1, t[k])
  <2> SUFFICES ASSUME NEW j \in 1..Len(edges), Target(edges[j]) = t[k]
               PROVE  \E l \in 1 .. k - 1 : order[l] = Source(edges[j])
    BY DEF SourcesWithin
  <2>1. edges[j] = <<Source(edges[j]), t[k]>> /\ edges[j] \in EdgeSet
    <3>1. edges[j] \in Nat \X Nat
      BY <1>2
    <3>2. edges[j] = <<Source(edges[j]), Target(edges[j])>>
      BY <3>1 DEF Source, Target
    <3>3. j \in DOMAIN edges
      BY <1>2
    <3>4. edges[j] \in EdgeSet
      BY <3>3 DEF EdgeSet, Range
    <3> QED BY <3>2, <3>4
  <2>2. Source(edges[j]) \in roles
    BY <2>1, ReturnedEdges DEF Source
  <2>3. PICK l \in 1..Len(t) : t[l] = Source(edges[j])
    BY <1>1, <2>2
  <2>4. l < k
    BY <2>1, <2>3 DEF Respects, EdgeSet
  <2>5. l \in 1 .. k - 1
    BY <1>1, <1>2, <2>4
  <2> QED BY <1>3, <2>3, <2>5
<1>7. order[k] <= t[k]
  BY <1>4, <1>5, <1>6 DEF LeastChoice
<1>8. order[k] \in Nat /\ t[k] \in Nat
  BY <1>2, <1>4
<1> QED BY <1>3, <1>7, <1>8

\* No other step disturbs LeastChoice.
LEMMA LeastNext == GInv /\ LeastChoice /\ [Next]_vars => LeastChoice'
<1> SUFFICES ASSUME GInv, LeastChoice, [Next]_vars PROVE LeastChoice'
  OBVIOUS
<1>1. CASE Visit
  BY <1>1, VisitLeast
<1>2. CASE ~Visit
  <2>1. UNCHANGED <<active_roles, edges, order>>
    BY <1>2 DEF Next, vars, graph, Reject, RolesNotUnique, RolesUnique, EdgeInactive, EdgeSelf,
                EdgeDuplicate, EdgeAccepted, StartVisiting, Cyclic, Return
  <2> QED BY <2>1 DEF LeastChoice, SourcesWithin, roles
<1> QED BY <1>1, <1>2

\* OrderIsLeast follows from GInv and LeastChoice.
LEMMA LeastByChoice == GInv /\ LeastChoice => OrderIsLeast
<1> SUFFICES ASSUME GInv, LeastChoice, pc = "returned"
             PROVE  IsLeastOrder([active_roles |-> active_roles, edges |-> edges], order)
  BY DEF OrderIsLeast
<1>1. Roles([active_roles |-> active_roles, edges |-> edges]) = roles
  BY DEF Roles, roles
<1> QED BY <1>1, ReturnedRespects, NoLesserOrder DEF IsLeastOrder

\* The order topological_order returns is the least of all that respect the
\* edges.  It is therefore the one AgentGraph names, and depends on nothing
\* but the sets of roles and edges.
THEOREM ReturnedOrderIsLeast == Spec => []OrderIsLeast
<1>1. Init => LeastChoice
  BY DEF Init, LeastChoice
<1> QED BY <1>1, LeastNext, LeastByChoice, GraphInvariance, PTL DEF Spec

\* Two lists of the same length differ at a first place, where one of them
\* has the lesser number.
LEMMA OnePrecedes ==
  ASSUME NEW n \in Nat, NEW s \in [1..n -> Nat], NEW t \in [1..n -> Nat], s # t
  PROVE  \E k \in 1..n : s[k] # t[k] /\ \A j \in 1 .. k - 1 : s[j] = t[j]
<1> DEFINE I == {k \in 1..n : s[k] # t[k]}
<1>1. I \in SUBSET Nat /\ I # {}
  OBVIOUS
<1>2. Min(I) \in I /\ \A k \in I : Min(I) <= k
  <2> HIDE DEF I
  <2> QED BY <1>1, MinIsLeast
<1> DEFINE k == Min(I)
<1>3. k \in 1..n /\ s[k] # t[k] /\ k \in Nat
  BY <1>2
<1>4. ASSUME NEW j \in 1 .. k - 1 PROVE s[j] = t[j]
  <2>1. j \in 1..n /\ ~ (k <= j)
    BY <1>3
  <2> QED BY <1>2, <2>1
<1> QED BY <1>3, <1>4

\* There is no other least order than the returned one.
LEMMA LeastOrderIsOne ==
  ASSUME GInv, pc = "returned", NEW t \in SetToSeqs(roles),
         IsLeastOrder([active_roles |-> active_roles, edges |-> edges], order),
         IsLeastOrder([active_roles |-> active_roles, edges |-> edges], t)
  PROVE  t = order
<1> DEFINE g == [active_roles |-> active_roles, edges |-> edges]
           n == Cardinality(roles)
<1>1. order \in SetToSeqs(roles) /\ Roles(g) = roles
  BY ReturnedRespects DEF Roles, roles
<1>2. n \in Nat /\ roles \subseteq Nat
  BY RolesType DEF GInv
<1>3. order \in [1..n -> Nat] /\ t \in [1..n -> Nat]
  BY <1>1, <1>2 DEF SetToSeqs
<1>4. Len(order) = n /\ Len(t) = n
  BY <1>2, <1>3
<1>5. Respects(g, order) /\ Respects(g, t) /\ ~ Precedes(t, order) /\ ~ Precedes(order, t)
  BY <1>1 DEF IsLeastOrder
<1> HIDE DEF n, g
<1> SUFFICES ASSUME t # order PROVE FALSE
  OBVIOUS
<1>6. PICK k \in 1..n : t[k] # order[k] /\ \A j \in 1 .. k - 1 : t[j] = order[j]
  BY <1>2, <1>3, OnePrecedes
<1>7. t[k] < order[k] \/ order[k] < t[k]
  BY <1>3, <1>6
<1> QED BY <1>4, <1>5, <1>6, <1>7 DEF Precedes

\* The order that topological_order returns is the operator of that name of
\* AgentGraph, by which the benchmark schedules its invocations.
THEOREM ReturnedOrderIsNamed ==
  Spec => [](pc = "returned" =>
                 order = topological_order([active_roles |-> active_roles, edges |-> edges]))
<1> DEFINE g == [active_roles |-> active_roles, edges |-> edges]
<1>1. ASSUME GInv, OrderIsLeast, pc = "returned" PROVE order = topological_order(g)
  <2>1. order \in SetToSeqs(Roles(g)) /\ Roles(g) = roles
    BY <1>1, ReturnedRespects DEF Roles, roles
  <2>2. IsLeastOrder(g, order)
    BY <1>1 DEF OrderIsLeast
  <2>3. \A t \in SetToSeqs(Roles(g)) : IsLeastOrder(g, t) => t = order
    BY <1>1, <2>1, <2>2, LeastOrderIsOne
  <2> HIDE DEF g
  <2> QED BY <2>1, <2>2, <2>3 DEF topological_order
<1>2. (GInv /\ OrderIsLeast) => (pc = "returned" => order = topological_order(g))
  BY <1>1
<1> HIDE DEF g
<1>3. Spec => [](pc = "returned" => order = topological_order(g))
  BY <1>2, ReturnedOrderIsLeast, GraphInvariance, PTL
<1> QED BY <1>3 DEF g

---------------------------------------------------------------------------
(***************************************************************************)
(* load_topology_trace.                                                    *)
(***************************************************************************)

\* The lines before the present one that are not blank.
Passed == Given \cap (1 .. line - 1)

Valid(j) == file[j].kind = "object" /\ IsMapping(file[j]) /\ IsDag(Request(file[j]).graph)

\* GraphSpec.create works on the graph of the present line.
CreatesPresent ==
    loading = "graph" =>
        /\ line <= Len(file) /\ file[line].kind = "object" /\ IsMapping(file[line])
        /\ active_roles = file[line].active_roles /\ edges = file[line].edges

\* The lines passed are valid, with ids of their own, and the requests are
\* theirs, each at the place that its line has among them.
PassedLoaded ==
    /\ requests \in Seq({Request(file[j]) : j \in Passed})
    /\ Len(requests) = Cardinality(Passed)
    /\ \A j \in Passed : Valid(j) /\ requests[Cardinality(Given \cap 1..j)] = Request(file[j])
    /\ \A j, k \in Passed : file[j].request_id = file[k].request_id => j = k

LoaderInv ==
    /\ file \in Files /\ line \in 1 .. Len(file) + 1
    /\ loading \in {"lines", "graph", "loaded", "raised"}
    /\ CreatesPresent /\ PassedLoaded
    /\ loading = "loaded" => line = Len(file) + 1 /\ requests # <<>>
    /\ loading = "raised" => ~WellFormed

\* Files are lists of lines.
LEMMA FileType ==
  ASSUME LoaderInv
  PROVE  /\ Len(file) \in Nat /\ line \in Nat /\ line \in 1 .. Len(file) + 1
         /\ Given \in SUBSET (1..Len(file)) /\ Passed \in SUBSET Given
         /\ \A j \in 1..Len(file) :
                /\ file[j].kind \in {"blank", "not JSON", "not an object", "object"}
                /\ file[j].kind = "object" /\ IsMapping(file[j]) =>
                    file[j].active_roles \in Seq(Nat) /\ file[j].edges \in Seq(Nat \X Nat)
<1>1. file \in Seq(Range(file))
  BY FileAssumption DEF LoaderInv
<1> DEFINE S == Range(file)
<1>2. \A l \in S :
        /\ l.kind \in {"blank", "not JSON", "not an object", "object"}
        /\ l.kind = "object" /\ IsMapping(l) =>
                l.active_roles \in Seq(Nat) /\ l.edges \in Seq(Nat \X Nat)
  BY FileAssumption DEF LoaderInv
<1>3. file \in Seq(S)
  BY <1>1
<1> HIDE DEF S
<1>4. Len(file) \in Nat /\ line \in Nat /\ line \in 1 .. Len(file) + 1
  <2>1. line \in 1 .. Len(file) + 1
    BY DEF LoaderInv
  <2>2. Len(file) \in Nat
    BY <1>3
  <2> QED BY <2>1, <2>2
<1>5. \A j \in 1..Len(file) : file[j] \in S
  BY <1>3
<1>6. Given \in SUBSET (1..Len(file)) /\ Passed \in SUBSET Given
  BY DEF Given, Passed
<1> QED BY <1>2, <1>4, <1>5, <1>6

\* The present line is one of the file, or one past it.
LEMMA LineType ==
  ASSUME LoaderInv
  PROVE  Len(file) \in Nat /\ line \in Nat /\ line \in 1 .. Len(file) + 1
BY FileType, Zenon

\* The places of lines among those that are not blank.
LEMMA Places ==
  ASSUME LoaderInv, NEW j \in Passed
  PROVE  Cardinality(Given \cap 1..j) \in 1..Cardinality(Passed)
<1> DEFINE upto == Given \cap 1..j
<1>1. line \in Nat /\ j \in 1 .. line - 1
  BY FileType DEF Passed
<1>2. upto \in SUBSET Passed /\ j \in upto
  BY <1>1 DEF Passed
<1>3. IsFiniteSet(1 .. line - 1)
  BY <1>1, FS_Interval
<1>4. Passed \in SUBSET (1 .. line - 1)
  BY DEF Passed
<1>5. IsFiniteSet(Passed)
  BY <1>3, <1>4, FS_Subset
<1> HIDE DEF upto
<1>6. IsFiniteSet(upto) /\ Cardinality(upto) <= Cardinality(Passed)
  BY <1>2, <1>5, FS_Subset
<1>7. Cardinality(upto) \in Nat /\ Cardinality(Passed) \in Nat /\ Cardinality(upto) # 0
  BY <1>2, <1>5, <1>6, FS_CardinalityType, FS_EmptySet
<1> QED BY <1>6, <1>7 DEF upto

\* seen_ids has the ids of the lines passed, and no others.
LEMMA SeenIds ==
  ASSUME LoaderInv
  PROVE  seen_ids = {file[j].request_id : j \in Passed}
<1>1. /\ requests \in Seq({Request(file[j]) : j \in Passed})
      /\ Len(requests) = Cardinality(Passed)
  BY DEF LoaderInv, PassedLoaded
<1>2. ASSUME NEW n \in 1..Len(requests)
      PROVE  \E j \in Passed : requests[n].request_id = file[j].request_id
  <2>1. requests[n] \in {Request(file[j]) : j \in Passed}
    BY <1>1
  <2> QED BY <2>1 DEF Request
<1>3. ASSUME NEW j \in Passed
      PROVE  \E n \in 1..Len(requests) : requests[n].request_id = file[j].request_id
  <2>1. Cardinality(Given \cap 1..j) \in 1..Len(requests)
    BY <1>1, Places
  <2>2. requests[Cardinality(Given \cap 1..j)] = Request(file[j])
    BY DEF LoaderInv, PassedLoaded
  <2>3. Request(file[j]).request_id = file[j].request_id
    BY DEF Request
  <2> QED BY <2>1, <2>2, <2>3
<1> QED BY <1>2, <1>3 DEF seen_ids

\* A set of roles that wait for each other leaves no order that respects the
\* edges: its first role there has a source before it.
LEMMA KnotHasNoOrder ==
  ASSUME TypeOK, NEW C \in SUBSET roles, Knot(C), NEW s \in SetToSeqs(roles),
         Respects([active_roles |-> active_roles, edges |-> edges], s)
  PROVE  FALSE
<1> DEFINE K == {k \in 1..Len(s) : s[k] \in C}
<1>1. /\ s \in Seq(roles) /\ Len(s) \in Nat
      /\ \A r \in roles : \E k \in 1..Len(s) : s[k] = r
  BY ListsAll, RolesType
<1>2. K # {} /\ K \in SUBSET Nat
  <2>1. PICK r \in C : r \in roles
    BY DEF Knot
  <2>2. PICK k \in 1..Len(s) : s[k] = r
    BY <1>1, <2>1
  <2>3. k \in K
    BY <2>1, <2>2
  <2>4. Len(s) \in Nat
    BY <1>1
  <2>5. K \in SUBSET Nat
    BY <2>4
  <2> QED BY <2>3, <2>5
<1>3. PICK first \in K : \A k \in K : first <= k
  <2> HIDE DEF K
  <2> QED BY <1>2, MinIsLeast
<1>4. PICK r \in C : <<r, s[first]>> \in EdgeSet /\ r \in roles
  BY <1>3 DEF Knot, Predecessors
<1>5. PICK k \in 1..Len(s) : s[k] = r
  BY <1>1, <1>4
<1>6. k < first
  BY <1>3, <1>4, <1>5 DEF Respects, EdgeSet
<1>7. k \in K /\ first \in Nat /\ k \in Nat
  BY <1>1, <1>2, <1>3, <1>4, <1>5
<1> QED BY <1>3, <1>6, <1>7

\* GraphSpec.create returns just for the graphs it should: acyclic ones with
\* neither defect nor repetition.
LEMMA CreateVerdict ==
  ASSUME GInv
  PROVE  /\ pc = "returned" => IsDag([active_roles |-> active_roles, edges |-> edges])
         /\ pc \in Rejections => ~IsDag([active_roles |-> active_roles, edges |-> edges])
<1> DEFINE g == [active_roles |-> active_roles, edges |-> edges]
<1>1. Roles(g) = roles /\ g.active_roles = active_roles /\ g.edges = edges
  BY DEF Roles, roles
<1> HIDE DEF g
<1>2. ASSUME pc = "returned" PROVE IsDag(g)
  <2>1. /\ IsInjective(active_roles) /\ IsInjective(edges)
        /\ Range(edges) \subseteq roles \X roles
    BY <1>2, NotDefective DEF Defective, EdgeSet
  <2>2. order \in SetToSeqs(roles) /\ Respects(g, order)
    BY <1>2, ReturnedRespects DEF g
  <2> QED BY <1>1, <2>1, <2>2 DEF IsDag
<1>3. ASSUME pc = "cycle", IsDag(g) PROVE FALSE
  <2>1. PICK C \in SUBSET roles : Knot(C)
    BY <1>3, CycleHasKnot
  <2>2. PICK s \in SetToSeqs(roles) : Respects(g, s)
    BY <1>1, <1>3 DEF IsDag
  <2> QED BY <2>1, <2>2, KnotHasNoOrder DEF g, GInv
<1>4. ASSUME pc \in Rejections \ {"cycle"}, IsDag(g) PROVE FALSE
  <2>1. /\ IsInjective(active_roles) /\ IsInjective(edges) /\ EdgeSet \subseteq roles \X roles
    BY <1>1, <1>4 DEF IsDag, EdgeSet
  <2>2. PICK e \in EdgeSet : Source(e) = Target(e)
    BY <1>4, <2>1 DEF GInv, Defects, Defective
  <2>3. PICK s \in SetToSeqs(roles) : Respects(g, s)
    BY <1>1, <1>4 DEF IsDag
  <2>4. e = <<Source(e), Source(e)>> /\ Source(e) \in roles
    BY <2>1, <2>2 DEF Source, Target
  <2>5. PICK k \in 1..Len(s) : s[k] = Source(e)
    BY <2>3, <2>4, ListsAll DEF GInv
  <2>6. k < k
    BY <1>1, <2>2, <2>3, <2>4, <2>5 DEF Respects, EdgeSet
  <2> QED BY <2>6
<1> QED BY <1>2, <1>3, <1>4 DEF g

\* What has been passed stays as it is while the present line does.
LEMMA PassedKept ==
  ASSUME PassedLoaded, UNCHANGED <<file, line, requests>>
  PROVE  PassedLoaded' /\ Given' = Given /\ (WellFormed' <=> WellFormed)
<1>1. Given' = Given /\ Passed' = Passed
  BY DEF Given, Passed
<1>2. \A j : Valid(j)' <=> Valid(j)
  BY DEF Valid
<1> QED BY <1>1, <1>2 DEF PassedLoaded, WellFormed

\* An error may be raised for a line that makes the file ill-formed.
LEMMA RaiseKeepsInv ==
  ASSUME LoaderInv, ~WellFormed, Raise
  PROVE  LoaderInv'
BY PassedKept DEF LoaderInv, Raise, CreatesPresent

\* A line that is not blank has to be valid.
LEMMA LineToRead ==
  ASSUME LoaderInv, line <= Len(file), file[line].kind # "blank"
  PROVE  line \in Given /\ (WellFormed => Valid(line))
<1>1. line \in 1..Len(file)
  BY LineType
<1>2. line \in Given
  BY <1>1 DEF Given
<1> QED BY <1>2 DEF WellFormed, Valid

\* A blank line is passed over.
LEMMA BlankLineInv == LoaderInv /\ BlankLine => LoaderInv'
<1> SUFFICES ASSUME LoaderInv, BlankLine PROVE LoaderInv'
  OBVIOUS
<1>1. /\ line <= Len(file) /\ file[line].kind = "blank" /\ line' = line + 1
      /\ loading = "lines" /\ UNCHANGED <<file, loading, requests>>
  BY DEF BlankLine, AtLine
<1>2. line \in Nat /\ Len(file) \in Nat /\ line' \in 1 .. Len(file') + 1
  <2>1. line \in Nat /\ Len(file) \in Nat
    BY LineType
  <2>2. line + 1 \in 1 .. Len(file) + 1
    BY <1>1, LineType
  <2> QED BY <1>1, <2>1, <2>2
<1>3. Given' = Given /\ line \notin Given
  BY <1>1 DEF Given
<1>4. Passed' = Passed
  <2>1. line' - 1 = line
    BY <1>1, <1>2
  <2>2. \A j \in 1..line : j \in 1 .. line - 1 \/ j = line
    BY <1>2
  <2>3. 1 .. line - 1 \subseteq 1..line
    BY <1>2
  <2> QED BY <1>3, <2>1, <2>2, <2>3 DEF Passed
<1>5. \A j : Valid(j)' <=> Valid(j)
  BY <1>1 DEF Valid
<1>6. PassedLoaded'
  BY <1>1, <1>3, <1>4, <1>5 DEF LoaderInv, PassedLoaded
<1> QED BY <1>1, <1>2, <1>6 DEF LoaderInv, CreatesPresent

\* A request with a valid graph and an id of its own is kept.
LEMMA RequestLoadedInv == GInv /\ LoaderInv /\ RequestLoaded => LoaderInv'
<1> SUFFICES ASSUME GInv, LoaderInv, RequestLoaded PROVE LoaderInv'
  OBVIOUS
<1> DEFINE Old == {Request(file[j]) : j \in Passed}
           New == {Request(file[j])' : j \in Passed'}
<1>1. /\ loading = "graph" /\ pc = "returned" /\ file[line].request_id \notin seen_ids
      /\ requests' = Append(requests, Request(file[line])) /\ line' = line + 1
      /\ loading' = "lines" /\ file' = file
  BY DEF RequestLoaded
<1>2. /\ line <= Len(file) /\ file[line].kind = "object" /\ IsMapping(file[line])
      /\ active_roles = file[line].active_roles /\ edges = file[line].edges
  BY <1>1 DEF LoaderInv, CreatesPresent
<1>3. line \in Given /\ line \in Nat /\ Len(file) \in Nat
  BY <1>2, LineToRead, FileType
<1>4. Valid(line)
  BY <1>1, <1>2, CreateVerdict DEF Valid, Request
<1>5. Given' = Given
  BY <1>1 DEF Given
<1>6. Passed' = Passed \cup {line} /\ line \notin Passed /\ Given \cap 1..line = Passed'
  <2>1. line' - 1 = line
    BY <1>1, <1>3
  <2>2. \A j \in 1..line : j \in 1 .. line - 1 \/ j = line
    BY <1>3
  <2>3. line \in 1..line /\ line \notin 1 .. line - 1 /\ 1 .. line - 1 \subseteq 1..line
    BY <1>3 DEF Given
  <2> QED BY <1>3, <1>5, <2>1, <2>2, <2>3 DEF Passed
<1>7. IsFiniteSet(Passed) /\ Cardinality(Passed) \in Nat
  <2>1. Passed \in SUBSET (1 .. line - 1)
    BY DEF Passed
  <2>2. IsFiniteSet(1 .. line - 1)
    BY <1>3, FS_Interval
  <2> QED BY <2>1, <2>2, FS_Subset, FS_CardinalityType
<1>8. Cardinality(Passed') = Cardinality(Passed) + 1
  BY <1>6, <1>7, FS_AddElement
<1>9. requests \in Seq(Old) /\ Len(requests) = Cardinality(Passed)
  BY DEF LoaderInv, PassedLoaded
<1>10. New = Old \cup {Request(file[line])}
  <2>1. \A j : Request(file[j])' = Request(file[j])
    BY <1>1 DEF Request
  <2> QED BY <1>6, <2>1
<1> HIDE DEF Old, New
<1>11. requests \in Seq(New) /\ Request(file[line]) \in New
  BY <1>9, <1>10
<1>12. /\ requests' \in Seq(New) /\ Len(requests') = Len(requests) + 1
       /\ \A n \in 1..Len(requests) : requests'[n] = requests[n]
       /\ requests'[Len(requests) + 1] = Request(file[line])
  BY <1>1, <1>11, AppendProperties
<1>13. ASSUME NEW j \in Passed'
       PROVE  Valid(j)' /\ requests'[Cardinality(Given' \cap 1..j)] = Request(file[j])'
  <2>1. (Valid(j)' <=> Valid(j)) /\ Request(file[j])' = Request(file[j])
    BY <1>1 DEF Valid, Request
  <2>2. CASE j \in Passed
    <3>1. Valid(j) /\ requests[Cardinality(Given \cap 1..j)] = Request(file[j])
      BY <2>2 DEF LoaderInv, PassedLoaded
    <3>2. Cardinality(Given \cap 1..j) \in 1..Len(requests)
      BY <1>9, <2>2, Places
    <3> QED BY <1>5, <1>12, <2>1, <3>1, <3>2
  <2>3. CASE j = line
    <3>1. Cardinality(Given \cap 1..j) = Len(requests) + 1
      BY <1>6, <1>8, <1>9, <2>3
    <3> QED BY <1>4, <1>5, <1>12, <2>1, <2>3, <3>1
  <2> QED BY <1>6, <2>2, <2>3
<1>14. ASSUME NEW j \in Passed', NEW k \in Passed',
              file'[j].request_id = file'[k].request_id
       PROVE  j = k
  <2>1. \A l \in Passed : file[l].request_id # file[line].request_id
    BY <1>1, SeenIds
  <2>2. \A l, m \in Passed : file[l].request_id = file[m].request_id => l = m
    BY DEF LoaderInv, PassedLoaded
  <2> QED BY <1>1, <1>6, <1>14, <2>1, <2>2
<1>15. PassedLoaded'
  BY <1>8, <1>9, <1>12, <1>13, <1>14 DEF PassedLoaded, New
<1>16. line' \in 1 .. Len(file') + 1
  BY <1>1, <1>2, <1>3 DEF LoaderInv
<1> QED BY <1>1, <1>15, <1>16 DEF LoaderInv, CreatesPresent

\* At the end everything that is not blank has been passed.
LEMMA EndOfFileInv == LoaderInv /\ EndOfFile => LoaderInv'
<1> SUFFICES ASSUME LoaderInv, EndOfFile PROVE LoaderInv'
  OBVIOUS
<1>1. /\ loading = "lines" /\ line > Len(file) /\ UNCHANGED <<file, line, requests>>
      /\ loading' = IF requests = <<>> THEN "raised" ELSE "loaded"
  BY DEF EndOfFile
<1>2. line = Len(file) + 1 /\ Len(file) \in Nat
  BY <1>1, LineType
<1>3. PassedLoaded' /\ (WellFormed' <=> WellFormed)
  BY <1>1, PassedKept DEF LoaderInv
<1>4. ASSUME requests = <<>> PROVE ~WellFormed
  <2>1. Cardinality(Passed) = 0
    BY <1>4 DEF LoaderInv, PassedLoaded
  <2>2. Given \in SUBSET (1..Len(file))
    BY DEF Given
  <2>3. Passed = Given
    <3>1. line - 1 = Len(file)
      BY <1>2
    <3> QED BY <2>2, <3>1 DEF Passed
  <2>4. IsFiniteSet(1..Len(file))
    BY <1>2, FS_Interval
  <2>5. IsFiniteSet(Given)
    BY <2>2, <2>4, FS_Subset
  <2> QED BY <2>1, <2>3, <2>5, FS_EmptySet DEF WellFormed
<1> QED BY <1>1, <1>2, <1>3, <1>4 DEF LoaderInv, CreatesPresent

\* The invariant of loading: that of the function inside, and the loader's.
TraceInv == GInv /\ LeastChoice /\ LoaderInv

\* Nothing has been read at first.
LEMMA TraceInitInv == TraceInit => TraceInv
<1> SUFFICES ASSUME TraceInit PROVE TraceInv
  OBVIOUS
<1>1. GInv
  BY FreshGInv DEF TraceInit, Fresh, roles, Range
<1>2. LeastChoice
  BY DEF TraceInit, LeastChoice
<1>3. Passed = {}
  BY DEF TraceInit, Passed
<1>4. PassedLoaded
  BY <1>3, FS_EmptySet DEF TraceInit, PassedLoaded
<1>5. line \in 1 .. Len(file) + 1
  <2>1. file \in Seq(Range(file))
    BY FileAssumption DEF TraceInit
  <2>2. Len(file) \in Nat
    BY <2>1
  <2> QED BY <2>2 DEF TraceInit
<1> QED BY <1>1, <1>2, <1>4, <1>5 DEF TraceInv, LoaderInv, TraceInit, CreatesPresent

\* Every line starts GraphSpec.create afresh.
LEMMA CreateGraphInv == TraceInv /\ CreateGraph => TraceInv'
<1> SUFFICES ASSUME TraceInv, CreateGraph PROVE TraceInv'
  OBVIOUS
<1>1. /\ loading = "lines" /\ line <= Len(file)
      /\ file[line].kind = "object" /\ IsMapping(file[line])
      /\ active_roles' = file[line].active_roles /\ edges' = file[line].edges
      /\ order' = <<>> /\ loading' = "graph" /\ UNCHANGED <<file, line, requests>>
  BY DEF CreateGraph, AtLine
<1>2. line \in 1..Len(file)
  BY <1>1, LineType DEF TraceInv
<1>3. file[line].active_roles \in Seq(Nat) /\ file[line].edges \in Seq(Nat \X Nat)
  BY <1>1, <1>2, FileType DEF TraceInv
<1>4. Fresh'
  BY <1>1, <1>3 DEF CreateGraph, Fresh
<1>5. GInv'
  BY <1>4, FreshGInv, PTL
<1>6. LeastChoice'
  BY <1>1 DEF LeastChoice
<1>7. LoaderInv'
  BY <1>1, PassedKept DEF TraceInv, LoaderInv, CreatesPresent
<1> QED BY <1>5, <1>6, <1>7 DEF TraceInv

\* Every step of loading keeps the invariant.
LEMMA TraceNextInv == TraceInv /\ [TraceNext]_<<vars, loaderVars>> => TraceInv'
<1> SUFFICES ASSUME TraceInv, [TraceNext]_<<vars, loaderVars>> PROVE TraceInv'
  OBVIOUS
<1>1. UNCHANGED vars => (GInv /\ LeastChoice)'
  BY GraphNextGInv, LeastNext DEF TraceInv
<1>2. CASE BlankLine
  BY <1>1, <1>2, BlankLineInv DEF BlankLine, TraceInv
<1>3. CASE NotAnObject \/ NotARequest
  <2>1. ~WellFormed /\ Raise /\ UNCHANGED vars
    BY <1>3, LineToRead DEF NotAnObject, NotARequest, AtLine, TraceInv, Valid
  <2> QED BY <1>1, <2>1, RaiseKeepsInv DEF TraceInv
<1>4. CASE CreateGraph
  BY <1>4, CreateGraphInv
<1>5. CASE GraphStep
  <2>1. (GInv /\ LeastChoice)'
    BY <1>5, GraphNextGInv, LeastNext DEF GraphStep, TraceInv
  <2>2. UNCHANGED <<active_roles, edges>>
    BY <1>5 DEF GraphStep, Next, graph, Reject, RolesNotUnique, RolesUnique, EdgeInactive,
                EdgeSelf, EdgeDuplicate, EdgeAccepted, StartVisiting, Visit, Cyclic, Return
  <2>3. LoaderInv'
    BY <1>5, <2>2, PassedKept DEF GraphStep, loaderVars, TraceInv, LoaderInv, CreatesPresent
  <2> QED BY <2>1, <2>3 DEF TraceInv
<1>6. CASE GraphRejected
  <2>1. /\ line <= Len(file) /\ file[line].kind = "object"
        /\ active_roles = file[line].active_roles /\ edges = file[line].edges
    BY <1>6 DEF GraphRejected, TraceInv, LoaderInv, CreatesPresent
  <2>2. ~Valid(line)
    BY <1>6, <2>1, CreateVerdict DEF GraphRejected, TraceInv, Valid, Request
  <2>3. ~WellFormed
    BY <2>1, <2>2, LineToRead DEF TraceInv
  <2> QED BY <1>1, <1>6, <2>3, RaiseKeepsInv DEF GraphRejected, TraceInv
<1>7. CASE DuplicateId
  <2>1. /\ line <= Len(file) /\ file[line].kind = "object" /\ loading = "graph"
        /\ file[line].request_id \in seen_ids
    BY <1>7 DEF DuplicateId, TraceInv, LoaderInv, CreatesPresent
  <2>2. PICK j \in Passed : file[j].request_id = file[line].request_id
    BY <2>1, SeenIds DEF TraceInv
  <2>3. j # line
    BY LineType DEF Passed, TraceInv
  <2>4. j \in Given /\ line \in Given
    BY <2>1, LineToRead DEF Passed, TraceInv
  <2>5. ~WellFormed
    BY <2>2, <2>3, <2>4 DEF WellFormed
  <2> QED BY <1>1, <1>7, <2>5, RaiseKeepsInv DEF DuplicateId, TraceInv
<1>8. CASE RequestLoaded
  BY <1>1, <1>8, RequestLoadedInv DEF RequestLoaded, TraceInv
<1>9. CASE EndOfFile
  BY <1>1, <1>9, EndOfFileInv DEF EndOfFile, TraceInv
<1>10. CASE UNCHANGED <<vars, loaderVars>>
  <2>1. UNCHANGED <<active_roles, edges, pc>> /\ UNCHANGED <<file, line, loading, requests>>
    BY <1>10 DEF vars, loaderVars
  <2>2. LoaderInv'
    BY <2>1, PassedKept DEF TraceInv, LoaderInv, CreatesPresent
  <2> QED BY <1>1, <1>10, <2>2 DEF TraceInv
<1> QED
  BY <1>2, <1>3, <1>4, <1>5, <1>6, <1>7, <1>8, <1>9, <1>10 DEF TraceNext

\* The invariant holds throughout every loading of every file.
THEOREM TraceInvariance == TraceSpec => []TraceInv
BY TraceInitInv, TraceNextInv, PTL DEF TraceSpec

\* What was proved of topological_order holds of every call that
\* load_topology_trace makes of it, whatever it has loaded before.
THEOREM GraphsOfTraces ==
  TraceSpec => [](TypeOK /\ OrderIsSound /\ CycleVerdict /\ DefectVerdict /\ OrderIsLeast)
<1>1. TraceInv => TypeOK
  BY DEF TraceInv, GInv
<1>2. TraceInv => OrderIsSound /\ CycleVerdict /\ DefectVerdict /\ OrderIsLeast
  BY SoundByGInv, CycleByGInv, DefectByGInv, LeastByChoice DEF TraceInv
<1> QED BY <1>1, <1>2, TraceInvariance, PTL

\* load_topology_trace loads a file exactly if all its lines are valid and
\* have ids of their own, and then all of them, in their order.
THEOREM TraceVerdictIsRight == TraceSpec => []TraceVerdict
<1>1. ASSUME TraceInv, loading = "loaded"
      PROVE  /\ WellFormed
             /\ Len(requests) = Cardinality(Given)
             /\ \A j \in Given : requests[Cardinality(Given \cap 1..j)] = Request(file[j])
  <2>1. line = Len(file) + 1 /\ requests # <<>> /\ PassedLoaded
    BY <1>1 DEF TraceInv, LoaderInv
  <2>2. Passed = Given
    <3>1. line - 1 = Len(file)
      BY <1>1, <2>1, LineType DEF TraceInv
    <3> QED BY <3>1 DEF Passed, Given
  <2>3. Given # {}
    <3>1. requests \in Seq({Request(file[j]) : j \in Passed})
      BY <2>1 DEF PassedLoaded
    <3>2. Len(requests) # 0
      BY <2>1, <3>1, EmptySeq
    <3> QED BY <2>1, <2>2, <3>2, FS_EmptySet DEF PassedLoaded
  <2> QED BY <2>1, <2>2, <2>3 DEF PassedLoaded, WellFormed, Valid
<1>2. TraceInv => TraceVerdict
  BY <1>1 DEF TraceVerdict, TraceInv, LoaderInv
<1> QED BY <1>2, TraceInvariance, PTL
=============================================================================
