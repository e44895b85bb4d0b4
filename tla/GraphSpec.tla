----------------------------- MODULE GraphSpec -----------------------------
(***************************************************************************)
(* GraphSpec.topological_order of topology/model.py, which validates a     *)
(* request's graph eagerly (GraphSpec.create) and orders its agents: the   *)
(* checks on the roles, one step per edge of the edge loop, one step per   *)
(* role of Kahn's loop.                                                    *)
(*                                                                         *)
(* Roles are numbers, ordered as the code orders their names.  The list    *)
(* ready is sorted after every insertion and only its least element is     *)
(* taken, so it is modelled by the set of its elements; successors is read *)
(* off the edges.                                                          *)
(***************************************************************************)
EXTENDS AgentGraph

CONSTANTS
    RoleLists,  \* the active_roles arguments
    EdgeLists   \* the edges arguments: sequences of <<source, target>>

ASSUME GraphAssumption ==
    /\ \A l \in RoleLists : l \in Seq(Nat)
    /\ \A e \in EdgeLists : e \in Seq(Nat \X Nat)

VARIABLES
    active_roles, edges,    \* the graph
    pc,         \* where the function is, or how it ended
    i,          \* the next edge of the edge loop
    indegree,   \* indegree[r]: edges into r not accounted for yet
    ready,      \* roles with no unvisited predecessor
    order       \* the roles visited, in order

graph == <<active_roles, edges>>
vars == <<active_roles, edges, pc, i, indegree, ready, order>>

roles == Range(active_roles)

\* How a ValueError names its cause.
Rejections == {"duplicate role", "inactive role", "self edge", "duplicate edge", "cycle"}

Init ==
    /\ active_roles \in RoleLists
    /\ edges \in EdgeLists
    /\ pc = "roles"
    /\ i = 1
    /\ indegree = [r \in roles |-> 0]
    /\ ready = {}
    /\ order = <<>>

Reject(reason) == pc' = reason /\ UNCHANGED <<graph, i, indegree, ready, order>>

RolesNotUnique ==
    /\ pc = "roles"
    /\ Cardinality(roles) # Len(active_roles)
    /\ Reject("duplicate role")

RolesUnique ==
    /\ pc = "roles"
    /\ Cardinality(roles) = Len(active_roles)
    /\ pc' = "edges"
    /\ UNCHANGED <<graph, i, indegree, ready, order>>

Source(e) == e[1]
Target(e) == e[2]

AtEdge == pc = "edges" /\ i <= Len(edges)
Inactive == Source(edges[i]) \notin roles \/ Target(edges[i]) \notin roles
SelfEdge == Source(edges[i]) = Target(edges[i])
Seen == \E j \in 1 .. i - 1 : edges[j] = edges[i]

EdgeInactive == AtEdge /\ Inactive /\ Reject("inactive role")
EdgeSelf == AtEdge /\ ~Inactive /\ SelfEdge /\ Reject("self edge")

\* Faulty variant: a duplicate is skipped without moving on.
EdgeDuplicateSkipped == AtEdge /\ ~Inactive /\ ~SelfEdge /\ Seen /\ UNCHANGED vars

EdgeDuplicate == AtEdge /\ ~Inactive /\ ~SelfEdge /\ Seen /\ Reject("duplicate edge")

\* Faulty variant: an edge may close a loop on its own role.
EdgeAcceptedWithSelf ==
    /\ AtEdge /\ ~Inactive /\ ~Seen
    /\ indegree' = [indegree EXCEPT ![Target(edges[i])] = @ + 1]
    /\ i' = i + 1
    /\ UNCHANGED <<graph, pc, ready, order>>

\* Faulty variant: the edge is recorded but not counted.
EdgeNotCounted ==
    /\ AtEdge /\ ~Inactive /\ ~SelfEdge /\ ~Seen
    /\ i' = i + 1
    /\ UNCHANGED <<graph, pc, indegree, ready, order>>

EdgeAccepted ==
    /\ AtEdge /\ ~Inactive /\ ~SelfEdge /\ ~Seen
    /\ indegree' = [indegree EXCEPT ![Target(edges[i])] = @ + 1]
    /\ i' = i + 1
    /\ UNCHANGED <<graph, pc, ready, order>>

StartVisiting ==
    /\ pc = "edges"
    /\ i > Len(edges)
    /\ ready' = {r \in roles : indegree[r] = 0}
    /\ pc' = "visit"
    /\ UNCHANGED <<graph, i, indegree, order>>

\* How often target occurs in successors[role].
Arcs(role, target) == Cardinality({j \in 1..Len(edges) : edges[j] = <<role, target>>})

\* Faulty variant: a list that is not kept sorted.
VisitAny ==
    \E role \in ready :
    LET left == [r \in roles |-> indegree[r] - Arcs(role, r)]
        freed == {r \in roles : Arcs(role, r) > 0 /\ left[r] = 0}
    IN  /\ pc = "visit"
        /\ order' = Append(order, role)
        /\ indegree' = left
        /\ ready' = (ready \ {role}) \cup freed
        /\ UNCHANGED <<graph, pc, i>>

\* Faulty variant: a role is ready when one predecessor is left.
VisitEager ==
    LET role == Min(ready)
        left == [r \in roles |-> indegree[r] - Arcs(role, r)]
        freed == {r \in roles : Arcs(role, r) > 0 /\ left[r] = 1}
    IN  /\ pc = "visit"
        /\ ready # {}
        /\ order' = Append(order, role)
        /\ indegree' = left
        /\ ready' = (ready \ {role}) \cup freed
        /\ UNCHANGED <<graph, pc, i>>

\* Take the least ready role; its successors lose a predecessor each, and
\* those that have none left become ready.
Visit ==
    LET role == Min(ready)
        left == [r \in roles |-> indegree[r] - Arcs(role, r)]
        freed == {r \in roles : Arcs(role, r) > 0 /\ left[r] = 0}
    IN  /\ pc = "visit"
        /\ ready # {}
        /\ order' = Append(order, role)
        /\ indegree' = left
        /\ ready' = (ready \ {role}) \cup freed
        /\ UNCHANGED <<graph, pc, i>>

Cyclic ==
    /\ pc = "visit"
    /\ ready = {}
    /\ Len(order) # Cardinality(roles)
    /\ Reject("cycle")

\* Faulty variant: the final length check is missing.
ReturnUnchecked ==
    /\ pc = "visit"
    /\ ready = {}
    /\ pc' = "returned"
    /\ UNCHANGED <<graph, i, indegree, ready, order>>

Return ==
    /\ pc = "visit"
    /\ ready = {}
    /\ Len(order) = Cardinality(roles)
    /\ pc' = "returned"
    /\ UNCHANGED <<graph, i, indegree, ready, order>>

Ended == pc \in Rejections \cup {"returned"}

Next ==
    \/ RolesNotUnique \/ RolesUnique
    \/ EdgeInactive \/ EdgeSelf \/ EdgeDuplicate \/ EdgeAccepted
    \/ StartVisiting \/ Visit \/ Cyclic \/ Return

Spec == Init /\ [][Next]_vars

---------------------------------------------------------------------------
(***************************************************************************)
(* Properties.                                                             *)
(***************************************************************************)
EdgeSet == Range(edges)
Predecessors(r) == {s \in roles : <<s, r>> \in EdgeSet}

\* Types.
TypeOK ==
    /\ active_roles \in Seq(Nat)
    /\ edges \in Seq(Nat \X Nat)
    /\ pc \in {"roles", "edges", "visit", "returned"} \cup Rejections
    /\ i \in 1 .. Len(edges) + 1
    /\ indegree \in [roles -> Nat]
    /\ ready \subseteq roles
    /\ order \in Seq(roles)

\* A returned order contains every active role once, and every role comes
\* after all of its predecessors: no agent runs before its inputs exist.
OrderIsSound ==
    pc = "returned" =>
        /\ IsInjective(order)
        /\ Range(order) = roles
        /\ \A e \in EdgeSet : \E j, k \in 1..Len(order) :
                j < k /\ order[j] = Source(e) /\ order[k] = Target(e)

\* A set of roles each of which waits for another one of the set.
Knot(C) == C # {} /\ \A r \in C : Predecessors(r) \cap C # {}

\* "agent graph must be acyclic" is raised exactly for the graphs, valid
\* otherwise, in which some agents wait for each other.
CycleVerdict ==
    /\ pc = "cycle" => \E C \in SUBSET roles : Knot(C)
    /\ pc = "returned" => ~ \E C \in SUBSET roles : Knot(C)

Defective ==
    \/ ~IsInjective(active_roles)
    \/ ~IsInjective(edges)
    \/ \E e \in EdgeSet : e \notin roles \X roles \/ Source(e) = Target(e)

\* A graph is turned down for a defect of its roles or edges exactly if it
\* has one, wherever it stands in the lists.
DefectVerdict ==
    /\ pc \in Rejections \ {"cycle"} => Defective
    /\ pc \in {"returned", "cycle"} => ~Defective

\* The order is the least of all orders that respect the edges, so it is a
\* function of the graph: neither the order in which a topology generator
\* lists roles nor that in which it lists edges shows, and two graphs with
\* one graph_identity have one plan.
OrderIsLeast ==
    pc = "returned"
        => IsLeastOrder([active_roles |-> active_roles, edges |-> edges], order)
=============================================================================
