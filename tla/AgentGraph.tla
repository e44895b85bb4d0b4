---------------------------- MODULE AgentGraph ----------------------------
(***************************************************************************)
(* What the runtime derives from one request's graph: its identity         *)
(* (graph_identity), the order of its agents, and the layout of each       *)
(* agent's prompt (identity.py).                                           *)
(*                                                                         *)
(* A graph is a record of two sequences, active_roles and edges, as        *)
(* GraphSpec.create has validated it.  Roles are numbers, ordered as the   *)
(* code orders their names.  SHA-256 over canonical JSON is taken as       *)
(* injective, so a digest is the value that is hashed; the sorted list of  *)
(* things that occur once is their set.                                    *)
(***************************************************************************)
EXTENDS Integers, FiniteSets, SequencesExt

Roles(g) == Range(g.active_roles)

graph_identity(g) == [active_roles |-> Roles(g), edges |-> Range(g.edges)]

(***************************************************************************)
(* topological_order by what it returns; GraphSpec has how.                *)
(***************************************************************************)
Respects(g, s) ==
    \A j, k \in 1..Len(s) : <<s[j], s[k]>> \in Range(g.edges) => j < k

\* What GraphSpec.create accepts.
IsDag(g) ==
    /\ IsInjective(g.active_roles) /\ IsInjective(g.edges)
    /\ Range(g.edges) \subseteq Roles(g) \X Roles(g)
    /\ \E s \in SetToSeqs(Roles(g)) : Respects(g, s)

Precedes(s, t) == \E k \in 1..Len(s) :
    /\ s[k] < t[k]
    /\ \A j \in 1 .. k - 1 : s[j] = t[j]

IsLeastOrder(g, s) ==
    /\ Respects(g, s)
    /\ ~ \E t \in SetToSeqs(Roles(g)) : Respects(g, t) /\ Precedes(t, s)

topological_order(g) == CHOOSE s \in SetToSeqs(Roles(g)) : IsLeastOrder(g, s)

(***************************************************************************)
(* Layouts.                                                                *)
(***************************************************************************)
\* Faulty variant: the sources in the order in which the edges are listed.
PredecessorsAsListed(g, role) ==
    LET into == SelectSeq(g.edges, LAMBDA e : e[2] = role)
    IN  [j \in 1..Len(into) |-> into[j][1]]

sorted(S) == SetToSortSeq(S, <)

predecessors(g, role) == sorted({s \in Roles(g) : <<s, role>> \in Range(g.edges)})

\* One placeholder for the message of each predecessor, then the question.
placeholder_schema(sources) ==
    [j \in 1..Len(sources) |-> <<"message", sources[j]>>] \o <<<<"question">>>>

\* A LayoutSpec, which is its own identity.  No caller passes template
\* versions or a token structure version.
LayoutSpec(model, role, sources) ==
    [model |-> model, template_version |-> "v1", consumer_role |-> role,
     predecessor_roles |-> sources, placeholder_schema |-> placeholder_schema(sources)]

layouts_for_graph(g, model) ==
    [role \in Roles(g) |-> LayoutSpec(model, role, predecessors(g, role))]
===========================================================================
