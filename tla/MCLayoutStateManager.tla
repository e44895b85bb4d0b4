----------------------- MODULE MCLayoutStateManager -----------------------
(***************************************************************************)
(* Two managers, each with room for one local entry, before a store of one *)
(* byte.  The invocations differ in what the policies tell apart: q1 and   *)
(* q2 share a layout in different graphs, q1 and q3 share a graph and a    *)
(* role but not the layout (another model), and the state of q3 is larger  *)
(* than the store.                                                         *)
(***************************************************************************)
EXTENDS LayoutStateManager

q1 == [id |-> 1, graph |-> "g1", role |-> "C", layout |-> "l1"]
q2 == [id |-> 2, graph |-> "g2", role |-> "C", layout |-> "l1"]
q3 == [id |-> 3, graph |-> "g1", role |-> "C", layout |-> "l2"]

MCRequests == {q1, q2, q3}
MCSize == (q1 :> 1) @@ (q2 :> 1) @@ (q3 :> 2)

Config(policy, shared, admission) ==
    [policy |-> policy, remote_store |-> shared, fetch_admission |-> admission]

MCConfigs ==
    {Config("local_layout", TRUE, TRUE), Config("whole_graph", TRUE, FALSE),
     Config("reset", TRUE, FALSE), Config("local_layout", FALSE, FALSE)}

\* The code treats managers alike.
MCSymmetry == Permutations(Managers)
===========================================================================
