-------------------------- MODULE MCTopologyTrace --------------------------
(***************************************************************************)
(* One-line files with every list of up to three edges, defective ones     *)
(* included, over three roles of which the lists below leave some inactive *)
(* or name one twice, and every graph over four roles without defective    *)
(* edges; and every file of up to three of the lines below, which have     *)
(* every kind of defect, share ids and share graphs.                       *)
(***************************************************************************)
EXTENDS TopologyTrace

MCRoleLists == {<<>>, <<1, 2>>, <<3, 1, 2>>, <<2, 1, 2>>, <<4, 2, 3, 1>>}

Listed(S) == FoldSet(LAMBDA e, l : Append(l, e), <<>>, S)

Arrows == {e \in (1..4) \X (1..4) : e[1] # e[2]}

MCEdgeLists ==
    BoundedSeq((1..3) \X (1..3), 3) \cup {Listed(S) : S \in SUBSET Arrows}

Object(id, roles_, edges_) ==
    [kind |-> "object", request_id |-> id, active_roles |-> roles_, edges |-> edges_]

MCLines ==
    {[kind |-> "blank"], [kind |-> "not JSON"], [kind |-> "not an object"],
     Object(Invalid, <<1, 2>>, <<>>), Object("p", Invalid, <<>>),
     Object("p", <<1, Invalid>>, <<>>), Object("p", <<1, 2>>, Invalid),
     Object("p", <<1, 2>>, <<<<1, 2>>, Invalid>>),
     Object("p", <<1, 2>>, <<<<1, 2>>>>), Object("q", <<1, 2>>, <<<<1, 2>>>>),
     Object("q", <<>>, <<>>), Object("p", <<1, 2>>, <<<<1, 2>>, <<2, 1>>>>)}

MCFiles ==
    BoundedSeq(MCLines, 3)
        \cup {<<Object("p", l, e)>> : l \in MCRoleLists, e \in MCEdgeLists}
============================================================================
