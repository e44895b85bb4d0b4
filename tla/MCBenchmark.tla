---------------------------- MODULE MCBenchmark ----------------------------
(***************************************************************************)
(* Two processes of two instances each.  Either one of them replays a      *)
(* longer trace alone, under every policy and placement, with fewer local  *)
(* entries than a benchmark uses or just enough, or both share the server, *)
(* with equal or with different arguments.  The roles are A, B, C of the   *)
(* example trace.                                                          *)
(***************************************************************************)
EXTENDS Benchmark

A == 1
B == 2
C == 3
MCRoleSum == <<65, 66, 67>>

Asked(id, roles_, edges_) ==
    [request_id |-> id, graph |-> [active_roles |-> roles_, edges |-> edges_]]

\* The same graph in two ways, and one in which C has another layout.
Long ==
    <<Asked("0", <<A, B, C>>, <<<<A, C>>, <<B, C>>>>),
      Asked("1", <<C, B, A>>, <<<<B, C>>, <<A, C>>>>),
      Asked("2", <<B, C>>, <<<<B, C>>>>)>>

Args(policy, placement, model, tokens, repetitions, trace) ==
    [policy |-> policy, placement |-> placement, model |-> model, prompt_tokens |-> tokens,
     repetitions |-> repetitions, trace |-> trace]

Idle == Args("reset", "stable", "m", 0, 0, Long)
Empty == Args("local_layout", "stable", "m", 1, 1, <<Asked("0", <<>>, <<>>)>>)
Alone ==
    {Args(policy, placement, "m", 1, 2, Long) :
        policy \in Policies, placement \in {"stable", "round_robin"}}
    \cup {Args("local_layout", "stable", "m", 1, 2, <<Long[3]>>)}

Brief(policy, model, tokens, repetitions) ==
    Args(policy, "round_robin", model, tokens, repetitions, <<Long[3]>>)

\* Equal arguments, other models, other prompts, other policies.
Together ==
    {<<Brief("local_layout", "m", 1, 2), Brief("local_layout", "m", 1, 1)>>,
     <<Brief("local_layout", "m", 1, 1), Brief("local_layout", "n", 1, 1)>>,
     <<Brief("local_layout", "m", 1, 1), Brief("local_layout", "m", 2, 1)>>,
     <<Brief("whole_graph", "m", 1, 1), Brief("whole_graph", "n", 1, 1)>>,
     <<Brief("whole_graph", "m", 1, 1), Brief("local_layout", "m", 1, 1)>>}

Pairs == Together \cup {<<s, Idle>> : s \in Alone \cup {Empty}}

\* The command lines in some order, and the number of one.
Listed(S) == FoldSet(LAMBDA v, list : Append(list, v), <<>>, S)
MCArguments == Listed({Idle, Empty} \cup Alone \cup UNION {Range(pair) : pair \in Together})
Number(s) == CHOOSE j \in 1..Len(MCArguments) : MCArguments[j] = s
MCLaunches == {[p1 |-> Number(pair[1]), p2 |-> Number(pair[2])] : pair \in Pairs}

MCManagers == Processes \X Instances
MCSize == [q \in Invocations |-> 1]
MCConfigs == [policy : Policies, remote_store : {TRUE}, fetch_admission : {FALSE}]
============================================================================
