----------------------------- MODULE Benchmark -----------------------------
(***************************************************************************)
(* run_gpu_benchmark.py over DynamicKVRuntime (orchestrator.py): processes *)
(* that replay topology traces, each with one LayoutStateManager for every *)
(* logical serving instance and with the restored states it keeps on the   *)
(* GPU, all in front of one graphkv-server.                                *)
(*                                                                         *)
(* A process is single-threaded; what interleaves is the store calls of    *)
(* the processes and what befalls the server.  The model, the tokenizer    *)
(* and the clock are left out: compute() yields the state of the           *)
(* invocation it ran for, or raises.                                       *)
(***************************************************************************)
EXTENDS LayoutStateManager, AgentGraph

CONSTANTS
    Processes,
    InstanceCount,  \* len(runtime.instances)
    RoleSum,        \* RoleSum[role]: the sum of the bytes of its name
    Arguments,      \* the command lines
    Launches,       \* which process may have which: functions to Arguments' indices
    MaxRestarts     \* bound on the restarts of the server

Instances == 0 .. InstanceCount - 1

(***************************************************************************)
(* DynamicKVRuntime.plan, for all repetitions and requests in the order of *)
(* the benchmark's loops.                                                  *)
(***************************************************************************)
\* The prompt is a text of role and predecessors, repeated and cut to
\* prompt_tokens.  Only states of equal layout are ever compared by it.
InputIds(s, layout) == <<layout.consumer_role, layout.predecessor_roles, s.prompt_tokens>>

\* Faulty variant: a repetition repeats the placement too.
PlaceByPosition(s, role, position, repetition) ==
    (RoleSum[role] + (IF s.placement = "round_robin" THEN position ELSE 0)) % InstanceCount

\* Faulty variant: stable placement moves as well.
PlaceAlwaysMoves(s, role, position, repetition) ==
    (RoleSum[role] + position + repetition) % InstanceCount

Place(s, role, position, repetition) ==
    LET base == RoleSum[role] % InstanceCount
    IN  IF s.placement = "round_robin"
        THEN (base + position + repetition) % InstanceCount
        ELSE base

\* Requests are counted from 0, as request_position does.
plan(s, position, repetition) ==
    LET asked == s.trace[position + 1]
        layouts == layouts_for_graph(asked.graph, s.model)
        roles == topological_order(asked.graph)
        Invocation(role) ==
            [id |-> asked.request_id, role |-> role,
             graph |-> graph_identity(asked.graph), layout |-> layouts[role],
             input_ids |-> InputIds(s, layouts[role])]
    IN  [j \in 1..Len(roles) |->
            [invocation |-> Invocation(roles[j]),
             instance |-> Place(s, roles[j], position, repetition)]]

Schedule(s) ==
    LET n == Len(s.trace) IN
    FlattenSeq([j \in 1 .. s.repetitions * n |-> plan(s, (j - 1) % n, (j - 1) \div n)])

Schedules == [n \in 1..Len(Arguments) |-> Schedule(Arguments[n])]

Invocations == {turn.invocation : turn \in UNION {Range(schedule) : schedule \in Range(Schedules)}}

ASSUME BenchmarkAssumption ==
    /\ Managers = Processes \X Instances
    /\ Requests = Invocations
    /\ InstanceCount \in Nat \ {0}
    /\ Launches \subseteq [Processes -> 1..Len(Arguments)]
    /\ \A n \in 1..Len(Arguments) :
        /\ Arguments[n].policy \in Policies
        /\ Arguments[n].placement \in {"stable", "round_robin"}
        /\ MaxAcquires >= Len(Schedules[n])

\* What argparse and the trace loader have ensured: the graphs are dags.
\* argparse takes any whole number of repetitions.
ASSUME TraceAssumption ==
    /\ Arguments \in Seq(Range(Arguments))
    /\ \A n \in 1..Len(Arguments) :
        LET s == Arguments[n] IN
        /\ s.trace \in Seq(Range(s.trace))
        /\ s.repetitions \in Int
        /\ \A asked \in Range(s.trace) :
            /\ IsDag(asked.graph)
            /\ asked.graph.active_roles \in Seq(Nat)
            /\ \A role \in Roles(asked.graph) : RoleSum[role] \in Nat

VARIABLES
    launched,   \* launched[p]: p's arguments, an index
    phase,      \* "next", "acquiring", or how main() ended
    gpu_states, \* gpu_states[m]: key -> the state m's process keeps for it
    samples,    \* samples[p]: the rows p has recorded
    restarts,   \* restarts of the server so far
    lost        \* history: the store has lost a record it had accepted

benchVars == <<launched, phase, gpu_states, samples>>
allVars == <<vars, benchVars, restarts, lost>>

args(p) == Arguments[launched[p]]

Failures == {"exited", "acquire raised", "KeyError", "wrong layout", "wrong tokens", "no samples"}

Ended(p) == phase[p] \in Failures \cup {"summarized"}

\* What main() does before the loop touches nothing that is shared.
BenchInit ==
    /\ launched \in Launches
    /\ Init
    /\ config = [m \in Managers |->
                    [policy |-> args(m[1]).policy, remote_store |-> TRUE,
                     fetch_admission |-> FALSE]]
    /\ phase = [p \in Processes |-> IF args(p).prompt_tokens <= 0 THEN "exited" ELSE "next"]
    /\ gpu_states = [m \in Managers |-> [k \in StateKeys |-> None]]
    /\ samples = [p \in Processes |-> <<>>]
    /\ restarts = 0
    /\ lost = FALSE

Become(p, place) == phase' = [phase EXCEPT ![p] = place]

---------------------------------------------------------------------------
(***************************************************************************)
(* One turn of the loop: DynamicKVRuntime.acquire, then the rest.          *)
(***************************************************************************)
\* The plan for the next sample; when there is one.
HasTurn(p) == Len(samples[p]) < Len(Schedules[launched[p]])
Turn(p) == Schedules[launched[p]][Len(samples[p]) + 1]
Manager(p) == <<p, Turn(p).instance>>

StartAcquire(p) ==
    LET q == Turn(p).invocation IN
    /\ phase[p] = "next" /\ HasTurn(p)
    /\ \/ AcquireReset(Manager(p), q)
       \/ AcquireLocalHit(Manager(p), q)
       \/ AcquireMiss(Manager(p), q)
    /\ Become(p, "acquiring")
    /\ UNCHANGED <<launched, gpu_states, samples>>

GoOn(p) ==
    /\ phase[p] = "acquiring"
    /\ Proceed(Manager(p))
    /\ UNCHANGED benchVars

Acquired(p) == phase[p] = "acquiring" /\ pc[Manager(p)] = "idle"

\* The exception of acquire ends main().
AcquireRaised(p) ==
    /\ Acquired(p) /\ result[Manager(p)].kind = "raised"
    /\ Become(p, "acquire raised")
    /\ UNCHANGED <<vars, launched, gpu_states, samples>>

\* Faulty variant: a restored state is used but not kept.
KeptIfComputed(m, access) ==
    IF access.decision = "recompute"
    THEN [gpu_states EXCEPT ![m][access.key] = access.payload]
    ELSE gpu_states

\* gpu_states once the state has been computed or decoded.  Both yield the
\* payload of the access: encode and decode are each other's inverse.
Kept(m, access) ==
    IF access.decision = "local_hit" THEN gpu_states
    ELSE [gpu_states EXCEPT ![m][access.key] = access.payload]

\* Faulty variant: a restored state is recorded like one that was there.
SampleHitsAlike(q, instance, access) ==
    [request_id |-> q.id, graph |-> q.graph, role |-> q.role, layout |-> q.layout,
     instance |-> instance,
     decision |-> IF access.decision = "recompute" THEN "recompute" ELSE "local_hit"]

Sample(q, instance, access) ==
    [request_id |-> q.id, graph |-> q.graph, role |-> q.role, layout |-> q.layout,
     instance |-> instance, decision |-> access.decision]

\* The state is taken from the GPU or restored, checked, and recorded.
Deliver(p) ==
    LET m == Manager(p)
        q == Turn(p).invocation
        access == result[m]
        active_state == Kept(m, access)[m][access.key]
        Stop(failure) == Become(p, failure) /\ UNCHANGED samples
    IN  /\ Acquired(p) /\ access.kind = "returned"
        /\ gpu_states' = Kept(m, access)
        /\ \/ active_state = None /\ Stop("KeyError")
           \/ /\ active_state # None /\ active_state.layout # q.layout
              /\ Stop("wrong layout")
           \/ /\ active_state # None /\ active_state.layout = q.layout
              /\ active_state.input_ids # q.input_ids
              /\ Stop("wrong tokens")
           \/ /\ active_state # None /\ active_state.layout = q.layout
              /\ active_state.input_ids = q.input_ids
              /\ Become(p, "next")
              /\ samples' = [samples EXCEPT ![p] = Append(@, Sample(q, m[2], access))]
        /\ UNCHANGED <<vars, launched>>

\* statistics.median raises on an empty list.
Summarize(p) ==
    /\ phase[p] = "next" /\ ~HasTurn(p)
    /\ Become(p, IF samples[p] = <<>> THEN "no samples" ELSE "summarized")
    /\ UNCHANGED <<vars, launched, gpu_states, samples>>

---------------------------------------------------------------------------
Step(p) ==
    \/ StartAcquire(p) \/ GoOn(p) \/ AcquireRaised(p) \/ Deliver(p) \/ Summarize(p)

\* What befalls the server.  (No part of the benchmark deletes records.)
Surroundings ==
    /\ \/ restarts < MaxRestarts /\ StoreRestart /\ restarts' = restarts + 1
       \/ (\E put \in late : LatePut(put)) /\ UNCHANGED restarts
       \/ (\E get \in late_gets : LateGet(get)) /\ UNCHANGED restarts
    /\ UNCHANGED benchVars

NoteLosses ==
    lost' = (lost \/ \E k \in StateKeys : records[k] # None /\ records'[k] = None)

Run(p) == Step(p) /\ NoteLosses /\ UNCHANGED restarts

BenchNext ==
    \/ \E p \in Processes : Run(p)
    \/ Surroundings /\ NoteLosses
    \/ (\A p \in Processes : Ended(p)) /\ UNCHANGED allVars

\* A process that has not ended runs on: the model returns or raises, and a
\* store call answers or times out after timeout_s.
BenchSpec ==
    /\ BenchInit
    /\ [][BenchNext]_allVars
    /\ \A p \in Processes : WF_allVars(Run(p))

---------------------------------------------------------------------------
(***************************************************************************)
(* Properties.                                                             *)
(***************************************************************************)
\* Types; a process's managers are idle except for the one its turn names
\* while it acquires.
BenchTypeOK ==
    /\ TypeOK
    /\ phase \in [Processes -> {"next", "acquiring", "summarized"} \cup Failures]
    /\ gpu_states \in [Managers -> [StateKeys -> Requests \cup {None}]]
    /\ \A m \in Managers : pc[m] # "idle" => phase[m[1]] = "acquiring" /\ m = Manager(m[1])

\* Two caches that no code keeps together: the manager's bounded _local,
\* which decides that a state is a local hit, and gpu_states, which has to
\* have it.  Whatever a manager holds, the GPU holds the same state of it:
\* a local hit never raises KeyError and never uses another state.
LocalHitIsOnGpu ==
    \A p \in Processes, i \in Instances, k \in StateKeys :
        phase[p] # "acquiring" /\ local[<<p, i>>][k] # None
            => gpu_states[<<p, i>>][k] = local[<<p, i>>][k].payload

\* Another benchmark of p's policy runs with another value of an argument.
RunsWithOther(p, field) ==
    \E o \in Processes : args(o).policy = args(p).policy /\ args(o)[field] # args(p)[field]

\* The checks of loaded states stop a benchmark only because of another one
\* with other arguments on the same server: "wrong layout" needs whole_graph
\* keys, which name no model, and another model; "different prompt tokens"
\* needs another --prompt-tokens, which no key names.  Within one setting
\* the keys suffice, whatever the order of edges in the trace.
ChecksFireOnlyAcrossSettings ==
    \A p \in Processes :
        /\ phase[p] # "KeyError"
        /\ phase[p] = "wrong layout" =>
                args(p).policy = "whole_graph" /\ RunsWithOther(p, "model")
        /\ phase[p] = "wrong tokens" => RunsWithOther(p, "prompt_tokens")

\* "An agent's state is reusable when its local prompt layout is unchanged:
\* model/template version, consumer role, ...": no state that a benchmark is
\* handed, and that its loop then checks, is of another layout than its own.
NoWrongLayout == \A p \in Processes : phase[p] # "wrong layout"

\* What a policy promises to reuse.
Unit(policy, s) == IF policy = "whole_graph" THEN <<s.graph, s.role>> ELSE s.layout

\* While the store has lost nothing, a benchmark prefills no layout (or no
\* agent of a graph) twice, on whichever of its instances it recurs and
\* whatever other benchmarks publish and overwrite.
PrefillsAreSaved ==
    \A p \in Processes :
        ~lost /\ args(p).policy # "reset" =>
            \A j, k \in 1..Len(samples[p]) :
                /\ samples[p][j].decision = "recompute"
                /\ samples[p][k].decision = "recompute"
                /\ Unit(args(p).policy, samples[p][j]) = Unit(args(p).policy, samples[p][k])
                => j = k

\* The local cache of p's instance i has room for all that the trace places
\* on it.
Fits(p, i) ==
    LET placed == {turn \in Range(Schedules[launched[p]]) : turn.instance = i}
    IN  Cardinality({Unit(args(p).policy, turn.invocation) : turn \in placed}) <= MaxLocal

\* With stable placement and room, the store is needed once for each layout:
\* every recurrence is a local hit, also after the server has lost
\* everything.
StableStaysLocal ==
    \A p \in Processes :
        args(p).policy # "reset" /\ args(p).placement = "stable" =>
            \A j, k \in 1..Len(samples[p]) :
                /\ j < k
                /\ Unit(args(p).policy, samples[p][j]) = Unit(args(p).policy, samples[p][k])
                /\ Fits(p, samples[p][k].instance)
                => samples[p][k].decision = "local_hit"

\* "round_robin forces recurring layouts to cross instance boundaries": a
\* layout repeated as often as there are instances visits all of them.
RoundRobinCrosses ==
    \A p \in Processes :
        LET s == args(p) IN
        /\ phase[p] = "summarized" /\ s.placement = "round_robin"
        /\ s.repetitions >= InstanceCount
        => \A j \in 1..Len(samples[p]) :
             \A i \in Instances : \E k \in 1..Len(samples[p]) :
                samples[p][k].layout = samples[p][j].layout /\ samples[p][k].instance = i

\* The manager_stats of a summary count the decisions of its samples.
SummaryIsConsistent ==
    \A p \in Processes, i \in Instances :
        phase[p] = "summarized" =>
            LET Of(decision) == Cardinality({j \in 1..Len(samples[p]) :
                                samples[p][j].instance = i /\ samples[p][j].decision = decision})
                counted == stats[<<p, i>>]
            IN  <<Of("local_hit"), Of("remote_hit"), Of("recompute")>>
                    = <<counted.local_hits, counted.remote_hits, counted.recomputes>>

\* Every benchmark ends, with a summary or an error, whatever the others and
\* the server do.
EveryBenchmarkEnds == \A p \in Processes : <>Ended(p)
============================================================================
