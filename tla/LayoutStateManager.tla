------------------------ MODULE LayoutStateManager ------------------------
(***************************************************************************)
(* LayoutStateManager of manager.py: the managers of several serving       *)
(* instances, each with a bounded local cache, in front of one shared      *)
(* StateStore.  A manager runs one acquire at a time; managers of separate *)
(* processes interleave between their store calls, and a store reached     *)
(* over TCP may fail a call before or after it took effect, carry out a    *)
(* call after its caller has given up, lose its records in a restart, or   *)
(* have them deleted by another client.                                    *)
(*                                                                         *)
(* A KV state is named by the request whose compute() produced it, which   *)
(* is all that deciding whether a reuse was right needs.  Content digests  *)
(* (identity.py, graph_identity) are taken as injective: a layout or graph *)
(* stands for its own digest.                                              *)
(***************************************************************************)
EXTENDS Integers, FiniteSets, SequencesExt

CONSTANTS
    Managers,
    Requests,       \* agent invocations: records of id, graph, role and layout
    Size,           \* Size[q]: bytes of the state computed for q
    MaxBytes,       \* the store's max_bytes
    MaxLocal,       \* max_local_entries
    Configs,        \* constructor arguments a manager may have
    MaxAcquires,    \* bound on the acquires of each manager
    EmptyKey, None

Policies == {"reset", "whole_graph", "local_layout"}

ASSUME ManagerAssumption ==
    /\ IsFiniteSet(Requests)
    /\ \A q \in Requests : {"id", "graph", "role", "layout"} \subseteq DOMAIN q
    /\ Size \in [Requests -> Nat]
    /\ MaxBytes \in Nat \ {0}
    /\ MaxLocal \in Nat \ {0}
    /\ Configs \subseteq [policy : Policies, remote_store : BOOLEAN, fetch_admission : BOOLEAN]
    /\ MaxAcquires \in Nat
    /\ None \notin Managers

\* A StateRecord without the key it is stored under, as in the store.
Records == [version : Nat \ {0}, payload : Requests]

ASSUME NoneIsNoState == None \notin Requests /\ None \notin Records

VARIABLES
    records, order, evictions,  \* the shared store, as StateStore has it
    late,           \* puts whose caller has given up and that may still be carried out
    late_gets,      \* gets, likewise
    reply,          \* reply[m]: the store's answer to m's latest call
    config,         \* config[m]: policy, has a store, has an admission rule
    local,          \* local[m]: _local, key -> record
    local_order,    \* local_order[m]: _local_order
    stats,          \* stats[m]: ManagerStats
    pc, request, rejected, payload, \* m's acquire under way
    result,         \* result[m]: the AccessResult of m's latest acquire, if any
    acquires,       \* acquires[m]: acquires m has started
    raised          \* raised[m]: acquires of m that raised

lateVars == <<late, late_gets>>
storeVars == <<records, order, evictions, lateVars>>
cacheVars == <<local, local_order>>
frameVars == <<pc, request, rejected, payload>>
vars == <<storeVars, reply, config, cacheVars, stats, frameVars, result, acquires, raised>>

---------------------------------------------------------------------------

\* Faulty variant: the key of a layout that leaves its model out.
KeyByRole(policy, q) ==
    CASE policy = "reset" -> <<"request", q.id, q.role>>
      [] policy = "whole_graph" -> <<"graph", q.graph, q.role>>
      [] OTHER -> <<"layout", q.role>>

state_key(policy, q) ==
    CASE policy = "reset" -> <<"request", q.id, q.role>>
      [] policy = "whole_graph" -> <<"graph", q.graph, q.role>>
      [] OTHER -> <<"layout", q.layout>>

StateKeys == {state_key(p, q) : p \in Policies, q \in Requests}

Store == INSTANCE StateStore WITH
    Keys <- StateKeys,
    Payloads <- Requests,
    Threads <- Managers,
    ExpectedVersions <- {}

KeyOf(m) == state_key(config[m].policy, request[m])

NoResult == [kind |-> "none"]

\* An AccessResult, with the request it answers.
Access(q, decision, key, state, version) ==
    [kind |-> "returned", asked |-> q, decision |-> decision, key |-> key,
     payload |-> state, version |-> version]

\* The counters of acquires; those of bytes and nanoseconds are left out.
ZeroStats == [local_hits |-> 0, remote_hits |-> 0, recomputes |-> 0, remote_rejected |-> 0]

Init ==
    /\ Store!Init
    /\ late = {} /\ late_gets = {}
    /\ config \in [Managers -> Configs]
    /\ local = [m \in Managers |-> [k \in StateKeys |-> None]]
    /\ local_order = [m \in Managers |-> <<>>]
    /\ stats = [m \in Managers |-> ZeroStats]
    /\ pc = [m \in Managers |-> "idle"]
    /\ request = [m \in Managers |-> None]
    /\ rejected = [m \in Managers |-> FALSE]
    /\ payload = [m \in Managers |-> None]
    /\ result = [m \in Managers |-> NoResult]
    /\ acquires = [m \in Managers |-> 0]
    /\ raised = [m \in Managers |-> 0]

Goto(m, place) == pc' = [pc EXCEPT ![m] = place]

\* Faulty variant: the previous request stays in the frame.
EndFrameKeepsRequest(m) ==
    /\ Goto(m, "idle")
    /\ rejected' = [rejected EXCEPT ![m] = FALSE]
    /\ payload' = [payload EXCEPT ![m] = None]
    /\ UNCHANGED request

\* acquire returns, or lets an exception through.
EndFrame(m) ==
    /\ Goto(m, "idle")
    /\ request' = [request EXCEPT ![m] = None]
    /\ rejected' = [rejected EXCEPT ![m] = FALSE]
    /\ payload' = [payload EXCEPT ![m] = None]

Return(m, access) ==
    /\ EndFrame(m)
    /\ result' = [result EXCEPT ![m] = access]
    /\ UNCHANGED <<acquires, raised, config>>

\* The store's answer is a local variable of acquire.
DropReply(m) == reply' = [reply EXCEPT ![m] = Store!NoReply]

Raise(m) ==
    /\ EndFrame(m)
    /\ result' = [result EXCEPT ![m] = [kind |-> "raised", computed |-> payload[m] # None]]
    /\ raised' = [raised EXCEPT ![m] = @ + 1]
    /\ UNCHANGED <<acquires, config, cacheVars, stats>>

\* Faulty variant: list.append without list.remove.
AppendOnly(keys, key) == Append(keys, key)

_touch(keys, key) == Append(RemoveFirst(keys, key), key)

\* Faulty variant: pop() instead of pop(0) drops the newest entry.
RememberEvictsNewest(m, key, record) ==
    LET keys == _touch(local_order[m], key)
        kept == SubSeq(keys, 1, Min({Len(keys), MaxLocal}))
    IN  /\ local_order' = [local_order EXCEPT ![m] = kept]
        /\ local' = [local EXCEPT ![m] =
                        [k \in StateKeys |-> IF ~Contains(kept, k) THEN None
                                             ELSE IF k = key THEN record ELSE @[k]]]

\* Store the record locally as the newest entry, then drop the oldest ones.
_remember(m, key, record) ==
    LET keys == _touch(local_order[m], key)
        evicted == Max({0, Len(keys) - MaxLocal})
    IN  /\ local_order' = [local_order EXCEPT ![m] = SubSeq(keys, evicted + 1, Len(keys))]
        /\ local' = [local EXCEPT ![m] =
                        [k \in StateKeys |->
                            IF \E i \in 1..evicted : keys[i] = k THEN None
                            ELSE IF k = key THEN record ELSE @[k]]]

Count(m, counter) == stats' = [stats EXCEPT ![m][counter] = @ + 1]

---------------------------------------------------------------------------
(***************************************************************************)
(* acquire, up to its first store call or its compute().                   *)
(***************************************************************************)
Enter(m) ==
    /\ pc[m] = "idle"
    /\ acquires[m] < MaxAcquires
    /\ acquires' = [acquires EXCEPT ![m] = @ + 1]
    /\ UNCHANGED <<storeVars, reply, config, raised>>

StartFrame(m, q, place) ==
    /\ Goto(m, place)
    /\ request' = [request EXCEPT ![m] = q]
    /\ result' = [result EXCEPT ![m] = NoResult]
    /\ UNCHANGED <<rejected, payload, cacheVars, stats>>

AcquireReset(m, q) ==
    /\ config[m].policy = "reset"
    /\ Enter(m)
    /\ StartFrame(m, q, "compute")

AcquireLocalHit(m, q) ==
    LET key == state_key(config[m].policy, q)
        found == local[m][key]
    IN  /\ config[m].policy # "reset"
        /\ found # None
        /\ Enter(m)
        /\ local_order' = [local_order EXCEPT ![m] = _touch(@, key)]
        /\ Count(m, "local_hits")
        /\ result' = [result EXCEPT ![m] = Access(q, "local_hit", key, found.payload, found.version)]
        /\ UNCHANGED <<local, frameVars>>

\* Faulty variant: the remote lookup is left out.
AcquireMissAlone(m, q) ==
    /\ config[m].policy # "reset"
    /\ local[m][state_key(config[m].policy, q)] = None
    /\ Enter(m)
    /\ StartFrame(m, q, "compute")

AcquireMiss(m, q) ==
    /\ config[m].policy # "reset"
    /\ local[m][state_key(config[m].policy, q)] = None
    /\ Enter(m)
    /\ StartFrame(m, q, IF config[m].remote_store THEN "fetch" ELSE "compute")

(***************************************************************************)
(* The remote lookup and the admission decision.                           *)
(***************************************************************************)
Fetch(m) ==
    /\ pc[m] = "fetch"
    /\ Store!Get(m, KeyOf(m))
    /\ Goto(m, "admit")
    /\ UNCHANGED <<lateVars, config, cacheVars, stats, request, rejected, payload, result, acquires, raised>>

AdmitHit(m) ==
    LET remote == reply[m].value IN
    /\ pc[m] = "admit"
    /\ remote # None
    /\ _remember(m, KeyOf(m), remote)
    /\ Count(m, "remote_hits")
    /\ Return(m, Access(request[m], "remote_hit", KeyOf(m), remote.payload, remote.version))
    /\ DropReply(m)
    /\ UNCHANGED storeVars

\* Faulty variant: a fetched record counts as a hit before it is admitted.
AdmitRejectCounted(m) ==
    /\ pc[m] = "admit"
    /\ reply[m].value # None
    /\ config[m].fetch_admission
    /\ stats' = [stats EXCEPT ![m].remote_hits = @ + 1, ![m].remote_rejected = @ + 1]
    /\ rejected' = [rejected EXCEPT ![m] = TRUE]
    /\ DropReply(m)
    /\ Goto(m, "compute")
    /\ UNCHANGED <<storeVars, config, cacheVars, request, payload, result, acquires, raised>>

\* An admission rule, if there is one, may turn the record down.
AdmitReject(m) ==
    /\ pc[m] = "admit"
    /\ reply[m].value # None
    /\ config[m].fetch_admission
    /\ Count(m, "remote_rejected")
    /\ rejected' = [rejected EXCEPT ![m] = TRUE]
    /\ DropReply(m)
    /\ Goto(m, "compute")
    /\ UNCHANGED <<storeVars, config, cacheVars, request, payload, result, acquires, raised>>

\* Faulty variant: wait for somebody else to publish the state.
AdmitMissWaits(m) ==
    /\ pc[m] = "admit"
    /\ reply[m].value = None
    /\ DropReply(m)
    /\ Goto(m, "fetch")
    /\ UNCHANGED <<storeVars, config, cacheVars, stats, request, rejected, payload,
                   result, acquires, raised>>

AdmitMiss(m) ==
    /\ pc[m] = "admit"
    /\ reply[m].value = None
    /\ DropReply(m)
    /\ Goto(m, "compute")
    /\ UNCHANGED <<storeVars, config, cacheVars, stats, request, rejected, payload,
                   result, acquires, raised>>

(***************************************************************************)
(* compute(), then publication.                                            *)
(***************************************************************************)
ComputeRaises(m) ==
    /\ pc[m] = "compute"
    /\ Raise(m)
    /\ UNCHANGED <<storeVars, reply>>

\* The computed state waits for put.
Computed(m) ==
    /\ payload' = [payload EXCEPT ![m] = request[m]]
    /\ Goto(m, "publish")
    /\ UNCHANGED <<storeVars, reply, config, cacheVars, stats, request, rejected, result,
                   acquires, raised>>

\* Faulty variant: a request-scoped state is published like any other.
ComputeResetPublishes(m) ==
    /\ pc[m] = "compute"
    /\ config[m].policy = "reset"
    /\ Computed(m)

ComputeReset(m) ==
    /\ pc[m] = "compute"
    /\ config[m].policy = "reset"
    /\ Count(m, "recomputes")
    /\ Return(m, Access(request[m], "recompute", KeyOf(m), request[m], 0))
    /\ UNCHANGED <<storeVars, reply, cacheVars>>

\* No store: the state is only remembered.
ComputeUnshared(m) ==
    /\ pc[m] = "compute"
    /\ config[m].policy # "reset"
    /\ ~config[m].remote_store
    /\ _remember(m, KeyOf(m), [version |-> 1, payload |-> request[m]])
    /\ Count(m, "recomputes")
    /\ Return(m, Access(request[m], "recompute", KeyOf(m), request[m], 1))
    /\ UNCHANGED <<storeVars, reply>>

ComputeShared(m) ==
    /\ pc[m] = "compute"
    /\ config[m].policy # "reset"
    /\ config[m].remote_store
    /\ Computed(m)

Publish(m) ==
    /\ pc[m] = "publish"
    /\ Store!Put(m, KeyOf(m), payload[m], None)
    /\ Goto(m, "remember")
    /\ UNCHANGED <<lateVars, config, cacheVars, stats, request, rejected, payload, result, acquires, raised>>

\* The store raises ValueError: the state is larger than the whole store.
PublishRefused(m) ==
    /\ pc[m] = "publish"
    /\ Store!PutInvalid(m, KeyOf(m), payload[m])
    /\ Raise(m)
    /\ UNCHANGED lateVars

PublishReturn(m) ==
    LET record == reply[m].value
        decision == IF rejected[m] THEN "remote_rejected" ELSE "recompute"
    IN  /\ pc[m] = "remember"
        /\ _remember(m, KeyOf(m), record)
        /\ Count(m, "recomputes")
        /\ Return(m, Access(request[m], decision, KeyOf(m), payload[m], record.version))
        /\ DropReply(m)
        /\ UNCHANGED storeVars

\* A store call fails before the store saw it, or its answer is lost: the
\* exception passes through acquire.
CallFails(m) ==
    /\ pc[m] \in {"fetch", "publish", "admit", "remember"}
    /\ Raise(m)
    /\ DropReply(m)
    /\ UNCHANGED storeVars

\* get times out while its frame is on the way or a handler of the server is
\* working on it.
FetchAbandoned(m) ==
    /\ pc[m] = "fetch"
    /\ late_gets' = late_gets \cup {[key |-> KeyOf(m), call |-> <<m, acquires[m]>>]}
    /\ Raise(m)
    /\ DropReply(m)
    /\ UNCHANGED <<records, order, evictions, late>>

\* put times out likewise.  (A put the store would refuse just fails.)
PublishAbandoned(m) ==
    /\ pc[m] = "publish"
    /\ Size[payload[m]] <= MaxBytes
    /\ late' = late \cup {[key |-> KeyOf(m), payload |-> payload[m], call |-> <<m, acquires[m]>>]}
    /\ Raise(m)
    /\ DropReply(m)
    /\ UNCHANGED <<records, order, evictions, late_gets>>

clear_local(m) ==
    /\ pc[m] = "idle"
    /\ local' = [local EXCEPT ![m] = [k \in StateKeys |-> None]]
    /\ local_order' = [local_order EXCEPT ![m] = <<>>]
    /\ result' = [result EXCEPT ![m] = NoResult]
    /\ UNCHANGED <<storeVars, reply, config, stats, frameVars, acquires, raised>>

---------------------------------------------------------------------------
(***************************************************************************)
(* The store's surroundings.                                               *)
(***************************************************************************)
managerVars == <<reply, config, cacheVars, stats, frameVars, result, acquires, raised>>

\* The server process is restarted: it keeps its records in memory only.
StoreRestart ==
    /\ records' = [k \in StateKeys |-> None]
    /\ order' = <<>>
    /\ evictions' = 0
    /\ late' = {} /\ late_gets' = {}
    /\ UNCHANGED managerVars

\* The server carries out a put nobody waits for.
LatePut(put) ==
    /\ Store!Write(put.key, put.payload)
    /\ late' = late \ {put}
    /\ UNCHANGED <<late_gets, managerVars>>

\* The server carries out a get nobody waits for.
LateGet(get) ==
    /\ Store!TouchOnGet(get.key)
    /\ late_gets' = late_gets \ {get}
    /\ UNCHANGED <<late, managerVars>>

\* Another client of the store deletes a record.
OutsideDelete(key) ==
    /\ records[key] # None
    /\ Store!Erase(key)
    /\ UNCHANGED <<lateVars, managerVars>>

\* The rest of an acquire under way.
Proceed(m) ==
    \/ Fetch(m) \/ AdmitHit(m) \/ AdmitReject(m) \/ AdmitMiss(m)
    \/ ComputeRaises(m) \/ ComputeReset(m) \/ ComputeUnshared(m) \/ ComputeShared(m)
    \/ Publish(m) \/ PublishRefused(m) \/ PublishReturn(m)
    \/ CallFails(m) \/ FetchAbandoned(m) \/ PublishAbandoned(m)

Next ==
    \/ \E m \in Managers :
        \/ \E q \in Requests :
            AcquireReset(m, q) \/ AcquireLocalHit(m, q) \/ AcquireMiss(m, q)
        \/ Proceed(m)
        \/ clear_local(m)
    \/ StoreRestart
    \/ \E put \in late : LatePut(put)
    \/ \E get \in late_gets : LateGet(get)
    \/ \E key \in StateKeys : OutsideDelete(key)

Spec == Init /\ [][Next]_vars

---------------------------------------------------------------------------
(***************************************************************************)
(* Properties.                                                             *)
(***************************************************************************)
Replies ==
    [kind : {"none", "returned", "ValueError"},
     key : StateKeys \cup {EmptyKey}, value : Records \cup {None}]

Results ==
    [kind : {"none"}] \cup [kind : {"raised"}, computed : BOOLEAN]
        \cup [kind : {"returned"},
              asked : Requests,
              decision : {"local_hit", "remote_hit", "recompute", "remote_rejected"},
              key : StateKeys, payload : Requests, version : Nat]

\* Types; an acquire has a request exactly while it is under way, and a
\* computed state exactly from compute() to its end.
TypeOK ==
    /\ records \in [StateKeys -> Records \cup {None}]
    /\ order \in Seq(StateKeys)
    /\ evictions \in Nat
    /\ reply \in [Managers -> Replies]
    /\ \A put \in late : put.key \in StateKeys /\ put.payload \in Requests
    /\ \A get \in late_gets : get.key \in StateKeys
    /\ config \in [Managers -> Configs]
    /\ local \in [Managers -> [StateKeys -> Records \cup {None}]]
    /\ local_order \in [Managers -> Seq(StateKeys)]
    /\ stats \in [Managers -> [DOMAIN ZeroStats -> Nat]]
    /\ pc \in [Managers -> {"idle", "fetch", "admit", "compute", "publish", "remember"}]
    /\ request \in [Managers -> Requests \cup {None}]
    /\ rejected \in [Managers -> BOOLEAN]
    /\ payload \in [Managers -> Requests \cup {None}]
    /\ result \in [Managers -> Results]
    /\ acquires \in [Managers -> Nat]
    /\ raised \in [Managers -> Nat]
    /\ \A m \in Managers :
        /\ request[m] = None <=> pc[m] = "idle"
        /\ payload[m] # None <=> pc[m] \in {"publish", "remember"}

\* _local and _local_order describe one cache: the list names each cached
\* key once and no other, and never more than max_local_entries of them,
\* through hits, evictions, failed acquires and clear_local.
LocalCacheConsistent ==
    \A m \in Managers :
        /\ IsInjective(local_order[m])
        /\ Range(local_order[m]) = {k \in StateKeys : local[m][k] # None}
        /\ Len(local_order[m]) <= MaxLocal

\* What each policy promises of a state it hands out: local_layout only
\* reuses a state computed for the same layout, whole_graph for the same
\* graph and role, reset none at all.  It holds whichever managers, with
\* whichever policies, published, rejected and overwrote states meanwhile.
Reusable(policy, computed_for, q) ==
    CASE policy = "reset" -> computed_for = q
      [] policy = "whole_graph" -> computed_for.graph = q.graph /\ computed_for.role = q.role
      [] OTHER -> computed_for.layout = q.layout

ReuseRule ==
    \A m \in Managers :
        result[m].kind = "returned"
            => Reusable(config[m].policy, result[m].payload, result[m].asked)

\* "dense prefills + remote hits + local hits" is the number of invocations:
\* every acquire is counted by exactly one of the three, unless it raised,
\* wherever it raised.
AccountsAddUp ==
    \A m \in Managers :
        LET s == stats[m]
            UnderWay == IF pc[m] = "idle" THEN 0 ELSE 1
        IN  s.local_hits + s.remote_hits + s.recomputes + raised[m] + UnderWay = acquires[m]

\* A state of a reset manager is request-scoped: it never reaches the shared
\* store or any local cache, where another request could find it.
ResetLeavesNoTrace ==
    \A q \in Requests :
        LET key == state_key("reset", q) IN
        records[key] = None /\ \A m \in Managers : local[m][key] = None

\* The state an acquire has returned is the newest entry of the manager's
\* own cache, with the version it reported, until the next acquire: asking
\* again is a local hit, whatever happened to the store.
ServedStateIsHeld ==
    \A m \in Managers :
        result[m].kind = "returned" /\ config[m].policy # "reset" =>
            /\ local_order[m] # <<>> /\ Last(local_order[m]) = result[m].key
            /\ local[m][result[m].key] =
                   [version |-> result[m].version, payload |-> result[m].payload]

\* Every invocation is handled in one of three ways, a local hit, a remote
\* hit or a recomputation: acquire fails only if compute() itself did, never
\* once a state has been computed.
ComputedStateIsDelivered ==
    \A m \in Managers : result[m].kind = "raised" => ~result[m].computed
===========================================================================
