---------------------- MODULE LayoutStateManagerProofs ----------------------
(***************************************************************************)
(* Proofs about LayoutStateManager, for every number of managers, every    *)
(* assignment of policies to them, every set of invocations and every size *)
(* of the local caches and of the store.                                   *)
(***************************************************************************)
EXTENDS LayoutStateManager, RecencyOrderProofs

---------------------------------------------------------------------------
(***************************************************************************)
(* The inductive invariant.                                                *)
(***************************************************************************)

\* The keys under which a state may be shared: those of its graph and role,
\* and of its layout, but not of its request.
SharedUnder(key, state) ==
    key \in {state_key("whole_graph", state), state_key("local_layout", state)}

\* In the store and on the way to it, a state is only found under a key of
\* its own, whichever manager put it there.
StoreInv ==
    /\ records \in [StateKeys -> Records \cup {None}]
    /\ order \in Seq(StateKeys) /\ IsInjective(order)
    /\ evictions \in Nat
    /\ \A k \in StateKeys : records[k] # None => SharedUnder(k, records[k].payload)
    /\ \A put \in late : /\ put.key \in StateKeys /\ put.payload \in Requests
                         /\ SharedUnder(put.key, put.payload)
    /\ \A get \in late_gets : get.key \in StateKeys

\* The same of every local cache; its list and its dictionary are in step.
CacheInv ==
    /\ local \in [Managers -> [StateKeys -> Records \cup {None}]]
    /\ local_order \in [Managers -> Seq(StateKeys)]
    /\ LocalCacheConsistent
    /\ \A m \in Managers, k \in StateKeys :
        local[m][k] # None => SharedUnder(k, local[m][k].payload)

\* The rest of TypeOK.
FrameTypes ==
    /\ reply \in [Managers -> Replies]
    /\ config \in [Managers -> Configs]
    /\ stats \in [Managers -> [DOMAIN ZeroStats -> Nat]]
    /\ pc \in [Managers -> {"idle", "fetch", "admit", "compute", "publish", "remember"}]
    /\ request \in [Managers -> Requests \cup {None}]
    /\ rejected \in [Managers -> BOOLEAN]
    /\ payload \in [Managers -> Requests \cup {None}]
    /\ result \in [Managers -> Results]
    /\ acquires \in [Managers -> Nat]
    /\ raised \in [Managers -> Nat]
    /\ \A m \in Managers :
        /\ request[m] = None <=> pc[m] = "idle"
        /\ payload[m] # None <=> pc[m] \in {"publish", "remember"}

\* What an acquire has in hand: a reset manager makes no store call, a
\* computed state is that of the request, a fetched record is one for the
\* key that was asked for, and put returned the record of the computed state.
FramesMatch ==
    \A m \in Managers :
        /\ pc[m] \in {"fetch", "admit", "publish", "remember"} => config[m].policy # "reset"
        /\ payload[m] # None => payload[m] = request[m]
        /\ pc[m] = "admit" /\ reply[m].value # None
            => SharedUnder(KeyOf(m), reply[m].value.payload)
        /\ pc[m] = "remember" => /\ reply[m].value # None
                                 /\ reply[m].value.payload = payload[m]

ManagerInv ==
    /\ CacheInv /\ FrameTypes /\ FramesMatch
    /\ AccountsAddUp /\ ReuseRule /\ ServedStateIsHeld

IInv == StoreInv /\ ManagerInv

---------------------------------------------------------------------------
(***************************************************************************)
(* Keys.                                                                   *)
(***************************************************************************)

\* Every key a policy forms is a key of the store.
LEMMA KeyType ==
  ASSUME NEW policy \in Policies, NEW q \in Requests
  PROVE  state_key(policy, q) \in StateKeys
BY DEF StateKeys

\* The key under which a state is published is one of its own.
LEMMA PublishedKeyIsOwn ==
  ASSUME NEW policy \in Policies \ {"reset"}, NEW q \in Requests
  PROVE  SharedUnder(state_key(policy, q), q)
BY DEF SharedUnder, state_key, Policies

\* What is found under the key of a request may be reused for it: keys of
\* graphs and of layouts never coincide, and each determines what its policy
\* compares.
LEMMA FoundIsReusable ==
  ASSUME NEW policy \in Policies \ {"reset"}, NEW q \in Requests, NEW state \in Requests,
         SharedUnder(state_key(policy, q), state)
  PROVE  Reusable(policy, state, q)
<1>1. CASE policy = "whole_graph"
  <2>1. <<"graph", q.graph, q.role>> # <<"layout", state.layout>>
    OBVIOUS
  <2>2. <<"graph", q.graph, q.role>> = <<"graph", state.graph, state.role>>
    BY <1>1, <2>1 DEF SharedUnder, state_key
  <2> QED BY <1>1, <2>2 DEF Reusable
<1>2. CASE policy = "local_layout"
  <2>1. <<"layout", q.layout>> # <<"graph", state.graph, state.role>>
    OBVIOUS
  <2>2. <<"layout", q.layout>> = <<"layout", state.layout>>
    BY <1>2, <2>1 DEF SharedUnder, state_key
  <2> QED BY <1>2, <2>2 DEF Reusable
<1> QED BY <1>1, <1>2 DEF Policies

\* No state is shared under the key of a request.
LEMMA RequestKeyIsPrivate ==
  ASSUME NEW q \in Requests, NEW state \in Requests
  PROVE  ~ SharedUnder(state_key("reset", q), state)
<1>1. <<"request", q.id, q.role>> # <<"graph", state.graph, state.role>>
  OBVIOUS
<1>2. <<"request", q.id, q.role>> # <<"layout", state.layout>>
  OBVIOUS
<1> QED BY <1>1, <1>2 DEF SharedUnder, state_key

---------------------------------------------------------------------------
(***************************************************************************)
(* The local cache.                                                        *)
(***************************************************************************)

\* key becomes m's newest local entry, with the given record.
BecomesNewest(m, key, record) ==
    local_order'[m] # <<>> /\ Last(local_order'[m]) = key /\ local'[m][key] = record

\* The caches of all managers but m are left alone.
OnlyCacheOf(m) ==
    \A n \in Managers \ {m} : local'[n] = local[n] /\ local_order'[n] = local_order[n]

\* A local hit makes its key the newest and changes nothing else.
LEMMA TouchLocal ==
  ASSUME CacheInv, NEW m \in Managers, NEW key \in StateKeys, local[m][key] # None,
         local_order' = [local_order EXCEPT ![m] = _touch(local_order[m], key)], local' = local
  PROVE  CacheInv' /\ BecomesNewest(m, key, local[m][key]) /\ OnlyCacheOf(m)
<1> DEFINE keys == local_order[m]
           touched == _touch(keys, key)
<1>1. keys \in Seq(StateKeys) /\ IsInjective(keys) /\ key \in Range(keys)
  BY DEF CacheInv, LocalCacheConsistent
<1>2. /\ touched \in Seq(StateKeys) /\ IsInjective(touched) /\ touched # <<>>
      /\ Range(touched) = Range(keys) /\ Last(touched) = key
  <2> HIDE DEF keys
  <2>1. touched \in Seq(StateKeys) /\ IsInjective(touched) /\ touched # <<>>
    BY <1>1, ToEndProperties DEF _touch
  <2>2. Range(touched) = Range(keys) \cup {key} /\ Last(touched) = key
    BY <1>1, ToEndProperties DEF _touch
  <2> QED BY <1>1, <2>1, <2>2
<1>3. Len(touched) = Len(keys)
  <2>1. RemoveFirst(keys, key) \in Seq(StateKeys) /\ Len(RemoveFirst(keys, key)) = Len(keys) - 1
    BY <1>1, RemoveFirstProperties
  <2> QED BY <1>1, <2>1 DEF _touch
<1>4. local_order'[m] = touched /\ OnlyCacheOf(m)
  BY DEF CacheInv, OnlyCacheOf
<1>5. local_order' \in [Managers -> Seq(StateKeys)]
  BY <1>2 DEF CacheInv
<1> HIDE DEF touched
<1>6. LocalCacheConsistent'
  BY <1>2, <1>3, <1>4 DEF LocalCacheConsistent, CacheInv, OnlyCacheOf
<1>7. CacheInv'
  BY <1>5, <1>6 DEF CacheInv
<1>8. BecomesNewest(m, key, local[m][key])
  BY <1>2, <1>4 DEF BecomesNewest
<1> QED BY <1>4, <1>7, <1>8

\* _remember makes the record the newest entry and keeps list and dictionary
\* in step while it drops what no longer fits.
LEMMA RememberLocal ==
  ASSUME CacheInv, NEW m \in Managers, NEW key \in StateKeys, NEW record \in Records,
         SharedUnder(key, record.payload), _remember(m, key, record)
  PROVE  CacheInv' /\ BecomesNewest(m, key, record) /\ OnlyCacheOf(m)
<1> DEFINE keys == _touch(local_order[m], key)
           evicted == Max({0, Len(keys) - MaxLocal})
           kept == SubSeq(keys, evicted + 1, Len(keys))
           table == [k \in StateKeys |->
                        IF \E i \in 1..evicted : keys[i] = k THEN None
                        ELSE IF k = key THEN record ELSE local[m][k]]
<1>1. /\ local_order[m] \in Seq(StateKeys) /\ IsInjective(local_order[m])
      /\ Range(local_order[m]) = {k \in StateKeys : local[m][k] # None}
  BY DEF CacheInv, LocalCacheConsistent
<1>2. /\ keys \in Seq(StateKeys) /\ IsInjective(keys) /\ keys # <<>>
      /\ Range(keys) = Range(local_order[m]) \cup {key} /\ Last(keys) = key
  BY <1>1, ToEndProperties DEF _touch
<1> HIDE DEF keys
<1>3. Len(keys) \in Nat \ {0} /\ keys[Len(keys)] = key
  BY <1>2, EmptySeq DEF Last
<1>4. /\ evicted \in 0..Len(keys) /\ evicted < Len(keys)
      /\ Len(keys) - evicted <= MaxLocal
  <2>1. MaxLocal \in Nat \ {0}
    BY ManagerAssumption
  <2>2. evicted = IF Len(keys) > MaxLocal THEN Len(keys) - MaxLocal ELSE 0
    BY <1>3, <2>1 DEF Max
  <2> QED BY <1>3, <2>1, <2>2
<1> HIDE DEF evicted
<1>5. /\ kept \in Seq(StateKeys) /\ IsInjective(kept) /\ kept # <<>> /\ Last(kept) = key
      /\ Len(kept) <= MaxLocal
      /\ \A k : k \in Range(kept) <=> k \in Range(keys) /\ ~ \E i \in 1..evicted : keys[i] = k
  <2>1. /\ kept \in Seq(StateKeys) /\ Len(kept) = Len(keys) - evicted
        /\ evicted < Len(keys) => kept # <<>> /\ Last(kept) = Last(keys)
    BY <1>2, <1>4, DropOldestProperties
  <2>2. /\ IsInjective(kept)
        /\ \A k : k \in Range(kept) <=> k \in Range(keys) /\ ~ \E i \in 1..evicted : keys[i] = k
    BY <1>2, <1>4, DropOldestProperties
  <2> QED BY <1>2, <1>4, <2>1, <2>2
<1>6. /\ local'[m] = table /\ local_order'[m] = kept /\ OnlyCacheOf(m)
      /\ DOMAIN local' = Managers /\ DOMAIN local_order' = Managers
  BY DEF _remember, CacheInv, OnlyCacheOf, keys, evicted
<1>7. table[key] = record
  <2>1. ~ \E i \in 1..evicted : keys[i] = key
    <3>1. ASSUME NEW i \in 1..evicted, keys[i] = key PROVE FALSE
      <4>1. i \in 1..Len(keys) /\ i # Len(keys) /\ Len(keys) \in 1..Len(keys)
        BY <1>3, <1>4
      <4> QED BY <1>2, <1>3, <3>1, <4>1 DEF IsInjective
    <3> QED BY <3>1
  <2> QED BY <2>1
<1>8. table \in [StateKeys -> Records \cup {None}]
  BY DEF CacheInv
<1>9. Range(kept) = {k \in StateKeys : table[k] # None}
  <2>1. record # None
    BY NoneIsNoState
  <2>2. ASSUME NEW k \in StateKeys PROVE k \in Range(kept) <=> table[k] # None
    BY <1>1, <1>2, <1>5, <1>7, <2>1
  <2>3. Range(kept) \subseteq StateKeys
    BY <1>5 DEF Range
  <2> QED BY <2>2, <2>3
<1>10. \A k \in StateKeys : table[k] # None => SharedUnder(k, table[k].payload)
  BY <1>7 DEF CacheInv
<1> HIDE DEF kept, table
<1>11. CacheInv'
  <2>1. local' \in [Managers -> [StateKeys -> Records \cup {None}]]
    BY <1>6, <1>8 DEF CacheInv, OnlyCacheOf, _remember
  <2>2. local_order' \in [Managers -> Seq(StateKeys)]
    BY <1>5, <1>6 DEF CacheInv, OnlyCacheOf, _remember
  <2>3. LocalCacheConsistent'
    <3>1. /\ IsInjective(local_order'[m])
          /\ Range(local_order'[m]) = {k \in StateKeys : local'[m][k] # None}
          /\ Len(local_order'[m]) <= MaxLocal
      BY <1>5, <1>6, <1>9
    <3>2. ASSUME NEW n \in Managers \ {m}
          PROVE  local'[n] = local[n] /\ local_order'[n] = local_order[n]
      BY <1>6 DEF OnlyCacheOf
    <3>3. LocalCacheConsistent
      BY DEF CacheInv
    <3> QED BY <3>1, <3>2, <3>3 DEF LocalCacheConsistent
  <2>4. ASSUME NEW n \in Managers, NEW k \in StateKeys, local'[n][k] # None
        PROVE  SharedUnder(k, local'[n][k].payload)
    <3>1. CASE n = m
      BY <1>6, <1>10, <2>4, <3>1
    <3>2. CASE n # m
      BY <1>6, <2>4, <3>2 DEF CacheInv, OnlyCacheOf
    <3> QED BY <3>1, <3>2
  <2> QED BY <2>1, <2>2, <2>3, <2>4 DEF CacheInv, SharedUnder, state_key
<1>12. BecomesNewest(m, key, record)
  BY <1>5, <1>6, <1>7 DEF BecomesNewest
<1> QED BY <1>6, <1>11, <1>12

---------------------------------------------------------------------------
(***************************************************************************)
(* The store.                                                              *)
(***************************************************************************)

\* The store's list operation is the one of the lemmas on recency orders.
LEMMA StoreRemoveFirst ==
  ASSUME NEW s, NEW k
  PROVE  Store!RemoveFirst(s, k) = RemoveFirst(s, k)
BY DEF Store!RemoveFirst, Store!SelectInSeq, Store!RemoveAt, Store!Min,
       RemoveFirst, SelectInSeq, RemoveAt, Min

\* Moving a key to the end of the store's order.
LEMMA StoreMoveToEnd ==
  ASSUME NEW s \in Seq(StateKeys), IsInjective(s), NEW k \in StateKeys
  PROVE  LET moved == Store!MoveToEnd(s, k)
         IN  /\ moved \in Seq(StateKeys) /\ IsInjective(moved)
             /\ moved # <<>> /\ Last(moved) = k
<1>1. Store!MoveToEnd(s, k) = Append(RemoveFirst(s, k), k)
  BY StoreRemoveFirst DEF Store!MoveToEnd
<1> QED BY <1>1, ToEndProperties

\* A get touches the order
LEMMA TouchStore ==
  ASSUME StoreInv, NEW key \in StateKeys, Store!TouchOnGet(key),
         late' = late, late_gets' \subseteq late_gets
  PROVE  StoreInv'
<1>1. order' \in Seq(StateKeys) /\ IsInjective(order')
  BY StoreMoveToEnd DEF Store!TouchOnGet, StoreInv
<1> QED BY <1>1 DEF Store!TouchOnGet, StoreInv, SharedUnder, state_key

\* and answers with the record it finds.
LEMMA GetStore ==
  ASSUME StoreInv, NEW m \in Managers, NEW key \in StateKeys, Store!Get(m, key),
         UNCHANGED lateVars
  PROVE  /\ StoreInv'
         /\ reply' = [reply EXCEPT ![m] = [kind |-> "returned", key |-> key,
                                          value |-> records[key]]]
<1>1. StoreInv'
  BY TouchStore DEF Store!Get, lateVars
<1> QED BY <1>1 DEF Store!Get, Store!Answer, Store!Lookup

\* The record put builds.
LEMMA NextRecordType ==
  ASSUME StoreInv, NEW key \in StateKeys, NEW q \in Requests
  PROVE  Store!NextRecord(key, q) \in Records /\ Store!NextRecord(key, q).payload = q
<1>1. Store!VersionOf(records[key]) \in Nat
  BY DEF StoreInv, Store!VersionOf, Records
<1> QED BY <1>1 DEF Store!NextRecord, Records

\* A write keeps states under their own keys, also when it evicts others; it
\* never evicts the record it writes.
LEMMA WriteStore ==
  ASSUME StoreInv, NEW key \in StateKeys, NEW q \in Requests, SharedUnder(key, q),
         Store!Write(key, q), late' \subseteq late, late_gets' = late_gets
  PROVE  /\ StoreInv'
         /\ records'[key] = Store!NextRecord(key, q)
         /\ \A k \in StateKeys \ {key} : records'[k] \in {None, records[k]}
<1> DEFINE record == Store!NextRecord(key, q)
           written == [records EXCEPT ![key] = record]
           queue == Store!MoveToEnd(order, key)
<1>1. record \in Records /\ record.payload = q
  BY NextRecordType
<1>2. queue \in Seq(StateKeys) /\ IsInjective(queue) /\ queue # <<>> /\ Last(queue) = key
  BY StoreMoveToEnd DEF StoreInv
<1> HIDE DEF record, queue
<1>3. PICK n \in 0 .. Len(queue) - 1 :
        /\ records' = Store!WithoutOldest(written, queue, n)
        /\ order' = SubSeq(queue, n + 1, Len(queue))
        /\ evictions' = evictions + n
  BY DEF Store!Write, record, queue
<1>4. order' \in Seq(StateKeys) /\ IsInjective(order')
  <2>1. n \in 0..Len(queue)
    BY <1>2
  <2> QED BY <1>2, <1>3, <2>1, DropOldestProperties
<1>5. evictions' \in Nat
  BY <1>2, <1>3 DEF StoreInv
<1>6. written \in [StateKeys -> Records \cup {None}]
  BY <1>1 DEF StoreInv
<1>7. \A k \in StateKeys : written[k] # None => SharedUnder(k, written[k].payload)
  BY <1>1 DEF StoreInv
<1>8. written[key] = record /\ \A k \in StateKeys \ {key} : written[k] = records[k]
  BY DEF StoreInv
<1> HIDE DEF written
<1>9. records' \in [StateKeys -> Records \cup {None}]
  BY <1>3, <1>6 DEF Store!WithoutOldest
<1>10. \A k \in StateKeys : records'[k] # None => SharedUnder(k, records'[k].payload)
  BY <1>3, <1>6, <1>7 DEF Store!WithoutOldest
<1>11. \A i \in 1..n : queue[i] # key
  <2>1. Len(queue) \in Nat /\ queue[Len(queue)] = key
    BY <1>2 DEF Last
  <2>2. ASSUME NEW i \in 1..n PROVE i \in 1..Len(queue) /\ Len(queue) \in 1..Len(queue) /\ i # Len(queue)
    BY <2>1
  <2> QED BY <1>2, <2>1, <2>2 DEF IsInjective
<1>12. records'[key] = record /\ \A k \in StateKeys \ {key} : records'[k] \in {None, records[k]}
  BY <1>3, <1>6, <1>8, <1>11 DEF Store!WithoutOldest
<1>13. StoreInv'
  BY <1>4, <1>5, <1>9, <1>10 DEF StoreInv, SharedUnder, state_key
<1> QED BY <1>12, <1>13 DEF record

\* A delete, and a restart.
LEMMA EraseStore ==
  ASSUME StoreInv, NEW key \in StateKeys, Store!Erase(key), UNCHANGED lateVars
  PROVE  StoreInv'
<1>1. order' \in Seq(StateKeys) /\ IsInjective(order')
  BY RemoveFirstProperties, StoreRemoveFirst DEF Store!Erase, StoreInv
<1> QED BY <1>1 DEF Store!Erase, StoreInv, SharedUnder, state_key, lateVars

\* Nothing of the store changes.
LEMMA StoreUnchanged ==
  StoreInv /\ UNCHANGED storeVars => StoreInv'
BY DEF StoreInv, storeVars, lateVars, SharedUnder, state_key

---------------------------------------------------------------------------
(***************************************************************************)
(* The steps of an acquire.                                                *)
(***************************************************************************)

\* Only m's store answer changes.
OnlyReplyOf(m) ==
    /\ reply' \in [Managers -> Replies]
    /\ \A n \in Managers \ {m} : reply'[n] = reply[n]

\* An acquire under way has a request and a key.
LEMMA KeyOfType ==
  ASSUME FrameTypes, NEW m \in Managers, pc[m] # "idle"
  PROVE  /\ request[m] \in Requests /\ config[m].policy \in Policies
         /\ KeyOf(m) \in StateKeys
<1>1. request[m] \in Requests /\ config[m].policy \in Policies
  BY ManagerAssumption DEF FrameTypes
<1> QED BY <1>1, KeyType DEF KeyOf

\* Forgetting the store's answer, and leaving it alone.
LEMMA ReplyDropped ==
  ASSUME FrameTypes, NEW m \in Managers, DropReply(m) \/ reply' = reply
  PROVE  OnlyReplyOf(m)
<1>1. Store!NoReply \in Replies
  BY DEF Store!NoReply, Replies
<1> QED BY <1>1 DEF FrameTypes, DropReply, OnlyReplyOf

\* One counter of one manager goes up.
LEMMA CountStats ==
  ASSUME FrameTypes, NEW m \in Managers, NEW c \in DOMAIN ZeroStats, Count(m, c)
  PROVE  /\ stats' \in [Managers -> [DOMAIN ZeroStats -> Nat]]
         /\ stats'[m][c] = stats[m][c] + 1
         /\ \A d \in DOMAIN ZeroStats \ {c} : stats'[m][d] = stats[m][d]
         /\ \A n \in Managers \ {m} : stats'[n] = stats[n]
<1> DEFINE D == DOMAIN ZeroStats
<1> HIDE DEF D
<1>1. stats \in [Managers -> [D -> Nat]] /\ c \in D
      /\ stats' = [stats EXCEPT ![m][c] = @ + 1]
  BY DEF FrameTypes, Count, D
<1> QED BY <1>1 DEF D

\* The counters.
LEMMA Counters ==
  DOMAIN ZeroStats = {"local_hits", "remote_hits", "recomputes", "remote_rejected"}
BY DEF ZeroStats

\* An acquire that ends without an exception is counted once.
LEMMA CountedOnce ==
  ASSUME FrameTypes, AccountsAddUp, NEW m \in Managers,
         NEW c \in {"local_hits", "remote_hits", "recomputes"}, Count(m, c), raised' = raised,
         \/ /\ pc[m] = "idle" /\ pc' = pc
            /\ acquires' = [acquires EXCEPT ![m] = acquires[m] + 1]
         \/ /\ pc[m] # "idle" /\ pc' = [pc EXCEPT ![m] = "idle"]
            /\ acquires' = acquires
  PROVE  AccountsAddUp'
<1> DEFINE Sum(s) == s["local_hits"] + s["remote_hits"] + s["recomputes"]
           UnderWay(n) == IF pc[n] = "idle" THEN 0 ELSE 1
           After(n) == IF pc'[n] = "idle" THEN 0 ELSE 1
<1>1. \A n \in Managers : Sum(stats[n]) + raised[n] + UnderWay(n) = acquires[n]
  BY DEF AccountsAddUp
<1>2. /\ stats'[m][c] = stats[m][c] + 1
      /\ \A d \in DOMAIN ZeroStats \ {c} : stats'[m][d] = stats[m][d]
      /\ \A n \in Managers \ {m} : stats'[n] = stats[n]
  BY CountStats, Counters
<1>3. \A d \in DOMAIN ZeroStats : stats[m][d] \in Nat
  BY DEF FrameTypes
<1>4. Sum(stats'[m]) = Sum(stats[m]) + 1 /\ Sum(stats[m]) \in Nat
  BY <1>2, <1>3, Counters
<1>5. raised[m] \in Nat /\ acquires[m] \in Nat
  BY DEF FrameTypes
<1>6. UnderWay(m) + acquires'[m] = After(m) + acquires[m] + 1
  BY <1>5 DEF FrameTypes
<1>7. \A n \in Managers \ {m} : After(n) = UnderWay(n) /\ acquires'[n] = acquires[n]
  BY DEF FrameTypes
<1> HIDE DEF Sum
<1>8. \A n \in Managers : Sum(stats'[n]) + raised'[n] + After(n) = acquires'[n]
  <2>1. Sum(stats'[m]) + raised'[m] + After(m) = acquires'[m]
    <3>1. Sum(stats[m]) + raised[m] + UnderWay(m) = acquires[m]
      BY <1>1
    <3>2. acquires'[m] \in Int
      BY DEF FrameTypes
    <3> HIDE DEF UnderWay, After
    <3> QED BY <1>4, <1>5, <1>6, <3>1, <3>2 DEF UnderWay, After
  <2>2. ASSUME NEW n \in Managers \ {m}
        PROVE  Sum(stats'[n]) + raised'[n] + After(n) = acquires'[n]
    <3> HIDE DEF UnderWay, After
    <3> QED BY <1>1, <1>2, <1>7
  <2> QED BY <2>1, <2>2
<1> QED BY <1>8 DEF AccountsAddUp, Sum

\* Nothing of any cache changes.
LEMMA CacheUnchanged ==
  CacheInv /\ UNCHANGED cacheVars => CacheInv'
BY DEF CacheInv, cacheVars, LocalCacheConsistent, SharedUnder, state_key

\* An acquire starts that finds nothing in the local cache or does not look.
LEMMA StartFrameIInv ==
  ASSUME IInv, NEW m \in Managers, NEW q \in Requests, NEW place \in {"fetch", "compute"},
         place = "fetch" => config[m].policy # "reset",
         Enter(m), StartFrame(m, q, place)
  PROVE  IInv'
<1> USE DEF Enter, StartFrame, Goto
<1>1. StoreInv' /\ CacheInv'
  BY StoreUnchanged, CacheUnchanged DEF IInv, ManagerInv
<1>2. FrameTypes'
  BY NoneIsNoState DEF IInv, ManagerInv, FrameTypes, NoResult, Results
<1>3. FramesMatch'
  BY DEF IInv, ManagerInv, FrameTypes, FramesMatch, KeyOf, SharedUnder, state_key
<1>4. AccountsAddUp'
  BY Counters DEF IInv, ManagerInv, FrameTypes, AccountsAddUp
<1>5. ReuseRule' /\ ServedStateIsHeld'
  BY DEF IInv, ManagerInv, FrameTypes, ReuseRule, ServedStateIsHeld, NoResult, cacheVars
<1> QED BY <1>1, <1>2, <1>3, <1>4, <1>5 DEF IInv, ManagerInv

\* A local hit.
LEMMA AcquireLocalHitIInv ==
  ASSUME IInv, NEW m \in Managers, NEW q \in Requests, AcquireLocalHit(m, q)
  PROVE  IInv'
<1> DEFINE key == state_key(config[m].policy, q)
           found == local[m][key]
           access == Access(q, "local_hit", key, found.payload, found.version)
<1>1. config[m].policy \in Policies \ {"reset"} /\ key \in StateKeys
  BY ManagerAssumption, KeyType DEF AcquireLocalHit, IInv, ManagerInv, FrameTypes
<1>2. found \in Records /\ found # None /\ SharedUnder(key, found.payload)
  BY <1>1 DEF AcquireLocalHit, IInv, ManagerInv, CacheInv
<1>3. /\ Enter(m) /\ Count(m, "local_hits")
      /\ local_order' = [local_order EXCEPT ![m] = _touch(local_order[m], key)]
      /\ local' = local
      /\ result' = [result EXCEPT ![m] = access]
      /\ UNCHANGED frameVars
  BY DEF AcquireLocalHit
<1> HIDE DEF key
<1>4. CacheInv' /\ BecomesNewest(m, key, found) /\ OnlyCacheOf(m)
  BY <1>1, <1>2, <1>3, TouchLocal DEF IInv, ManagerInv
<1>5. StoreInv'
  BY <1>3, StoreUnchanged DEF IInv, Enter
<1>6. access \in Results /\ access.kind = "returned"
  BY <1>1, <1>2 DEF Access, Results, Records
<1> HIDE DEF found
<1>7. FrameTypes'
  <2>1. stats' \in [Managers -> [DOMAIN ZeroStats -> Nat]]
    BY <1>3, CountStats, Counters DEF IInv, ManagerInv
  <2> HIDE DEF access
  <2>2. acquires' \in [Managers -> Nat] /\ result' \in [Managers -> Results]
    BY <1>3, <1>6 DEF IInv, ManagerInv, FrameTypes, Enter
  <2>3. UNCHANGED <<reply, config, pc, request, rejected, payload, raised>>
    BY <1>3 DEF Enter, frameVars
  <2> QED BY <2>1, <2>2, <2>3 DEF IInv, ManagerInv, FrameTypes
<1>8. FramesMatch'
  BY <1>3 DEF IInv, ManagerInv, FrameTypes, FramesMatch, KeyOf, SharedUnder, state_key,
              frameVars, Enter
<1>9. AccountsAddUp'
  <2>1. /\ pc[m] = "idle" /\ pc' = pc /\ raised' = raised
        /\ acquires' = [acquires EXCEPT ![m] = acquires[m] + 1]
    BY <1>3 DEF Enter, frameVars
  <2> QED BY <1>3, <2>1, CountedOnce DEF IInv, ManagerInv
<1>10. ReuseRule'
  <2>1. Reusable(config[m].policy, found.payload, q)
    BY <1>1, <1>2, FoundIsReusable DEF key, Records
  <2> QED BY <1>3, <2>1 DEF IInv, ManagerInv, FrameTypes, ReuseRule, Access, Enter, Reusable
<1>11. ServedStateIsHeld'
  <2>1. found = [version |-> found.version, payload |-> found.payload]
    BY <1>2 DEF Records
  <2> QED BY <1>3, <1>4, <2>1 DEF IInv, ManagerInv, FrameTypes, ServedStateIsHeld, BecomesNewest,
                    OnlyCacheOf, Access, Enter
<1> QED BY <1>4, <1>5, <1>7, <1>8, <1>9, <1>10, <1>11 DEF IInv, ManagerInv

\* An exception leaves acquire: nothing but the frame and the count of
\* exceptions changes.
LEMMA RaiseIInv ==
  ASSUME ManagerInv, NEW m \in Managers, pc[m] # "idle", Raise(m), OnlyReplyOf(m)
  PROVE  ManagerInv'
<1> USE DEF Raise, EndFrame, Goto
<1>1. CacheInv'
  BY CacheUnchanged DEF ManagerInv
<1>2. FrameTypes'
  <2>1. result' \in [Managers -> Results]
    BY DEF ManagerInv, FrameTypes, Results
  <2> QED BY <2>1, NoneIsNoState DEF ManagerInv, FrameTypes, OnlyReplyOf
<1>3. FramesMatch'
  BY DEF ManagerInv, FrameTypes, FramesMatch, KeyOf, SharedUnder, state_key, OnlyReplyOf
<1>4. AccountsAddUp'
  BY Counters DEF ManagerInv, FrameTypes, AccountsAddUp
<1>5. ReuseRule' /\ ServedStateIsHeld'
  BY DEF ManagerInv, FrameTypes, ReuseRule, ServedStateIsHeld, Reusable, cacheVars
<1> QED BY <1>1, <1>2, <1>3, <1>4, <1>5 DEF ManagerInv

\* acquire returns: the parts of the invariant that do not depend on what it
\* returns.
LEMMA ReturnFrame ==
  ASSUME ManagerInv, NEW m \in Managers, pc[m] # "idle", NEW access \in Results,
         Return(m, access), NEW c \in {"local_hits", "remote_hits", "recomputes"}, Count(m, c),
         OnlyReplyOf(m)
  PROVE  FrameTypes' /\ FramesMatch' /\ AccountsAddUp'
<1> USE DEF Return, EndFrame, Goto
<1>1. FrameTypes'
  <2>1. stats' \in [Managers -> [DOMAIN ZeroStats -> Nat]]
    BY CountStats, Counters DEF ManagerInv
  <2> QED BY <2>1, NoneIsNoState DEF ManagerInv, FrameTypes, OnlyReplyOf
<1>2. FramesMatch'
  BY DEF ManagerInv, FrameTypes, FramesMatch, KeyOf, SharedUnder, state_key, OnlyReplyOf
<1>3. AccountsAddUp'
  BY CountedOnce DEF ManagerInv
<1> QED BY <1>1, <1>2, <1>3

\* acquire returns a state that it has just put into the local cache: a
\* remote hit, or a recomputation that is kept.
LEMMA RememberReturnIInv ==
  ASSUME ManagerInv, NEW m \in Managers, pc[m] # "idle", config[m].policy # "reset",
         NEW record \in Records, SharedUnder(KeyOf(m), record.payload),
         NEW decision \in {"remote_hit", "recompute", "remote_rejected"},
         NEW c \in {"remote_hits", "recomputes"},
         _remember(m, KeyOf(m), record), Count(m, c),
         Return(m, Access(request[m], decision, KeyOf(m), record.payload, record.version)),
         OnlyReplyOf(m)
  PROVE  ManagerInv'
<1> DEFINE access == Access(request[m], decision, KeyOf(m), record.payload, record.version)
<1>1. /\ request[m] \in Requests /\ config[m].policy \in Policies \ {"reset"}
      /\ KeyOf(m) \in StateKeys
  BY KeyOfType DEF ManagerInv
<1>2. CacheInv' /\ BecomesNewest(m, KeyOf(m), record) /\ OnlyCacheOf(m)
  BY <1>1, RememberLocal DEF ManagerInv
<1>3. access \in Results
  BY <1>1 DEF Access, Results, Records
<1>4. FrameTypes' /\ FramesMatch' /\ AccountsAddUp'
  <2> HIDE DEF access
  <2>1. Return(m, access)
    BY DEF access
  <2> QED BY <1>3, <2>1, ReturnFrame
<1>5. result' = [result EXCEPT ![m] = access] /\ config' = config
  BY DEF Return
<1>6. ReuseRule'
  <2>1. Reusable(config[m].policy, record.payload, request[m])
    BY <1>1, FoundIsReusable DEF KeyOf, Records
  <2> QED BY <1>5, <2>1 DEF ManagerInv, FrameTypes, ReuseRule, Access, Reusable
<1>7. ServedStateIsHeld'
  <2>1. record = [version |-> record.version, payload |-> record.payload]
    BY DEF Records
  <2>2. /\ access.kind = "returned" /\ access.key = KeyOf(m)
        /\ access.payload = record.payload /\ access.version = record.version
    BY DEF Access
  <2> HIDE DEF access
  <2>3. result'[m] = access /\ \A n \in Managers \ {m} : result'[n] = result[n]
    BY <1>5 DEF ManagerInv, FrameTypes
  <2>4. /\ local_order'[m] # <<>> /\ Last(local_order'[m]) = access.key
        /\ local'[m][access.key] = [version |-> access.version, payload |-> access.payload]
    BY <1>2, <2>1, <2>2 DEF BecomesNewest
  <2>5. \A n \in Managers \ {m} : local'[n] = local[n] /\ local_order'[n] = local_order[n]
    BY <1>2 DEF OnlyCacheOf
  <2> QED BY <1>5, <2>3, <2>4, <2>5 DEF ManagerInv, ServedStateIsHeld
<1> QED BY <1>2, <1>4, <1>6, <1>7 DEF ManagerInv

\* A step that changes neither caches nor results.
LEMMA ResultsUnchanged ==
  ManagerInv /\ UNCHANGED <<config, cacheVars, result>>
    => CacheInv' /\ ReuseRule' /\ ServedStateIsHeld'
BY CacheUnchanged DEF ManagerInv, ReuseRule, ServedStateIsHeld, Reusable, cacheVars

\* The remote lookup: what it finds is there under the key of the request.
LEMMA FetchIInv ==
  ASSUME IInv, NEW m \in Managers, Fetch(m)
  PROVE  IInv'
<1> DEFINE answer == [kind |-> "returned", key |-> KeyOf(m), value |-> records[KeyOf(m)]]
<1>1. /\ pc[m] = "fetch" /\ Store!Get(m, KeyOf(m)) /\ pc' = [pc EXCEPT ![m] = "admit"]
      /\ UNCHANGED <<lateVars, config, cacheVars, stats, request, rejected, payload, result,
                     acquires, raised>>
  BY DEF Fetch, Goto
<1>2. KeyOf(m) \in StateKeys
  BY <1>1, KeyOfType DEF IInv, ManagerInv
<1>3. StoreInv' /\ reply' = [reply EXCEPT ![m] = answer]
  BY <1>1, <1>2, GetStore DEF IInv
<1>4. answer \in Replies
  BY <1>2 DEF IInv, StoreInv, Replies
<1>5. answer.value # None => SharedUnder(KeyOf(m), answer.value.payload)
  BY <1>2 DEF IInv, StoreInv
<1>6. answer.value = records[KeyOf(m)]
  OBVIOUS
<1> HIDE DEF answer
<1>7. FrameTypes'
  BY <1>1, <1>3, <1>4 DEF IInv, ManagerInv, FrameTypes
<1>8. FramesMatch'
  BY <1>1, <1>3, <1>5 DEF IInv, ManagerInv, FrameTypes, FramesMatch, KeyOf, SharedUnder, state_key
<1>9. AccountsAddUp'
  BY <1>1 DEF IInv, ManagerInv, FrameTypes, AccountsAddUp
<1> QED BY <1>1, <1>3, <1>7, <1>8, <1>9, ResultsUnchanged DEF IInv, ManagerInv

\* The record that was found is admitted.
LEMMA AdmitHitIInv ==
  ASSUME IInv, NEW m \in Managers, AdmitHit(m)
  PROVE  IInv'
<1>1. /\ reply[m].value \in Records /\ config[m].policy # "reset"
      /\ SharedUnder(KeyOf(m), reply[m].value.payload)
  BY DEF AdmitHit, IInv, ManagerInv, FrameTypes, FramesMatch, Replies
<1>2. OnlyReplyOf(m)
  BY ReplyDropped DEF AdmitHit, IInv, ManagerInv
<1>3. ManagerInv'
  BY <1>1, <1>2, RememberReturnIInv DEF AdmitHit, IInv
<1>4. StoreInv'
  BY StoreUnchanged DEF AdmitHit, IInv
<1> QED BY <1>3, <1>4 DEF IInv

\* There is no record, or it is turned down: the state will be computed.
LEMMA AdmitOtherIInv ==
  ASSUME IInv, NEW m \in Managers, AdmitReject(m) \/ AdmitMiss(m)
  PROVE  IInv'
<1>1. /\ pc[m] = "admit" /\ pc' = [pc EXCEPT ![m] = "compute"] /\ DropReply(m)
      /\ UNCHANGED <<storeVars, config, cacheVars, request, payload, result, acquires, raised>>
  BY DEF AdmitReject, AdmitMiss, Goto
<1>2. OnlyReplyOf(m)
  BY <1>1, ReplyDropped DEF IInv, ManagerInv
<1>3. /\ stats' \in [Managers -> [DOMAIN ZeroStats -> Nat]]
      /\ \A n \in Managers : \A d \in DOMAIN ZeroStats \ {"remote_rejected"} :
            stats'[n][d] = stats[n][d]
  <2>1. CASE AdmitReject(m)
    BY <2>1, CountStats, Counters DEF AdmitReject, IInv, ManagerInv
  <2>2. CASE AdmitMiss(m)
    BY <2>2 DEF AdmitMiss, IInv, ManagerInv, FrameTypes
  <2> QED BY <2>1, <2>2
<1>4. rejected' \in [Managers -> BOOLEAN]
  BY DEF AdmitReject, AdmitMiss, IInv, ManagerInv, FrameTypes
<1>5. FrameTypes'
  BY <1>1, <1>2, <1>3, <1>4 DEF IInv, ManagerInv, FrameTypes, OnlyReplyOf
<1>6. FramesMatch'
  <2>1. ASSUME NEW n \in Managers
        PROVE  /\ KeyOf(n)' = KeyOf(n) /\ config'[n] = config[n]
               /\ payload'[n] = payload[n] /\ request'[n] = request[n]
    BY <1>1 DEF KeyOf
  <2>2. pc'[m] = "compute"
    BY <1>1 DEF IInv, ManagerInv, FrameTypes
  <2>3. ASSUME NEW n \in Managers \ {m} PROVE pc'[n] = pc[n] /\ reply'[n] = reply[n]
    BY <1>1, <1>2 DEF IInv, ManagerInv, FrameTypes, OnlyReplyOf
  <2> QED BY <2>1, <2>2, <2>3 DEF IInv, ManagerInv, FramesMatch, SharedUnder, state_key
<1>7. AccountsAddUp'
  <2>1. ASSUME NEW n \in Managers
        PROVE  /\ pc'[n] = "idle" <=> pc[n] = "idle"
               /\ raised'[n] = raised[n] /\ acquires'[n] = acquires[n]
    BY <1>1 DEF IInv, ManagerInv, FrameTypes
  <2>2. ASSUME NEW n \in Managers
        PROVE  /\ stats'[n].local_hits = stats[n].local_hits
               /\ stats'[n].remote_hits = stats[n].remote_hits
               /\ stats'[n].recomputes = stats[n].recomputes
    BY <1>3, Counters
  <2> QED BY <2>1, <2>2 DEF IInv, ManagerInv, AccountsAddUp
<1> QED BY <1>1, <1>5, <1>6, <1>7, ResultsUnchanged, StoreUnchanged DEF IInv, ManagerInv

\* A state is computed for reset: it is returned and kept nowhere.
LEMMA ComputeResetIInv ==
  ASSUME IInv, NEW m \in Managers, ComputeReset(m)
  PROVE  IInv'
<1> DEFINE access == Access(request[m], "recompute", KeyOf(m), request[m], 0)
<1>1. /\ pc[m] = "compute" /\ config[m].policy = "reset" /\ Count(m, "recomputes")
      /\ Return(m, access) /\ UNCHANGED <<storeVars, reply, cacheVars>>
  BY DEF ComputeReset
<1>2. request[m] \in Requests /\ KeyOf(m) \in StateKeys
  BY <1>1, KeyOfType DEF IInv, ManagerInv
<1>3. access \in Results
  BY <1>2 DEF Access, Results
<1>4. OnlyReplyOf(m)
  BY <1>1, ReplyDropped DEF IInv, ManagerInv
<1>5. access.kind = "returned" /\ access.payload = access.asked
  BY DEF Access
<1> HIDE DEF access
<1>6. FrameTypes' /\ FramesMatch' /\ AccountsAddUp'
  BY <1>1, <1>3, <1>4, ReturnFrame DEF IInv
<1>7. StoreInv' /\ CacheInv'
  BY <1>1, StoreUnchanged, CacheUnchanged DEF IInv, ManagerInv
<1>8. ReuseRule' /\ ServedStateIsHeld'
  BY <1>1, <1>5 DEF IInv, ManagerInv, FrameTypes, ReuseRule, ServedStateIsHeld, Reusable,
                    Return, cacheVars
<1> QED BY <1>6, <1>7, <1>8 DEF IInv, ManagerInv

\* A state is computed without a store: it is kept locally.
LEMMA ComputeUnsharedIInv ==
  ASSUME IInv, NEW m \in Managers, ComputeUnshared(m)
  PROVE  IInv'
<1> DEFINE record == [version |-> 1, payload |-> request[m]]
<1>1. /\ pc[m] = "compute" /\ config[m].policy # "reset"
      /\ _remember(m, KeyOf(m), record) /\ Count(m, "recomputes")
      /\ Return(m, Access(request[m], "recompute", KeyOf(m), record.payload, record.version))
      /\ UNCHANGED <<storeVars, reply>>
  BY DEF ComputeUnshared
<1>2. request[m] \in Requests /\ config[m].policy \in Policies
  BY <1>1, KeyOfType DEF IInv, ManagerInv
<1>3. record \in Records
  BY <1>2 DEF Records
<1>4. SharedUnder(KeyOf(m), record.payload)
  BY <1>1, <1>2, PublishedKeyIsOwn DEF KeyOf
<1>5. OnlyReplyOf(m)
  BY <1>1, ReplyDropped DEF IInv, ManagerInv
<1> HIDE DEF record
<1>6. ManagerInv'
  BY <1>1, <1>3, <1>4, <1>5, RememberReturnIInv DEF IInv
<1> QED BY <1>1, <1>6, StoreUnchanged DEF IInv

\* A state is computed and will be published.
LEMMA ComputeSharedIInv ==
  ASSUME IInv, NEW m \in Managers, ComputeShared(m)
  PROVE  IInv'
<1>1. /\ pc[m] = "compute" /\ config[m].policy # "reset"
      /\ payload' = [payload EXCEPT ![m] = request[m]] /\ pc' = [pc EXCEPT ![m] = "publish"]
      /\ UNCHANGED <<storeVars, reply, config, cacheVars, stats, request, rejected, result,
                     acquires, raised>>
  BY DEF ComputeShared, Computed, Goto
<1>2. request[m] \in Requests /\ request[m] # None
  BY <1>1, KeyOfType, NoneIsNoState DEF IInv, ManagerInv
<1>3. FrameTypes'
  BY <1>1, <1>2 DEF IInv, ManagerInv, FrameTypes
<1>4. FramesMatch'
  BY <1>1 DEF IInv, ManagerInv, FrameTypes, FramesMatch, KeyOf, SharedUnder, state_key
<1>5. AccountsAddUp'
  BY <1>1 DEF IInv, ManagerInv, FrameTypes, AccountsAddUp
<1> QED BY <1>1, <1>3, <1>4, <1>5, ResultsUnchanged, StoreUnchanged DEF IInv, ManagerInv

\* put: the record it returns is that of the computed state.
LEMMA PublishIInv ==
  ASSUME IInv, NEW m \in Managers, Publish(m)
  PROVE  IInv'
<1> DEFINE record == Store!NextRecord(KeyOf(m), payload[m])
           answer == [kind |-> "returned", key |-> KeyOf(m), value |-> record]
<1>1. /\ pc[m] = "publish" /\ pc' = [pc EXCEPT ![m] = "remember"]
      /\ Store!Write(KeyOf(m), payload[m])
      /\ reply' = [reply EXCEPT ![m] = answer]
      /\ UNCHANGED <<lateVars, config, cacheVars, stats, request, rejected, payload, result,
                     acquires, raised>>
  BY DEF Publish, Goto, Store!Put, Store!Answer
<1>2. /\ KeyOf(m) \in StateKeys /\ config[m].policy \in Policies
      /\ payload[m] \in Requests /\ payload[m] = request[m]
  BY <1>1, KeyOfType DEF IInv, ManagerInv, FrameTypes, FramesMatch
<1>3. SharedUnder(KeyOf(m), payload[m])
  BY <1>1, <1>2, PublishedKeyIsOwn DEF IInv, ManagerInv, FramesMatch, KeyOf
<1>4. StoreInv'
  BY <1>1, <1>2, <1>3, WriteStore DEF IInv, lateVars
<1>5. record \in Records /\ record.payload = payload[m] /\ record # None
  BY <1>2, NextRecordType, NoneIsNoState DEF IInv
<1> HIDE DEF record
<1>6. answer \in Replies /\ answer.value = record
  BY <1>2, <1>5 DEF Replies
<1> HIDE DEF answer
<1>7. FrameTypes'
  BY <1>1, <1>6 DEF IInv, ManagerInv, FrameTypes
<1>8. FramesMatch'
  BY <1>1, <1>5, <1>6 DEF IInv, ManagerInv, FrameTypes, FramesMatch, KeyOf, SharedUnder, state_key
<1>9. AccountsAddUp'
  BY <1>1 DEF IInv, ManagerInv, FrameTypes, AccountsAddUp
<1> QED BY <1>1, <1>4, <1>7, <1>8, <1>9, ResultsUnchanged DEF IInv, ManagerInv

\* The published state is kept locally and returned.
LEMMA PublishReturnIInv ==
  ASSUME IInv, NEW m \in Managers, PublishReturn(m)
  PROVE  IInv'
<1> DEFINE record == reply[m].value
           decision == IF rejected[m] THEN "remote_rejected" ELSE "recompute"
<1>1. /\ pc[m] = "remember" /\ _remember(m, KeyOf(m), record) /\ Count(m, "recomputes")
      /\ Return(m, Access(request[m], decision, KeyOf(m), payload[m], record.version))
      /\ DropReply(m) /\ UNCHANGED storeVars
  BY DEF PublishReturn
<1>2. /\ record \in Records /\ record.payload = payload[m] /\ payload[m] = request[m]
      /\ config[m].policy # "reset"
  BY <1>1 DEF IInv, ManagerInv, FrameTypes, FramesMatch, Replies
<1>3. SharedUnder(KeyOf(m), record.payload)
  BY <1>1, <1>2, KeyOfType, PublishedKeyIsOwn DEF IInv, ManagerInv, KeyOf
<1>4. OnlyReplyOf(m)
  BY <1>1, ReplyDropped DEF IInv, ManagerInv
<1>5. decision \in {"remote_hit", "recompute", "remote_rejected"}
  OBVIOUS
<1> HIDE DEF record, decision
<1>6. ManagerInv'
  BY <1>1, <1>2, <1>3, <1>4, <1>5, RememberReturnIInv DEF IInv
<1> QED BY <1>1, <1>6, StoreUnchanged DEF IInv

\* The ways in which an acquire raises: in compute(), because the store
\* refuses the state, because a call fails, or because it times out and may
\* still be carried out.
LEMMA RaisingIInv ==
  ASSUME IInv, NEW m \in Managers,
         \/ ComputeRaises(m) \/ PublishRefused(m) \/ CallFails(m)
         \/ FetchAbandoned(m) \/ PublishAbandoned(m)
  PROVE  IInv'
<1>1. pc[m] # "idle" /\ Raise(m)
  BY DEF ComputeRaises, PublishRefused, CallFails, FetchAbandoned, PublishAbandoned
<1>2. OnlyReplyOf(m)
  <2>1. CASE PublishRefused(m)
    <3> DEFINE answer == [kind |-> "ValueError", key |-> KeyOf(m), value |-> None]
    <3>1. reply' = [reply EXCEPT ![m] = answer]
      BY <2>1 DEF PublishRefused, Store!PutInvalid, Store!Answer
    <3>2. answer \in Replies
      BY <1>1, KeyOfType DEF IInv, ManagerInv, Replies
    <3> HIDE DEF answer
    <3> QED BY <3>1, <3>2 DEF IInv, ManagerInv, FrameTypes, OnlyReplyOf
  <2>2. CASE ~ PublishRefused(m)
    BY <2>2, ReplyDropped DEF ComputeRaises, CallFails, FetchAbandoned, PublishAbandoned,
                                  IInv, ManagerInv
  <2> QED BY <2>1, <2>2
<1>3. ManagerInv'
  BY <1>1, <1>2, RaiseIInv DEF IInv
<1>4. StoreInv'
  <2>1. CASE PublishAbandoned(m)
    <3> DEFINE put == [key |-> KeyOf(m), payload |-> payload[m], call |-> <<m, acquires[m]>>]
    <3>1. late' = late \cup {put} /\ UNCHANGED <<records, order, evictions, late_gets>>
      BY <2>1 DEF PublishAbandoned
    <3>2. /\ put.key \in StateKeys /\ put.payload \in Requests
          /\ SharedUnder(put.key, put.payload)
      BY <2>1, KeyOfType, PublishedKeyIsOwn DEF PublishAbandoned, IInv, ManagerInv, FrameTypes,
            FramesMatch, KeyOf
    <3> HIDE DEF put
    <3> QED BY <3>1, <3>2 DEF IInv, StoreInv, SharedUnder, state_key
  <2>2. CASE FetchAbandoned(m)
    BY <2>2, KeyOfType DEF FetchAbandoned, IInv, ManagerInv, StoreInv, SharedUnder, state_key
  <2>3. CASE ~ FetchAbandoned(m) /\ ~ PublishAbandoned(m)
    BY <2>3, StoreUnchanged DEF ComputeRaises, PublishRefused, CallFails, Store!PutInvalid,
                                Store!storeVars, storeVars, lateVars, IInv
  <2> QED BY <2>1, <2>2, <2>3
<1> QED BY <1>3, <1>4 DEF IInv

\* The local cache is emptied.
LEMMA clear_localIInv ==
  ASSUME IInv, NEW m \in Managers, clear_local(m)
  PROVE  IInv'
<1>1. /\ local' = [local EXCEPT ![m] = [k \in StateKeys |-> None]]
      /\ local_order' = [local_order EXCEPT ![m] = <<>>]
      /\ result' = [result EXCEPT ![m] = NoResult]
      /\ UNCHANGED <<storeVars, reply, config, stats, frameVars, acquires, raised>>
  BY DEF clear_local
<1>2. CacheInv'
  <2>1. LocalCacheConsistent'
    <3>1. ASSUME NEW n \in Managers
          PROVE  /\ IsInjective(local_order'[n])
                 /\ Range(local_order'[n]) = {k \in StateKeys : local'[n][k] # None}
                 /\ Len(local_order'[n]) <= MaxLocal
      <4>1. CASE n = m
        <5>1. local_order'[n] = <<>> /\ \A k \in StateKeys : local'[n][k] = None
          BY <1>1, <4>1 DEF IInv, ManagerInv, CacheInv
        <5> QED BY <5>1, ManagerAssumption DEF IsInjective, Range
      <4>2. CASE n # m
        BY <1>1, <4>2 DEF IInv, ManagerInv, CacheInv, LocalCacheConsistent
      <4> QED BY <4>1, <4>2
    <3> QED BY <3>1 DEF LocalCacheConsistent
  <2> QED BY <1>1, <2>1 DEF IInv, ManagerInv, CacheInv, SharedUnder, state_key
<1>3. FrameTypes'
  BY <1>1 DEF IInv, ManagerInv, FrameTypes, frameVars, NoResult, Results
<1>4. FramesMatch'
  BY <1>1 DEF IInv, ManagerInv, FramesMatch, frameVars, KeyOf, SharedUnder, state_key
<1>5. AccountsAddUp'
  BY <1>1 DEF IInv, ManagerInv, AccountsAddUp, frameVars
<1>6. ReuseRule' /\ ServedStateIsHeld'
  BY <1>1 DEF IInv, ManagerInv, CacheInv, FrameTypes, ReuseRule, ServedStateIsHeld, NoResult,
              Reusable
<1> QED BY <1>1, <1>2, <1>3, <1>4, <1>5, <1>6, StoreUnchanged DEF IInv, ManagerInv

\* What happens to the store leaves the managers alone.
LEMMA ManagersUnchanged ==
  ManagerInv /\ UNCHANGED managerVars => ManagerInv'
<1> SUFFICES ASSUME ManagerInv, UNCHANGED managerVars PROVE ManagerInv'
  OBVIOUS
<1> USE DEF managerVars, frameVars
<1>1. FrameTypes'
  BY DEF ManagerInv, FrameTypes
<1>2. FramesMatch'
  BY DEF ManagerInv, FramesMatch, KeyOf, SharedUnder, state_key
<1>3. AccountsAddUp'
  BY DEF ManagerInv, AccountsAddUp
<1> QED BY <1>1, <1>2, <1>3, ResultsUnchanged DEF ManagerInv

\* The store's surroundings: a restart, a late call, somebody else's delete.
LEMMA SurroundingsIInv ==
  ASSUME IInv,
         \/ StoreRestart
         \/ \E put \in late : LatePut(put)
         \/ \E get \in late_gets : LateGet(get)
         \/ \E key \in StateKeys : OutsideDelete(key)
  PROVE  IInv'
<1>1. UNCHANGED managerVars
  BY DEF StoreRestart, LatePut, LateGet, OutsideDelete
<1>2. ASSUME StoreRestart PROVE StoreInv'
  BY <1>2 DEF StoreRestart, StoreInv, IsInjective
<1>3. ASSUME NEW put \in late, LatePut(put) PROVE StoreInv'
  BY <1>3, WriteStore DEF LatePut, IInv, StoreInv
<1>4. ASSUME NEW key \in StateKeys, OutsideDelete(key) PROVE StoreInv'
  BY <1>4, EraseStore DEF OutsideDelete, IInv
<1>5. ASSUME NEW get \in late_gets, LateGet(get) PROVE StoreInv'
  <2>1. get.key \in StateKeys
    BY DEF IInv, StoreInv
  <2> QED BY <1>5, <2>1, TouchStore DEF LateGet, IInv
<1> QED BY <1>1, <1>2, <1>3, <1>4, <1>5, ManagersUnchanged DEF IInv

---------------------------------------------------------------------------
(***************************************************************************)
(* The invariant holds in every reachable state.                           *)
(***************************************************************************)

\* The managers start with empty caches before an empty store.
LEMMA InitIInv == Init => IInv
<1> SUFFICES ASSUME Init PROVE IInv
  OBVIOUS
<1>1. StoreInv
  BY DEF Init, Store!Init, StoreInv, IsInjective
<1>2. CacheInv
  <2>1. \A m \in Managers : local_order[m] = <<>> /\ \A k \in StateKeys : local[m][k] = None
    BY DEF Init
  <2>2. LocalCacheConsistent
    BY <2>1, ManagerAssumption DEF LocalCacheConsistent, IsInjective, Range
  <2>3. local_order \in [Managers -> Seq(StateKeys)]
    BY DEF Init
  <2>4. local \in [Managers -> [StateKeys -> Records \cup {None}]]
    BY DEF Init
  <2> QED BY <2>1, <2>2, <2>3, <2>4 DEF CacheInv
<1>3. FrameTypes
  <2>1. Store!NoReply \in Replies
    BY DEF Store!NoReply, Replies
  <2>2. reply \in [Managers -> Replies]
    BY <2>1 DEF Init, Store!Init
  <2>3. stats \in [Managers -> [DOMAIN ZeroStats -> Nat]]
    <3>1. ZeroStats \in [DOMAIN ZeroStats -> Nat]
      BY DEF ZeroStats
    <3> QED BY <3>1 DEF Init
  <2>4. result \in [Managers -> Results]
    BY DEF Init, NoResult, Results
  <2> QED BY <2>2, <2>3, <2>4 DEF Init, FrameTypes
<1>4. FramesMatch
  BY DEF Init, FramesMatch
<1>5. AccountsAddUp
  BY DEF Init, AccountsAddUp, ZeroStats
<1>6. ReuseRule /\ ServedStateIsHeld
  BY DEF Init, ReuseRule, ServedStateIsHeld, NoResult
<1> QED BY <1>1, <1>2, <1>3, <1>4, <1>5, <1>6 DEF IInv, ManagerInv

\* The rest of an acquire under way.
LEMMA ProceedIInv ==
  ASSUME IInv, NEW m \in Managers, Proceed(m)
  PROVE  IInv'
BY FetchIInv, AdmitHitIInv, AdmitOtherIInv, ComputeResetIInv, ComputeUnsharedIInv,
   ComputeSharedIInv, PublishIInv, PublishReturnIInv, RaisingIInv DEF Proceed

\* The start of an acquire.
LEMMA AcquireIInv ==
  ASSUME IInv, NEW m \in Managers, NEW q \in Requests,
         AcquireReset(m, q) \/ AcquireLocalHit(m, q) \/ AcquireMiss(m, q)
  PROVE  IInv'
<1>1. CASE AcquireReset(m, q)
  BY <1>1, StartFrameIInv DEF AcquireReset
<1>2. CASE AcquireLocalHit(m, q)
  BY <1>2, AcquireLocalHitIInv
<1>3. CASE AcquireMiss(m, q)
  <2> DEFINE place == IF config[m].remote_store THEN "fetch" ELSE "compute"
  <2>1. /\ config[m].policy # "reset" /\ Enter(m) /\ StartFrame(m, q, place)
        /\ place \in {"fetch", "compute"}
    BY <1>3 DEF AcquireMiss
  <2> HIDE DEF place
  <2> QED BY <2>1, StartFrameIInv
<1> QED BY <1>1, <1>2, <1>3

\* Every step preserves the invariant.
LEMMA NextIInv == IInv /\ [Next]_vars => IInv'
<1> SUFFICES ASSUME IInv, [Next]_vars PROVE IInv'
  OBVIOUS
<1>1. ASSUME NEW m \in Managers, NEW q \in Requests,
             AcquireReset(m, q) \/ AcquireLocalHit(m, q) \/ AcquireMiss(m, q)
      PROVE  IInv'
  BY <1>1, AcquireIInv
<1>2. ASSUME NEW m \in Managers, Proceed(m) PROVE IInv'
  BY <1>2, ProceedIInv
<1>3. ASSUME NEW m \in Managers, clear_local(m) PROVE IInv'
  BY <1>3, clear_localIInv
<1>4. ASSUME \/ StoreRestart
             \/ \E put \in late : LatePut(put)
             \/ \E get \in late_gets : LateGet(get)
             \/ \E key \in StateKeys : OutsideDelete(key)
      PROVE  IInv'
  BY <1>4, SurroundingsIInv
<1>5. CASE UNCHANGED vars
  BY <1>5, StoreUnchanged, ManagersUnchanged DEF IInv, vars, managerVars
<1> QED BY <1>1, <1>2, <1>3, <1>4, <1>5 DEF Next

\* The inductive invariant holds in every reachable state.
THEOREM Invariance == Spec => []IInv
<1> QED BY InitIInv, NextIInv, PTL DEF Spec

---------------------------------------------------------------------------
(***************************************************************************)
(* The results.                                                            *)
(***************************************************************************)

\* Type correctness: the managers and the store always hold what the code's
\* annotations say, and an acquire has a request and a computed state just
\* when it should.
THEOREM TypeCorrectness == Spec => []TypeOK
<1>1. IInv => TypeOK
  BY DEF IInv, StoreInv, ManagerInv, CacheInv, FrameTypes, TypeOK
<1> QED BY <1>1, Invariance, PTL

\* _local and _local_order are always one cache of at most max_local_entries
\* entries.
THEOREM CacheIsConsistent == Spec => []LocalCacheConsistent
<1>1. IInv => LocalCacheConsistent
  BY DEF IInv, ManagerInv, CacheInv
<1> QED BY <1>1, Invariance, PTL

\* No manager ever hands out a state that its policy does not allow for the
\* request, whatever managers of other policies do to the shared store, and
\* however late, often or incompletely they do it.
THEOREM OnlyReusableStates == Spec => []ReuseRule
<1>1. IInv => ReuseRule
  BY DEF IInv, ManagerInv
<1> QED BY <1>1, Invariance, PTL

\* Every acquire is counted once, unless it raised.
THEOREM StatsAddUp == Spec => []AccountsAddUp
<1>1. IInv => AccountsAddUp
  BY DEF IInv, ManagerInv
<1> QED BY <1>1, Invariance, PTL

\* A returned state stays the newest local entry until the next acquire.
THEOREM ServedIsHeld == Spec => []ServedStateIsHeld
<1>1. IInv => ServedStateIsHeld
  BY DEF IInv, ManagerInv
<1> QED BY <1>1, Invariance, PTL

\* No state is held under the key of a request: none could be shared under it.
LEMMA NoTrace == IInv => ResetLeavesNoTrace
<1> SUFFICES ASSUME IInv, NEW q \in Requests
             PROVE  /\ records[state_key("reset", q)] = None
                    /\ \A m \in Managers : local[m][state_key("reset", q)] = None
  BY DEF ResetLeavesNoTrace
<1> DEFINE key == state_key("reset", q)
<1>1. key \in StateKeys
  BY KeyType DEF Policies
<1>2. \A state \in Requests : ~ SharedUnder(key, state)
  BY RequestKeyIsPrivate
<1> HIDE DEF key
<1>3. records[key] = None
  BY <1>1, <1>2 DEF IInv, StoreInv, Records
<1>4. ASSUME NEW m \in Managers PROVE local[m][key] = None
  <2>1. local[m][key] \in Records \cup {None}
    BY <1>1 DEF IInv, ManagerInv, CacheInv
  <2> QED BY <1>1, <1>2, <2>1 DEF IInv, ManagerInv, CacheInv, Records
<1> QED BY <1>3, <1>4 DEF key

\* A request-scoped state never reaches the store or a local cache.
THEOREM ResetIsPrivate == Spec => []ResetLeavesNoTrace
<1> QED BY NoTrace, Invariance, PTL
=============================================================================
