---------------------- MODULE MemoryStateStoreProofs ----------------------
(***************************************************************************)
(* Proofs about MemoryStateStore, for every set of keys, threads, payloads *)
(* and every store size.                                                   *)
(***************************************************************************)
EXTENDS MemoryStateStoreRefinement, RecencyOrderProofs, FunctionTheorems, FiniteSetTheorems

---------------------------------------------------------------------------
(***************************************************************************)
(* The OrderedDict operators of StateRecords: what moving a key to the end *)
(* does to an iteration order, and how the total number of stored bytes    *)
(* changes when one entry changes.                                         *)
(***************************************************************************)
\* Assigning a key and moving it to the end leaves it last, adds it if it is
\* new, and disturbs no other key.
LEMMA MoveToEndProperties ==
  ASSUME NEW S, NEW s \in Seq(S), IsInjective(s), NEW e \in S
  PROVE  /\ MoveToEnd(s, e) \in Seq(S)
         /\ IsInjective(MoveToEnd(s, e))
         /\ Range(MoveToEnd(s, e)) = Range(s) \cup {e}
         /\ MoveToEnd(s, e) # <<>>
         /\ Last(MoveToEnd(s, e)) = e
BY ToEndProperties DEF MoveToEnd

\* The payload length of a table entry is a natural number.
LEMMA SizeOfType ==
  ASSUME NEW r \in StateRecord \cup {None}
  PROVE  SizeOf(r) \in Nat
BY StoreAssumption, NoneIsNoRecord DEF SizeOf, StateRecord

\* The bytes of a table, split into those under one key and the others.
LEMMA TotalBytesSplit ==
  ASSUME NEW table \in RecordTables, NEW k \in Keys, SizeOf(table[k]) <= MaxBytes
  PROVE  LET others == {b \in StoredBytes(table) : b[1] # k}
         IN  /\ IsFiniteSet(others) /\ Cardinality(others) \in Nat
             /\ TotalBytes(table) = Cardinality(others) + SizeOf(table[k])
<1> DEFINE n == SizeOf(table[k])
           others == {b \in StoredBytes(table) : b[1] # k}
           own == {k} \X (1..n)
<1>1. n \in Nat
  BY SizeOfType DEF RecordTables
<1>2. IsFiniteSet(StoredBytes(table))
  <2>1. IsFiniteSet(Keys) /\ IsFiniteSet(1..MaxBytes)
    BY StoreAssumption, FS_Interval
  <2>2. IsFiniteSet(Keys \X (1..MaxBytes))
    BY <2>1, FS_Product
  <2>3. StoredBytes(table) \in SUBSET (Keys \X (1..MaxBytes))
    BY DEF StoredBytes
  <2> QED BY <2>2, <2>3, FS_Subset
<1>3. IsFiniteSet(others) /\ Cardinality(others) \in Nat
  <2>1. others \in SUBSET StoredBytes(table)
    OBVIOUS
  <2> QED BY <1>2, <2>1, FS_Subset, FS_CardinalityType
<1>4. IsFiniteSet(own) /\ Cardinality(own) = n
  <2>1. IsFiniteSet({k}) /\ Cardinality({k}) = 1
    BY FS_Singleton
  <2>2. IsFiniteSet(1..n) /\ Cardinality(1..n) = n
    <3>1. 1 \in Int /\ n \in Int
      BY <1>1
    <3>2. IsFiniteSet(1..n) /\ Cardinality(1..n) = IF 1 > n THEN 0 ELSE n - 1 + 1
      BY <3>1, FS_Interval
    <3> QED BY <1>1, <3>2
  <2> HIDE DEF n
  <2>3. /\ IsFiniteSet({k} \X (1..n))
        /\ Cardinality({k} \X (1..n)) = Cardinality({k}) * Cardinality(1..n)
    BY <2>1, <2>2, FS_Product
  <2> QED BY <1>1, <2>1, <2>2, <2>3
<1>5. StoredBytes(table) = others \cup own
  <2> HIDE DEF n
  <2>1. ASSUME NEW b \in StoredBytes(table) PROVE b \in others \cup own
    <3>1. b \in Keys \X (1..MaxBytes) /\ b[2] <= SizeOf(table[b[1]])
      BY DEF StoredBytes
    <3>2. b = <<b[1], b[2]>> /\ b[2] \in 1..MaxBytes
      BY <3>1
    <3>3. b[1] = k => b[2] \in 1..n
      BY <1>1, <3>1, <3>2 DEF n
    <3> QED BY <3>2, <3>3
  <2>2. ASSUME NEW b \in own PROVE b \in StoredBytes(table)
    <3>1. b = <<k, b[2]>> /\ b[1] = k /\ b[2] \in 1..n
      BY <2>2
    <3>2. b[2] \in 1..MaxBytes
      BY <1>1, <3>1, StoreAssumption DEF n
    <3>3. b[2] <= SizeOf(table[b[1]])
      BY <1>1, <3>1 DEF n
    <3> QED BY <3>1, <3>2, <3>3 DEF StoredBytes
  <2> QED BY <2>1, <2>2
<1>6. others \cap own = {}
  OBVIOUS
<1>7. Cardinality(StoredBytes(table)) = Cardinality(others) + Cardinality(own) - 0
  <2> HIDE DEF others, own
  <2> QED BY <1>3, <1>4, <1>5, <1>6, FS_Union, FS_EmptySet
<1> HIDE DEF n, others, own
<1>8. TotalBytes(table) = Cardinality(others) + n
  BY <1>1, <1>3, <1>4, <1>7 DEF TotalBytes
<1> QED BY <1>3, <1>8 DEF others, n

\* Replacing one entry changes the total by the difference of the two
\* payload lengths: the arithmetic put, delete and eviction do on _bytes.
LEMMA TotalBytesExcept ==
  ASSUME NEW table \in RecordTables, NEW k \in Keys, NEW r \in StateRecord \cup {None},
         SizeOf(table[k]) <= MaxBytes, SizeOf(r) <= MaxBytes
  PROVE  /\ TotalBytes(table) \in Nat
         /\ TotalBytes([table EXCEPT ![k] = r]) =
                TotalBytes(table) - SizeOf(table[k]) + SizeOf(r)
<1> DEFINE next == [table EXCEPT ![k] = r]
           others == {b \in StoredBytes(table) : b[1] # k}
<1>1. next \in RecordTables /\ next[k] = r /\ \A j \in Keys : j # k => next[j] = table[j]
  BY DEF RecordTables
<1> HIDE DEF next
<1>2. {b \in StoredBytes(next) : b[1] # k} = others
  BY <1>1 DEF StoredBytes
<1>3. Cardinality(others) \in Nat /\ TotalBytes(table) = Cardinality(others) + SizeOf(table[k])
  BY TotalBytesSplit
<1>4. TotalBytes(next) = Cardinality(others) + SizeOf(r)
  <2>1. SizeOf(next[k]) <= MaxBytes
    BY <1>1
  <2> HIDE DEF others
  <2> QED BY <1>1, <1>2, <2>1, TotalBytesSplit
<1>5. SizeOf(r) \in Nat /\ SizeOf(table[k]) \in Nat
  BY SizeOfType DEF RecordTables
<1> HIDE DEF others
<1> QED BY <1>3, <1>4, <1>5 DEF next

\* An empty dictionary holds no bytes.
LEMMA TotalBytesEmpty ==
  TotalBytes([k \in Keys |-> None]) = 0
<1>1. StoredBytes([k \in Keys |-> None]) = {}
  BY DEF StoredBytes, SizeOf
<1> QED BY <1>1, FS_EmptySet DEF TotalBytes

\* A dictionary with one entry holds that entry's bytes.
LEMMA TotalBytesSingle ==
  ASSUME NEW table \in RecordTables, NEW k \in Keys,
         SizeOf(table[k]) <= MaxBytes, \A j \in Keys \ {k} : table[j] = None
  PROVE  TotalBytes(table) = SizeOf(table[k])
<1> DEFINE others == {b \in StoredBytes(table) : b[1] # k}
<1>1. others = {}
  <2>1. ASSUME NEW b \in others PROVE FALSE
    <3>1. b \in Keys \X (1..MaxBytes) /\ b[2] <= SizeOf(table[b[1]]) /\ b[1] # k
      BY <2>1 DEF StoredBytes
    <3>2. b[1] \in Keys \ {k} /\ b[2] \in 1..MaxBytes
      BY <3>1
    <3>3. SizeOf(table[b[1]]) = 0
      BY <3>2 DEF SizeOf
    <3> QED BY <3>1, <3>2, <3>3, StoreAssumption
  <2> QED BY <2>1
<1>2. TotalBytes(table) = Cardinality(others) + SizeOf(table[k])
  BY TotalBytesSplit
<1>3. SizeOf(table[k]) \in Nat
  BY SizeOfType DEF RecordTables
<1>4. Cardinality(others) = 0
  BY <1>1, FS_EmptySet
<1> HIDE DEF others
<1> QED BY <1>2, <1>3, <1>4

---------------------------------------------------------------------------
(***************************************************************************)
(* The inductive invariant.                                                *)
(***************************************************************************)

\* The OrderedDict: its order lists exactly the keys of its table, once each.
OrderIsResident == IsInjective(order) /\ Range(order) = Resident(records)

\* The lock is held exactly by the thread inside the critical section.
LockHolder == \A t \in Threads : lock = t <=> pc[t] \in {"body", "evict"}

\* A call under way has passed put's checks, and only a put evicts.
CallsUnderWay ==
    \A t \in Threads : pc[t] # "idle" =>
        /\ call[t] \in Calls
        /\ ~Invalid(call[t])
        /\ pc[t] = "evict" => call[t].op = "put"

\* Nothing changed under the lock between the lookup and its use.
LookupIsCurrent ==
    \A t \in Threads : pc[t] = "body" => previous[t] = Lookup(records, call[t].key)

\* _bytes counts the stored payloads at every step, also while evicting.
BytesCounted ==
    /\ bytes = TotalBytes(records)
    /\ \A k \in Keys : SizeOf(records[k]) <= MaxBytes

\* Only a put that is still evicting leaves the table overfull.
RoomWhenSettled == (\A t \in Threads : pc[t] # "evict") => bytes <= MaxBytes

\* The record a put has written is there, and most recently used.
NewestIsLast ==
    \A t \in Threads : pc[t] = "evict" =>
        /\ records[call[t].key] =
               [version |-> VersionOf(previous[t]) + 1, payload |-> call[t].payload]
        /\ order # <<>>
        /\ Last(order) = call[t].key

IInv ==
    /\ TypeOK /\ OrderIsResident /\ LockHolder /\ CallsUnderWay
    /\ LookupIsCurrent /\ BytesCounted /\ RoomWhenSettled /\ NewestIsLast

---------------------------------------------------------------------------
(***************************************************************************)
(* Facts about the helpers of the actions.                                 *)
(***************************************************************************)

\* A key of a put or of a found record is one of Keys, and a put under way
\* carries a payload that fits the store.
LEMMA PutArguments ==
  ASSUME NEW c \in Calls, ~Invalid(c), c.op = "put"
  PROVE  c.key \in Keys /\ c.payload \in Payloads /\ Size[c.payload] <= MaxBytes
BY StoreAssumption DEF Calls, Invalid, StringKeys

\* Whatever a lookup finds is an entry of the table.
LEMMA LookupType ==
  ASSUME NEW table \in RecordTables, NEW key
  PROVE  /\ Lookup(table, key) \in StateRecord \cup {None}
         /\ Lookup(table, key) # None => key \in Keys /\ Lookup(table, key) = table[key]
         /\ key \in Keys => Lookup(table, key) = table[key]
BY DEF Lookup, RecordTables

\* The record put builds, with the next version of what it looked up.
LEMMA NewRecordType ==
  ASSUME NEW r \in StateRecord \cup {None}, NEW p \in Payloads
  PROVE  /\ VersionOf(r) \in Nat
         /\ [version |-> VersionOf(r) + 1, payload |-> p] \in StateRecord
         /\ [version |-> VersionOf(r) + 1, payload |-> p] # None
         /\ SizeOf([version |-> VersionOf(r) + 1, payload |-> p]) = Size[p]
<1>1. VersionOf(r) \in Nat
  BY DEF VersionOf, StateRecord
<1> DEFINE new == [version |-> VersionOf(r) + 1, payload |-> p]
<1>2. new \in StateRecord
  BY <1>1 DEF StateRecord
<1>3. new # None
  BY <1>2, NoneIsNoRecord
<1>4. SizeOf(new) = Size[p]
  BY <1>3 DEF SizeOf
<1> QED BY <1>1, <1>2, <1>3, <1>4

\* The program starts in a state of the invariant.
LEMMA InitIInv == Init => IInv
<1> SUFFICES ASSUME Init PROVE IInv
  OBVIOUS
<1>1. TypeOK
  BY DEF Init, TypeOK, RecordTables, NoReply, Replies, StringKeys
<1>2. OrderIsResident
  BY DEF Init, OrderIsResident, IsInjective, Range, Resident
<1>3. LockHolder
  BY ThreadAssumption DEF Init, LockHolder
<1>4. CallsUnderWay /\ LookupIsCurrent /\ NewestIsLast
  BY DEF Init, CallsUnderWay, LookupIsCurrent, NewestIsLast
<1>5. BytesCounted
  BY TotalBytesEmpty, StoreAssumption DEF Init, BytesCounted, SizeOf
<1>6. RoomWhenSettled
  BY StoreAssumption DEF Init, RoomWhenSettled
<1> QED BY <1>1, <1>2, <1>3, <1>4, <1>5, <1>6 DEF IInv

\* Leaving the critical section with the dictionary unchanged (a conflict, a
\* miss, a statistics request) preserves everything but the last two parts.
LEMMA LeaveUnchanged ==
  ASSUME IInv, NEW t \in Threads, pc[t] \in {"body", "evict"},
         NEW kind, NEW value,
         [kind |-> kind, key |-> call[t].key, value |-> value] \in Replies,
         Leave(t, kind, value), UNCHANGED dictVars,
         pc[t] = "evict" => bytes <= MaxBytes
  PROVE  IInv'
<1> USE DEF Leave, dictVars, IInv
<1>1. TypeOK'
  BY DEF TypeOK, Answer
<1>2. OrderIsResident' /\ BytesCounted'
  BY DEF OrderIsResident, BytesCounted, Resident
<1>3. LockHolder'
  BY ThreadAssumption DEF LockHolder, TypeOK
<1>4. CallsUnderWay'
  BY DEF CallsUnderWay, TypeOK
<1>5. LookupIsCurrent' /\ NewestIsLast'
  BY DEF LookupIsCurrent, NewestIsLast, LockHolder, TypeOK
<1>6. RoomWhenSettled'
  BY DEF RoomWhenSettled, LockHolder, TypeOK
<1> QED BY <1>1, <1>2, <1>3, <1>4, <1>5, <1>6

---------------------------------------------------------------------------
(***************************************************************************)
(* Every action preserves the invariant.                                   *)
(***************************************************************************)

\* Starting a call, or refusing it at once, touches no shared state.
LEMMA BeginIInv ==
  ASSUME IInv, NEW t \in Threads, NEW c \in Calls, Begin(t, c) \/ BeginInvalid(t, c)
  PROVE  IInv'
<1> USE DEF IInv, dictVars
<1>1. puts' \in Nat
  BY DEF Begin, BeginInvalid, CountPut, TypeOK
<1>2. CASE Begin(t, c)
  <2> USE <1>2 DEF Begin
  <2>1. TypeOK'
    BY <1>1 DEF TypeOK, NoReply, Replies, StringKeys
  <2>2. OrderIsResident' /\ BytesCounted' /\ RoomWhenSettled'
    BY DEF OrderIsResident, BytesCounted, Resident, RoomWhenSettled, TypeOK
  <2>3. LockHolder' /\ CallsUnderWay'
    BY DEF LockHolder, CallsUnderWay, TypeOK
  <2>4. LookupIsCurrent' /\ NewestIsLast'
    BY DEF LookupIsCurrent, NewestIsLast, TypeOK
  <2> QED BY <2>1, <2>2, <2>3, <2>4
<1>3. CASE BeginInvalid(t, c)
  <2> USE <1>3 DEF BeginInvalid
  <2>1. TypeOK'
    <3>1. c.key \in StringKeys
      BY DEF Calls, Invalid, StringKeys
    <3> QED BY <1>1, <3>1 DEF TypeOK, Replies
  <2>2. OrderIsResident' /\ BytesCounted' /\ RoomWhenSettled'
    BY DEF OrderIsResident, BytesCounted, Resident, RoomWhenSettled
  <2>3. LockHolder' /\ CallsUnderWay' /\ LookupIsCurrent' /\ NewestIsLast'
    BY DEF LockHolder, CallsUnderWay, LookupIsCurrent, NewestIsLast
  <2> QED BY <2>1, <2>2, <2>3
<1> QED BY <1>2, <1>3

\* Taking the lock: no other thread holds it, so the lookup is current.
LEMMA EnterIInv ==
  ASSUME IInv, NEW t \in Threads, Enter(t)
  PROVE  IInv'
<1> USE DEF IInv, dictVars, Enter
<1>1. Lookup(records, call[t].key) \in StateRecord \cup {None}
  BY LookupType DEF TypeOK
<1>2. TypeOK'
  BY <1>1 DEF TypeOK
<1>3. OrderIsResident' /\ BytesCounted' /\ RoomWhenSettled'
  BY DEF OrderIsResident, BytesCounted, Resident, RoomWhenSettled, TypeOK
<1>4. LockHolder'
  BY ThreadAssumption DEF LockHolder, TypeOK
<1>5. CallsUnderWay' /\ LookupIsCurrent'
  BY DEF CallsUnderWay, LookupIsCurrent, TypeOK
<1>6. NewestIsLast'
  BY DEF NewestIsLast, TypeOK
<1> QED BY <1>2, <1>3, <1>4, <1>5, <1>6

\* get: a found key moves to the end, nothing else changes.
LEMMA GetReturnIInv ==
  ASSUME IInv, NEW t \in Threads, GetReturn(t)
  PROVE  IInv'
<1> USE DEF IInv
<1> DEFINE key == call[t].key
<1>1. /\ pc[t] = "body" /\ lock = t /\ call[t] \in Calls
      /\ previous[t] = Lookup(records, key) /\ previous[t] \in StateRecord \cup {None}
  BY DEF GetReturn, InBody, LockHolder, CallsUnderWay, LookupIsCurrent, TypeOK
<1>2. order' \in Seq(Keys) /\ IsInjective(order') /\ Range(order') = Range(order)
  <2>1. CASE previous[t] = None
    BY <2>1 DEF GetReturn, OrderIsResident, TypeOK
  <2>2. CASE previous[t] # None
    <3>1. key \in Keys /\ key \in Range(order)
      BY <1>1, <2>2, LookupType DEF TypeOK, OrderIsResident, Resident
    <3>2. order' = MoveToEnd(order, key)
      BY <2>2 DEF GetReturn
    <3>3. order \in Seq(Keys) /\ IsInjective(order)
      BY DEF OrderIsResident, TypeOK
    <3> HIDE DEF key
    <3>4. /\ MoveToEnd(order, key) \in Seq(Keys)
          /\ IsInjective(MoveToEnd(order, key))
          /\ Range(MoveToEnd(order, key)) = Range(order) \cup {key}
      BY <3>1, <3>3, MoveToEndProperties
    <3>5. Range(order) \cup {key} = Range(order)
      BY <3>1
    <3> QED BY <3>2, <3>4, <3>5
  <2> QED BY <2>1, <2>2
<1>3. TypeOK'
  <2>1. key \in StringKeys
    BY <1>1 DEF Calls, StringKeys
  <2>2. [kind |-> "returned", key |-> key, value |-> previous[t]] \in Replies
    BY <1>1, <2>1 DEF Replies
  <2> QED BY <1>2, <2>2 DEF TypeOK, GetReturn, Leave, Answer
<1>4. OrderIsResident' /\ BytesCounted'
  BY <1>2 DEF OrderIsResident, BytesCounted, Resident, GetReturn
<1>5. LockHolder' /\ CallsUnderWay'
  BY <1>1, ThreadAssumption DEF LockHolder, CallsUnderWay, TypeOK, GetReturn, Leave
<1>6. LookupIsCurrent' /\ NewestIsLast'
  BY <1>1 DEF LookupIsCurrent, NewestIsLast, LockHolder, TypeOK, GetReturn, Leave
<1>7. RoomWhenSettled'
  BY <1>1 DEF RoomWhenSettled, LockHolder, TypeOK, GetReturn, Leave
<1> QED BY <1>3, <1>4, <1>5, <1>6, <1>7

\* put stores the record: _bytes follows the replaced and the new payload.
LEMMA PutWriteIInv ==
  ASSUME IInv, NEW t \in Threads, PutWrite(t)
  PROVE  IInv'
<1> USE DEF IInv
<1> DEFINE key == call[t].key
           new == [version |-> VersionOf(previous[t]) + 1, payload |-> call[t].payload]
<1>1. /\ pc[t] = "body" /\ lock = t
      /\ call[t] \in Calls /\ ~Invalid(call[t]) /\ call[t].op = "put"
      /\ previous[t] = Lookup(records, key) /\ previous[t] \in StateRecord \cup {None}
  BY DEF PutWrite, InBody, LockHolder, CallsUnderWay, LookupIsCurrent, TypeOK
<1>2. /\ key \in Keys /\ previous[t] = records[key]
      /\ call[t].payload \in Payloads /\ Size[call[t].payload] <= MaxBytes
  BY <1>1, PutArguments, LookupType DEF TypeOK
<1>3. new \in StateRecord /\ new # None /\ SizeOf(new) = Size[call[t].payload]
  BY <1>1, <1>2, NewRecordType
<1>4. /\ records' = [records EXCEPT ![key] = new]
      /\ order' = MoveToEnd(order, key)
      /\ bytes' = bytes - SizeOf(records[key]) + SizeOf(new)
      /\ pc' = [pc EXCEPT ![t] = "evict"]
      /\ UNCHANGED <<evictions, lock, call, previous, reply, puts>>
  BY <1>2, <1>3 DEF PutWrite
<1>5. records \in RecordTables /\ order \in Seq(Keys) /\ IsInjective(order)
  BY DEF TypeOK, OrderIsResident
<1> HIDE DEF key, new
<1>6. /\ records' \in RecordTables
      /\ records'[key] = new /\ \A k \in Keys : k # key => records'[k] = records[k]
  BY <1>2, <1>3, <1>4, <1>5 DEF RecordTables
<1>7. /\ order' \in Seq(Keys) /\ IsInjective(order')
      /\ Range(order') = Range(order) \cup {key}
      /\ order' # <<>> /\ Last(order') = key
  <2> DEFINE moved == MoveToEnd(order, key)
  <2>1. /\ moved \in Seq(Keys) /\ IsInjective(moved)
        /\ Range(moved) = Range(order) \cup {key}
        /\ moved # <<>> /\ Last(moved) = key
    BY <1>2, <1>5, MoveToEndProperties
  <2> QED BY <1>4, <2>1
<1>8. BytesCounted' /\ bytes' \in Int
  <2>1. SizeOf(records[key]) <= MaxBytes /\ SizeOf(new) <= MaxBytes
    BY <1>2, <1>3 DEF BytesCounted
  <2>2. TotalBytes(records') = TotalBytes(records) - SizeOf(records[key]) + SizeOf(new)
    BY <1>2, <1>3, <1>4, <1>5, <2>1, TotalBytesExcept
  <2>3. SizeOf(records[key]) \in Nat /\ SizeOf(new) \in Nat
    BY <1>2, <1>3, <1>5, SizeOfType DEF RecordTables
  <2>4. bytes' = TotalBytes(records') /\ bytes' \in Int
    BY <1>4, <2>2, <2>3 DEF BytesCounted, TypeOK
  <2>5. \A k \in Keys : SizeOf(records'[k]) <= MaxBytes
    BY <1>6, <2>1 DEF BytesCounted
  <2> QED BY <2>4, <2>5 DEF BytesCounted
<1>9. TypeOK'
  BY <1>4, <1>6, <1>7, <1>8 DEF TypeOK
<1>10. OrderIsResident'
  <2>1. Resident(records') = Resident(records) \cup {key}
    BY <1>2, <1>3, <1>6 DEF Resident
  <2> QED BY <1>7, <2>1 DEF OrderIsResident
<1>11. LockHolder' /\ CallsUnderWay'
  BY <1>1, <1>4 DEF LockHolder, CallsUnderWay, TypeOK
<1>12. LookupIsCurrent'
  BY <1>1, <1>4 DEF LookupIsCurrent, LockHolder, TypeOK
<1>13. RoomWhenSettled'
  BY <1>4 DEF RoomWhenSettled, TypeOK
<1>14. NewestIsLast'
  <2>1. ASSUME NEW u \in Threads, pc'[u] = "evict" PROVE u = t
    BY <1>1, <1>4, <2>1 DEF LockHolder, TypeOK
  <2>2. records'[call[t].key] = new /\ Last(order') = call[t].key
    BY <1>6, <1>7 DEF key
  <2> QED BY <1>4, <1>7, <2>1, <2>2 DEF NewestIsLast, new
<1> QED BY <1>8, <1>9, <1>10, <1>11, <1>12, <1>13, <1>14

\* While put evicts, the record it wrote is the oldest only when it is the
\* only one, and then the table is not overfull.
LEMMA NewestIsNeverVictim ==
  ASSUME IInv, NEW t \in Threads, pc[t] = "evict"
  PROVE  /\ call[t].key \in Keys
         /\ order \in Seq(Keys) /\ order # <<>> /\ Len(order) \in Nat \ {0}
         /\ Head(order) = call[t].key <=> Len(order) = 1
         /\ Len(order) = 1 => bytes <= MaxBytes
<1> USE DEF IInv
<1> DEFINE key == call[t].key
<1>1. key \in Keys
  BY PutArguments DEF CallsUnderWay
<1>2. order \in Seq(Keys) /\ order # <<>> /\ order[Len(order)] = key
  BY DEF TypeOK, NewestIsLast, Last
<1>3. Len(order) \in Nat \ {0} /\ Head(order) = order[1] /\ DOMAIN order = 1..Len(order)
  BY <1>2, EmptySeq
<1>4. Head(order) = key <=> Len(order) = 1
  BY <1>2, <1>3 DEF OrderIsResident, IsInjective
<1>5. ASSUME Len(order) = 1 PROVE bytes <= MaxBytes
  <2>1. Range(order) = {key}
    BY <1>2, <1>3, <1>5 DEF Range
  <2>2. \A j \in Keys \ {key} : records[j] = None
    BY <2>1 DEF OrderIsResident, Resident
  <2>3. records \in RecordTables /\ SizeOf(records[key]) <= MaxBytes
    BY <1>1 DEF TypeOK, BytesCounted
  <2> HIDE DEF key
  <2>4. TotalBytes(records) = SizeOf(records[key])
    BY <1>1, <2>2, <2>3, TotalBytesSingle
  <2> QED BY <2>3, <2>4 DEF BytesCounted
<1> QED BY <1>1, <1>2, <1>3, <1>4, <1>5

\* One round of the eviction loop.
LEMMA EvictOneIInv ==
  ASSUME IInv, NEW t \in Threads, EvictOne(t)
  PROVE  IInv'
<1> USE DEF IInv
<1> DEFINE key == call[t].key
           victim == Head(order)
<1>1. pc[t] = "evict" /\ lock = t /\ Overfull(t)
  BY DEF EvictOne, LockHolder
<1>2. /\ key \in Keys /\ order \in Seq(Keys) /\ order # <<>>
      /\ Head(order) # key /\ Len(order) > 1
  <2>1. /\ key \in Keys /\ order \in Seq(Keys) /\ order # <<>>
        /\ Head(order) = key <=> Len(order) = 1
        /\ Len(order) \in Nat \ {0} /\ (Len(order) = 1 => bytes <= MaxBytes)
    BY <1>1, NewestIsNeverVictim
  <2>2. bytes \in Int /\ MaxBytes \in Nat /\ bytes > MaxBytes
    BY <1>1, StoreAssumption DEF Overfull, TypeOK
  <2>3. Len(order) # 1
    BY <2>1, <2>2
  <2>4. \A n \in Nat \ {0} : n # 1 => n > 1
    OBVIOUS
  <2> QED BY <2>1, <2>3, <2>4
<1>3. victim \in Keys /\ victim # key
  BY <1>2, HeadTailProperties
<1>4. /\ records' = [records EXCEPT ![victim] = None]
      /\ order' = Tail(order)
      /\ bytes' = bytes - SizeOf(records[victim])
      /\ evictions' = evictions + 1
      /\ UNCHANGED <<lock, pc, call, previous, reply, puts>>
  BY <1>2 DEF EvictOne
<1>5. /\ order' \in Seq(Keys) /\ IsInjective(order')
      /\ Range(order') = Range(order) \ {victim}
      /\ order' # <<>> /\ Last(order') = Last(order)
  <2>1. IsInjective(order)
    BY DEF OrderIsResident
  <2>2. /\ Tail(order) \in Seq(Keys) /\ IsInjective(Tail(order))
        /\ Range(Tail(order)) = Range(order) \ {victim}
        /\ Len(order) > 1 => Tail(order) # <<>> /\ Last(Tail(order)) = Last(order)
    BY <1>2, <2>1, TailProperties
  <2> HIDE DEF victim
  <2> QED BY <1>2, <1>4, <2>2
<1> HIDE DEF key, victim
<1>6. /\ records' \in RecordTables
      /\ records'[victim] = None /\ \A k \in Keys : k # victim => records'[k] = records[k]
  BY <1>3, <1>4 DEF RecordTables, TypeOK
<1>7. BytesCounted' /\ bytes' \in Int
  <2>1. SizeOf(records[victim]) <= MaxBytes /\ SizeOf(None) = 0 /\ MaxBytes \in Nat
    BY <1>3, StoreAssumption DEF BytesCounted, SizeOf
  <2>2. TotalBytes(records') = TotalBytes(records) - SizeOf(records[victim]) + SizeOf(None)
    <3>1. /\ records \in RecordTables /\ None \in StateRecord \cup {None}
          /\ SizeOf(None) <= MaxBytes
      BY <2>1 DEF TypeOK
    <3>2. TotalBytes([records EXCEPT ![victim] = None]) =
              TotalBytes(records) - SizeOf(records[victim]) + SizeOf(None)
      BY <1>3, <2>1, <3>1, TotalBytesExcept
    <3> QED BY <1>4, <3>2
  <2>3. SizeOf(records[victim]) \in Nat
    BY <1>3, SizeOfType DEF RecordTables, TypeOK
  <2>4. bytes' = TotalBytes(records') /\ bytes' \in Int
    BY <1>4, <2>1, <2>2, <2>3 DEF BytesCounted, TypeOK
  <2>5. \A k \in Keys : SizeOf(records'[k]) <= MaxBytes
    BY <1>6, <2>1 DEF BytesCounted
  <2> QED BY <2>4, <2>5 DEF BytesCounted
<1>8. TypeOK'
  BY <1>4, <1>5, <1>6, <1>7 DEF TypeOK
<1>9. OrderIsResident'
  <2>1. Resident(records') = Resident(records) \ {victim}
    BY <1>6 DEF Resident
  <2> QED BY <1>5, <2>1 DEF OrderIsResident
<1>10. LockHolder' /\ CallsUnderWay'
  BY <1>4 DEF LockHolder, CallsUnderWay
<1>11. LookupIsCurrent' /\ RoomWhenSettled'
  BY <1>1, <1>4 DEF LookupIsCurrent, RoomWhenSettled, LockHolder
<1>12. NewestIsLast'
  <2>1. ASSUME NEW u \in Threads, pc'[u] = "evict" PROVE u = t
    BY <1>1, <1>4, <2>1 DEF LockHolder
  <2>2. records'[call[t].key] = records[call[t].key] /\ Last(order) = call[t].key
    BY <1>1, <1>2, <1>3, <1>6 DEF key, NewestIsLast
  <2> QED BY <1>1, <1>4, <1>5, <2>1, <2>2 DEF NewestIsLast
<1> QED BY <1>7, <1>8, <1>9, <1>10, <1>11, <1>12

\* delete takes the entry out of the table, the order and the byte count.
LEMMA DeleteRemoveIInv ==
  ASSUME IInv, NEW t \in Threads, DeleteRemove(t)
  PROVE  IInv'
<1> USE DEF IInv
<1> DEFINE key == call[t].key
<1>1. /\ pc[t] = "body" /\ lock = t /\ previous[t] # None
      /\ previous[t] = Lookup(records, key)
  BY DEF DeleteRemove, InBody, LockHolder, LookupIsCurrent
<1>2. key \in Keys /\ previous[t] = records[key]
  BY <1>1, LookupType DEF TypeOK
<1>3. /\ records' = [records EXCEPT ![key] = None]
      /\ order' = RemoveFirst(order, key)
      /\ bytes' = bytes - SizeOf(records[key])
      /\ UNCHANGED evictions
      /\ Leave(t, "deleted", None)
  BY <1>2 DEF DeleteRemove
<1>4. /\ records \in RecordTables /\ order \in Seq(Keys) /\ IsInjective(order)
  BY DEF TypeOK, OrderIsResident
<1>5. [kind |-> "deleted", key |-> key, value |-> None] \in Replies
  BY <1>2 DEF Replies, StringKeys
<1>6. TypeOK' => LockHolder' /\ CallsUnderWay' /\ LookupIsCurrent' /\ NewestIsLast'
  <2>1. \A u \in Threads : u # t => pc'[u] = pc[u] /\ pc'[u] \notin {"body", "evict"}
    BY <1>1, <1>3 DEF Leave, LockHolder, TypeOK
  <2>2. pc'[t] = "idle" /\ lock' = None /\ \A u \in Threads : u # t => call'[u] = call[u]
    BY <1>3 DEF Leave, TypeOK
  <2>3. LockHolder'
    BY <2>1, <2>2, ThreadAssumption DEF LockHolder
  <2>4. CallsUnderWay'
    BY <2>1, <2>2 DEF CallsUnderWay
  <2>5. LookupIsCurrent' /\ NewestIsLast'
    BY <2>1, <2>2 DEF LookupIsCurrent, NewestIsLast
  <2> QED BY <2>3, <2>4, <2>5
<1> HIDE DEF key
<1>7. /\ records' \in RecordTables
      /\ records'[key] = None /\ \A k \in Keys : k # key => records'[k] = records[k]
  BY <1>2, <1>3, <1>4 DEF RecordTables
<1>8. /\ order' \in Seq(Keys) /\ IsInjective(order')
      /\ Range(order') = Range(order) \ {key}
  <2> DEFINE rest == RemoveFirst(order, key)
  <2>1. rest \in Seq(Keys) /\ IsInjective(rest) /\ Range(rest) = Range(order) \ {key}
    BY <1>4, RemoveFirstProperties
  <2> QED BY <1>3, <2>1
<1>9. BytesCounted' /\ bytes' \in Int /\ bytes' <= bytes
  <2>1. SizeOf(records[key]) <= MaxBytes /\ SizeOf(None) = 0 /\ MaxBytes \in Nat
    BY <1>2, StoreAssumption DEF BytesCounted, SizeOf
  <2>2. TotalBytes(records') = TotalBytes(records) - SizeOf(records[key]) + SizeOf(None)
    <3>1. None \in StateRecord \cup {None} /\ SizeOf(None) <= MaxBytes
      BY <2>1
    <3>2. TotalBytes([records EXCEPT ![key] = None]) =
              TotalBytes(records) - SizeOf(records[key]) + SizeOf(None)
      BY <1>2, <1>4, <2>1, <3>1, TotalBytesExcept
    <3> QED BY <1>3, <3>2
  <2>3. SizeOf(records[key]) \in Nat
    BY <1>2, <1>4, SizeOfType DEF RecordTables
  <2>4. bytes' = TotalBytes(records') /\ bytes' \in Int /\ bytes' <= bytes
    BY <1>3, <2>1, <2>2, <2>3 DEF BytesCounted, TypeOK
  <2>5. \A k \in Keys : SizeOf(records'[k]) <= MaxBytes
    BY <1>7, <2>1 DEF BytesCounted
  <2> QED BY <2>4, <2>5 DEF BytesCounted
<1>10. TypeOK'
  BY <1>3, <1>5, <1>7, <1>8, <1>9 DEF TypeOK, Leave, Answer, key
<1>11. OrderIsResident'
  <2>1. Resident(records') = Resident(records) \ {key}
    BY <1>7 DEF Resident
  <2> QED BY <1>8, <2>1 DEF OrderIsResident
<1>12. RoomWhenSettled'
  <2>1. bytes <= MaxBytes
    BY <1>1 DEF RoomWhenSettled, LockHolder
  <2> QED BY <1>9, <2>1, StoreAssumption DEF RoomWhenSettled, TypeOK
<1> QED BY <1>6, <1>9, <1>10, <1>11, <1>12

\* put leaves when its loop ends: either the table fits, or one record is
\* left, which fits by itself.
LEMMA PutReturnIInv ==
  ASSUME IInv, NEW t \in Threads, PutReturn(t)
  PROVE  IInv'
<1> DEFINE new == [version |-> VersionOf(previous[t]) + 1, payload |-> call[t].payload]
<1>1. /\ pc[t] = "evict" /\ ~Overfull(t) /\ Leave(t, "returned", new)
      /\ UNCHANGED dictVars
  BY DEF PutReturn
<1>2. bytes <= MaxBytes
  <2>1. bytes \in Int /\ MaxBytes \in Nat
    BY StoreAssumption DEF IInv, TypeOK
  <2>2. order # <<>> /\ (Len(order) = 1 => bytes <= MaxBytes)
    BY <1>1, NewestIsNeverVictim
  <2> QED BY <1>1, <2>1, <2>2 DEF Overfull
<1>3. [kind |-> "returned", key |-> call[t].key, value |-> new] \in Replies
  <2>1. /\ call[t].key \in Keys /\ call[t].payload \in Payloads
        /\ previous[t] \in StateRecord \cup {None}
    BY <1>1, PutArguments DEF IInv, CallsUnderWay, TypeOK
  <2>2. new \in StateRecord
    BY <2>1, NewRecordType
  <2> HIDE DEF new
  <2> QED BY <2>1, <2>2 DEF Replies, StringKeys
<1> HIDE DEF new
<1>4. pc[t] \in {"body", "evict"}
  BY <1>1
<1> QED BY <1>1, <1>2, <1>3, <1>4, LeaveUnchanged

\* The answers that leave the dictionary alone.
LEMMA AnswerIInv ==
  ASSUME IInv, NEW t \in Threads,
         PutConflict(t) \/ DeleteAbsent(t) \/ DeleteConflict(t) \/ StatsReturn(t)
  PROVE  IInv'
<1>1. pc[t] = "body" /\ UNCHANGED dictVars /\ call[t] \in Calls
  BY DEF PutConflict, DeleteAbsent, DeleteConflict, StatsReturn, InBody, IInv, CallsUnderWay
<1>2. call[t].op # "stats" => call[t].key \in StringKeys
  BY <1>1 DEF Calls
<1>3. ASSUME NEW kind \in {"VersionConflict", "absent"}, Leave(t, kind, None),
             call[t].op # "stats"
      PROVE  IInv'
  <2>1. [kind |-> kind, key |-> call[t].key, value |-> None] \in Replies
    BY <1>2, <1>3 DEF Replies
  <2> QED BY <1>1, <1>3, <2>1, LeaveUnchanged
<1>4. CASE PutConflict(t) \/ DeleteConflict(t)
  BY <1>3, <1>4 DEF PutConflict, DeleteConflict, InBody
<1>5. CASE DeleteAbsent(t)
  BY <1>3, <1>5 DEF DeleteAbsent, InBody
<1>6. CASE StatsReturn(t)
  <2> DEFINE value == [entries |-> Len(order), bytes |-> bytes, evictions |-> evictions]
  <2>1. call[t].key = EmptyKey
    BY <1>1, <1>6 DEF StatsReturn, InBody, Calls
  <2>2. value \in [entries : Nat, bytes : Int, evictions : Nat]
    BY DEF IInv, TypeOK
  <2>3. Leave(t, "stats", value)
    BY <1>6 DEF StatsReturn
  <2> HIDE DEF value
  <2>4. [kind |-> "stats", key |-> call[t].key, value |-> value] \in Replies
    BY <2>1, <2>2 DEF Replies
  <2> QED BY <1>1, <2>3, <2>4, LeaveUnchanged
<1> QED BY <1>4, <1>5, <1>6

\* Every step, of whichever thread, keeps the invariant.
LEMMA NextIInv == IInv /\ [Next]_vars => IInv'
<1> SUFFICES ASSUME IInv, [Next]_vars PROVE IInv'
  OBVIOUS
<1>1. CASE UNCHANGED vars
  <2>1. TypeOK'
    BY <1>1 DEF IInv, vars, TypeOK
  <2>2. OrderIsResident' /\ LockHolder' /\ CallsUnderWay' /\ LookupIsCurrent'
    BY <1>1 DEF IInv, vars, OrderIsResident, Resident, LockHolder, CallsUnderWay,
                LookupIsCurrent
  <2>3. BytesCounted' /\ RoomWhenSettled' /\ NewestIsLast'
    BY <1>1 DEF IInv, vars, BytesCounted, RoomWhenSettled, NewestIsLast
  <2> QED BY <2>1, <2>2, <2>3 DEF IInv
<1>2. ASSUME NEW t \in Threads, NEW c \in Calls, Begin(t, c) \/ BeginInvalid(t, c)
      PROVE  IInv'
  BY <1>2, BeginIInv
<1>3. ASSUME NEW t \in Threads, Enter(t) PROVE IInv'
  BY <1>3, EnterIInv
<1>4. ASSUME NEW t \in Threads, GetReturn(t) PROVE IInv'
  BY <1>4, GetReturnIInv
<1>5. ASSUME NEW t \in Threads, PutWrite(t) PROVE IInv'
  BY <1>5, PutWriteIInv
<1>6. ASSUME NEW t \in Threads, EvictOne(t) PROVE IInv'
  BY <1>6, EvictOneIInv
<1>7. ASSUME NEW t \in Threads, PutReturn(t) PROVE IInv'
  BY <1>7, PutReturnIInv
<1>8. ASSUME NEW t \in Threads, DeleteRemove(t) PROVE IInv'
  BY <1>8, DeleteRemoveIInv
<1>9. ASSUME NEW t \in Threads,
             PutConflict(t) \/ DeleteAbsent(t) \/ DeleteConflict(t) \/ StatsReturn(t)
      PROVE  IInv'
  BY <1>9, AnswerIInv
<1> QED
  BY <1>1, <1>2, <1>3, <1>4, <1>5, <1>6, <1>7, <1>8, <1>9 DEF Next, Critical

\* The inductive invariant holds in every reachable state.
THEOREM Invariance == Spec => []IInv
<1>1. Init => IInv
  BY InitIInv
<1>2. IInv /\ [Next]_vars => IInv'
  BY NextIInv
<1> QED BY <1>1, <1>2, PTL DEF Spec

---------------------------------------------------------------------------
(***************************************************************************)
(* The results.                                                            *)
(***************************************************************************)

\* Type correctness: MemoryStateStore's fields always hold what its
\* annotations say.
THEOREM TypeCorrectness == Spec => []TypeOK
<1>1. IInv => TypeOK
  BY DEF IInv
<1> QED BY <1>1, Invariance, PTL

\* Whenever the lock is free, _bytes is exactly the length of the stored
\* payloads and at most max_bytes (put, _evict_to_limit, delete).
THEOREM ByteBound == Spec => []BytesBounded
<1>1. IInv => BytesBounded
  <2> SUFFICES ASSUME IInv, lock = None
               PROVE  bytes = TotalBytes(records) /\ bytes <= MaxBytes
    BY DEF BytesBounded
  <2>1. \A t \in Threads : pc[t] # "evict"
    BY ThreadAssumption DEF IInv, LockHolder
  <2> QED BY <2>1 DEF IInv, BytesCounted, RoomWhenSettled
<1> QED BY <1>1, Invariance, PTL

\* _evict_to_limit never evicts, nor even has to skip, the record that put
\* has just written.
THEOREM NewestRecordSurvives == Spec => []NewestSurvives
<1>1. IInv => NewestSurvives
  <2> SUFFICES ASSUME IInv, NEW t \in Threads, pc[t] = "evict"
               PROVE  /\ records[call[t].key] = [version |-> VersionOf(previous[t]) + 1,
                                                payload |-> call[t].payload]
                      /\ Last(order) = call[t].key
                      /\ bytes > MaxBytes => Head(order) # call[t].key
    BY DEF NewestSurvives
  <2>1. bytes > MaxBytes => Head(order) # call[t].key
    <3>1. Head(order) = call[t].key => bytes <= MaxBytes
      BY NewestIsNeverVictim
    <3>2. bytes \in Int /\ MaxBytes \in Nat
      BY StoreAssumption DEF IInv, TypeOK
    <3> QED BY <3>1, <3>2
  <2> QED BY <2>1 DEF IInv, NewestIsLast
<1> QED BY <1>1, Invariance, PTL

\* No step changes an entry to anything but its next version or nothing: the
\* version put computes from its lookup is never out of date.
THEOREM VersionsOnlyAdvance == Spec => VersionsAdvance
<1> DEFINE Advances == \A k \in Keys : records'[k] \in {records[k], None}
                          \/ records'[k].version = VersionOf(records[k]) + 1
<1>1. IInv /\ [Next]_vars => [Advances]_records
  <2> SUFFICES ASSUME IInv, [Next]_vars, records' # records PROVE Advances
    OBVIOUS
  <2>1. ASSUME NEW t \in Threads, PutWrite(t) PROVE Advances
    <3>1. call[t].key \in Keys /\ previous[t] = records[call[t].key]
      BY <2>1, PutArguments, LookupType
         DEF PutWrite, InBody, IInv, CallsUnderWay, LookupIsCurrent, TypeOK
    <3> QED BY <2>1, <3>1 DEF PutWrite, IInv, TypeOK, RecordTables
  <2>2. ASSUME NEW t \in Threads, EvictOne(t) \/ DeleteRemove(t) PROVE Advances
    BY <2>2 DEF EvictOne, DeleteRemove, IInv, TypeOK, RecordTables
  <2>3. \E t \in Threads : PutWrite(t) \/ EvictOne(t) \/ DeleteRemove(t)
    BY DEF vars, dictVars, Next, Critical, Begin, BeginInvalid, Enter, GetReturn, PutConflict,
           PutReturn, DeleteAbsent, DeleteConflict, StatsReturn
  <2> QED BY <2>1, <2>2, <2>3
<1> QED BY <1>1, Invariance, PTL DEF Spec, VersionsAdvance

---------------------------------------------------------------------------
(***************************************************************************)
(* The store implements the atomic one.                                    *)
(***************************************************************************)

Tables == [records : RecordTables, order : Seq(Keys), evictions : Nat]

NewRecord(t) == [version |-> VersionOf(previous[t]) + 1, payload |-> call[t].payload]

\* What put has done to the table it found, after n rounds of its eviction
\* loop: written its record and dropped the n oldest ones, each of them while
\* the table was overfull.
EvictedSoFar(t, n) ==
    LET written == [stable.records EXCEPT ![call[t].key] = NewRecord(t)]
        queue == MoveToEnd(stable.order, call[t].key)
    IN  /\ n \in 0 .. Len(queue) - 1
        /\ records = WithoutOldest(written, queue, n)
        /\ order = SubSeq(queue, n + 1, Len(queue))
        /\ \A m \in 0 .. n - 1 : ~(TotalBytes(WithoutOldest(written, queue, m)) <= MaxBytes)

\* The table when the lock was last free: it is the present one, unless a put
\* is on its way to finish what it started on it.
StableInv ==
    /\ stable \in Tables /\ IsInjective(stable.order)
    /\ lock = None => stable = Table
    /\ \A t \in Threads : pc[t] = "body" => stable = Table
    /\ \A t \in Threads : pc[t] = "evict" =>
        /\ previous[t] = stable.records[call[t].key]
        /\ ~Conflicts(t)
        /\ EvictedSoFar(t, evictions - stable.evictions)

\* Dropping nothing leaves the table and its order alone; dropping one more
\* is what a round of the eviction loop does.
LEMMA WithoutOldestSteps ==
  ASSUME NEW table \in RecordTables, NEW queue \in Seq(Keys)
  PROVE  /\ WithoutOldest(table, queue, 0) = table
         /\ SubSeq(queue, 1, Len(queue)) = queue
         /\ \A n \in 0 .. Len(queue) - 1 :
              LET rest == SubSeq(queue, n + 1, Len(queue))
              IN  /\ Head(rest) = queue[n + 1]
                  /\ Tail(rest) = SubSeq(queue, n + 2, Len(queue))
                  /\ WithoutOldest(table, queue, n + 1) =
                         [WithoutOldest(table, queue, n) EXCEPT ![queue[n + 1]] = None]
<1>1. WithoutOldest(table, queue, 0) = table
  BY DEF WithoutOldest, RecordTables
<1>2. SubSeq(queue, 1, Len(queue)) = queue
  OBVIOUS
<1>3. ASSUME NEW n \in 0 .. Len(queue) - 1
      PROVE  LET rest == SubSeq(queue, n + 1, Len(queue))
             IN  /\ Head(rest) = queue[n + 1]
                 /\ Tail(rest) = SubSeq(queue, n + 2, Len(queue))
                 /\ WithoutOldest(table, queue, n + 1) =
                        [WithoutOldest(table, queue, n) EXCEPT ![queue[n + 1]] = None]
  <2> DEFINE rest == SubSeq(queue, n + 1, Len(queue))
             after == SubSeq(queue, n + 2, Len(queue))
  <2>1. /\ rest \in Seq(Keys) /\ Len(rest) = Len(queue) - n
        /\ \A i \in 1 .. Len(queue) - n : rest[i] = queue[n + i]
    BY SubSeqProperties, \A i \in n + 1 .. Len(queue) : queue[i] \in Keys
  <2>2. /\ after \in Seq(Keys) /\ Len(after) = Len(queue) - n - 1
        /\ \A i \in 1 .. Len(queue) - n - 1 : after[i] = queue[n + 1 + i]
    BY SubSeqProperties, \A i \in n + 2 .. Len(queue) : queue[i] \in Keys
  <2> HIDE DEF rest, after
  <2>3. rest # <<>>
    BY <2>1
  <2>4. /\ Head(rest) = rest[1] /\ Tail(rest) \in Seq(Keys)
        /\ Len(Tail(rest)) = Len(rest) - 1
        /\ \A i \in 1 .. Len(Tail(rest)) : Tail(rest)[i] = rest[i + 1]
    BY <2>1, <2>3, HeadTailProperties
  <2>5. Head(rest) = queue[n + 1]
    BY <2>1, <2>4
  <2>6. Tail(rest) = after
    <3>1. Len(Tail(rest)) = Len(after)
      BY <2>1, <2>2, <2>4
    <3>2. ASSUME NEW i \in 1 .. Len(after) PROVE Tail(rest)[i] = after[i]
      BY <2>1, <2>2, <2>4, <3>1
    <3> QED BY <2>2, <2>4, <3>1, <3>2, SeqEqual
  <2>7. WithoutOldest(table, queue, n + 1) =
            [WithoutOldest(table, queue, n) EXCEPT ![queue[n + 1]] = None]
    <3>1. ASSUME NEW k
          PROVE  (\E i \in 1 .. n + 1 : queue[i] = k) <=>
                     (\E i \in 1 .. n : queue[i] = k) \/ queue[n + 1] = k
      <4>1. 1 .. n + 1 = (1 .. n) \cup {n + 1}
        OBVIOUS
      <4> QED BY <4>1
    <3> QED BY <3>1 DEF WithoutOldest
  <2> QED BY <2>5, <2>6, <2>7 DEF rest, after
<1> QED BY <1>1, <1>2, <1>3

\* Whenever no thread is inside, the abstract table is the present one.
LEMMA StableWhenFree ==
  ASSUME IInv', lock' = None, stable' = Table'
  PROVE  StableInv'
<1>1. stable' \in Tables /\ IsInjective(stable'.order)
  BY DEF IInv, TypeOK, OrderIsResident, Table, Tables
<1>2. \A t \in Threads : pc'[t] \notin {"body", "evict"}
  BY ThreadAssumption DEF IInv, LockHolder
<1> QED BY <1>1, <1>2 DEF StableInv

\* Steps that leave the abstract table and every put under way alone.
LEMMA StableUndisturbed ==
  ASSUME StableInv, UNCHANGED <<dictVars, lock, previous, stable>>,
         \A t \in Threads : pc[t] # "idle" => pc'[t] = pc[t] /\ call'[t] = call[t],
         \A t \in Threads : pc[t] = "idle" => pc'[t] \notin {"body", "evict"}
  PROVE  StableInv'
<1>1. Table' = Table
  BY DEF Table, dictVars
<1>2. ASSUME NEW t \in Threads, pc'[t] \in {"body", "evict"}
      PROVE  pc'[t] = pc[t] /\ call'[t] = call[t]
  BY <1>2
<1>3. ASSUME NEW t \in Threads, pc'[t] = "evict"
      PROVE  /\ previous'[t] = stable'.records[call'[t].key]
             /\ ~Conflicts(t)'
             /\ EvictedSoFar(t, evictions - stable.evictions)'
  <2>1. pc[t] = "evict" /\ call'[t] = call[t]
    BY <1>2, <1>3
  <2>2. ~Conflicts(t)'
    BY <2>1 DEF StableInv, Conflicts
  <2>3. EvictedSoFar(t, evictions - stable.evictions)'
    BY <2>1 DEF StableInv, EvictedSoFar, NewRecord, dictVars
  <2> QED BY <2>1, <2>2, <2>3 DEF StableInv
<1> QED BY <1>1, <1>2, <1>3 DEF StableInv

\* The lock is taken on the table it was last released on.
LEMMA EnterStable ==
  ASSUME IInv, StableInv, NEW t \in Threads, Enter(t), UNCHANGED stable
  PROVE  StableInv'
<1>1. stable = Table /\ Table' = Table
  BY DEF Enter, StableInv, Table, dictVars
<1>2. \A u \in Threads : pc'[u] # "evict"
  BY ThreadAssumption DEF Enter, IInv, LockHolder, TypeOK
<1>3. lock' # None
  BY ThreadAssumption DEF Enter
<1> QED BY <1>1, <1>2, <1>3 DEF StableInv

\* put writes its record: no eviction so far.
LEMMA PutWriteStable ==
  ASSUME IInv, StableInv, NEW t \in Threads, PutWrite(t), UNCHANGED stable
  PROVE  StableInv'
<1> DEFINE key == call[t].key
           written == [stable.records EXCEPT ![key] = NewRecord(t)]
           queue == MoveToEnd(stable.order, key)
<1>1. /\ pc[t] = "body" /\ lock = t /\ stable = Table /\ key \in Keys
      /\ call[t].payload \in Payloads /\ previous[t] \in StateRecord \cup {None}
      /\ previous[t] = records[key] /\ ~Conflicts(t)
  BY PutArguments, LookupType
     DEF PutWrite, InBody, IInv, LockHolder, StableInv, CallsUnderWay, LookupIsCurrent, TypeOK
<1>2. /\ records' = written /\ order' = queue /\ evictions' = stable.evictions
      /\ pc' = [pc EXCEPT ![t] = "evict"]
      /\ UNCHANGED <<lock, call, previous, reply, puts>>
  BY <1>1 DEF PutWrite, Table, NewRecord
<1>3. /\ stable.records \in RecordTables /\ stable.order \in Seq(Keys)
      /\ stable.evictions \in Nat /\ IsInjective(stable.order)
  BY DEF StableInv, Tables
<1>4. written \in RecordTables
  <2>1. NewRecord(t) \in StateRecord
    BY <1>1, NewRecordType DEF NewRecord
  <2> QED BY <1>1, <1>3, <2>1 DEF RecordTables
<1>5. queue \in Seq(Keys) /\ Len(queue) \in Nat \ {0}
  <2> HIDE DEF key
  <2>1. queue \in Seq(Keys) /\ queue # <<>>
    BY <1>1, <1>3, MoveToEndProperties
  <2> QED BY <2>1, EmptySeq
<1>6. \A u \in Threads : pc'[u] = "evict" \/ pc'[u] = "body" => u = t /\ pc'[t] = "evict"
  BY <1>1, <1>2 DEF IInv, LockHolder, TypeOK
<1>7. EvictedSoFar(t, evictions - stable.evictions)'
  <2>1. evictions' - stable'.evictions = 0
    BY <1>2, <1>3
  <2>2. EvictedSoFar(t, 0)'
    <3>1. /\ call'[t].key = key /\ NewRecord(t)' = NewRecord(t) /\ stable' = stable
      BY <1>2 DEF NewRecord
    <3> HIDE DEF written, queue, key
    <3>2. WithoutOldest(written, queue, 0) = written /\ SubSeq(queue, 1, Len(queue)) = queue
      BY <1>4, <1>5, WithoutOldestSteps
    <3>3. /\ 0 \in 0 .. Len(queue) - 1
          /\ records' = WithoutOldest(written, queue, 0)
          /\ order' = SubSeq(queue, 0 + 1, Len(queue))
          /\ \A m \in 0 .. 0 - 1 : ~(TotalBytes(WithoutOldest(written, queue, m)) <= MaxBytes)
      BY <1>2, <1>5, <3>2
    <3> QED BY <3>1, <3>3 DEF EvictedSoFar, written, queue
  <2> QED BY <2>1, <2>2
<1>8. lock' # None
  BY <1>1, <1>2, ThreadAssumption
<1>9. previous'[t] = stable'.records[call'[t].key] /\ ~Conflicts(t)'
  BY <1>1, <1>2 DEF Conflicts, Table
<1> QED BY <1>3, <1>6, <1>7, <1>8, <1>9 DEF StableInv, Tables

\* One more round of the eviction loop, taken because the table is overfull.
LEMMA EvictOneStable ==
  ASSUME IInv, StableInv, NEW t \in Threads, EvictOne(t), UNCHANGED stable
  PROVE  StableInv'
<1> DEFINE key == call[t].key
           written == [stable.records EXCEPT ![key] = NewRecord(t)]
           queue == MoveToEnd(stable.order, key)
           n == evictions - stable.evictions
<1>1. /\ pc[t] = "evict" /\ lock = t /\ Overfull(t) /\ key \in Keys
      /\ call[t].payload \in Payloads /\ previous[t] \in StateRecord \cup {None}
      /\ previous[t] = stable.records[key] /\ ~Conflicts(t)
  BY PutArguments
     DEF EvictOne, IInv, LockHolder, StableInv, CallsUnderWay, TypeOK
<1>2. /\ stable.records \in RecordTables /\ stable.order \in Seq(Keys)
      /\ stable.evictions \in Nat /\ IsInjective(stable.order)
  BY DEF StableInv, Tables
<1>3. ~(TotalBytes(records) <= MaxBytes) /\ Head(order) # key /\ Len(order) # 1
  <2>1. /\ Head(order) = key <=> Len(order) = 1
        /\ Len(order) = 1 => bytes <= MaxBytes
    BY <1>1, NewestIsNeverVictim
  <2>2. bytes \in Int /\ MaxBytes \in Nat /\ bytes > MaxBytes
    BY <1>1, StoreAssumption DEF Overfull, IInv, TypeOK
  <2> QED BY <2>1, <2>2 DEF IInv, BytesCounted
<1>4. /\ records' = [records EXCEPT ![Head(order)] = None] /\ order' = Tail(order)
      /\ evictions' = evictions + 1
      /\ UNCHANGED <<lock, pc, call, previous, reply, puts>>
  BY <1>3 DEF EvictOne
<1>5. written \in RecordTables
  <2>1. NewRecord(t) \in StateRecord
    BY <1>1, NewRecordType DEF NewRecord
  <2> QED BY <1>1, <1>2, <2>1 DEF RecordTables
<1>6. queue \in Seq(Keys) /\ Len(queue) \in Nat
  <2> HIDE DEF key
  <2> QED BY <1>1, <1>2, MoveToEndProperties
<1>7. /\ n \in 0 .. Len(queue) - 1
      /\ records = WithoutOldest(written, queue, n)
      /\ order = SubSeq(queue, n + 1, Len(queue))
      /\ \A m \in 0 .. n - 1 : ~(TotalBytes(WithoutOldest(written, queue, m)) <= MaxBytes)
  BY <1>1 DEF StableInv, EvictedSoFar
<1>8. evictions' - stable'.evictions = n + 1
  <2>1. evictions \in Nat /\ stable'.evictions = stable.evictions
    BY <1>4 DEF IInv, TypeOK
  <2> QED BY <1>2, <1>4, <2>1
<1>9. call'[t].key = key /\ NewRecord(t)' = NewRecord(t) /\ stable' = stable
  BY <1>4 DEF NewRecord
<1> HIDE DEF written, queue, key, n
<1>10. n + 1 \in 0 .. Len(queue) - 1
  <2>1. Len(order) = Len(queue) - n
    BY <1>6, <1>7, DropOldestProperties
  <2>2. n \in 0 .. Len(queue) - 1 /\ Len(order) # 1
    BY <1>3, <1>7
  <2> QED BY <1>6, <2>1, <2>2
<1>11. /\ records' = WithoutOldest(written, queue, n + 1)
       /\ order' = SubSeq(queue, (n + 1) + 1, Len(queue))
  <2>1. /\ Head(order) = queue[n + 1]
        /\ Tail(order) = SubSeq(queue, n + 2, Len(queue))
        /\ WithoutOldest(written, queue, n + 1) = [records EXCEPT ![queue[n + 1]] = None]
    BY <1>5, <1>6, <1>7, WithoutOldestSteps
  <2>2. (n + 1) + 1 = n + 2
    <3>1. n \in Int
      BY <1>6, <1>7
    <3> QED BY <3>1
  <2> QED BY <1>4, <2>1, <2>2
<1>12. \A m \in 0 .. (n + 1) - 1 : ~(TotalBytes(WithoutOldest(written, queue, m)) <= MaxBytes)
  BY <1>3, <1>7
<1>13. EvictedSoFar(t, evictions - stable.evictions)'
  BY <1>8, <1>9, <1>10, <1>11, <1>12 DEF EvictedSoFar, written, queue
<1>14. \A u \in Threads : pc'[u] = "evict" \/ pc'[u] = "body" => u = t /\ pc'[t] = "evict"
  BY <1>1, <1>4 DEF IInv, LockHolder, TypeOK
<1>15. lock' # None
  BY <1>1, <1>4, ThreadAssumption
<1>16. previous'[t] = stable'.records[call'[t].key] /\ ~Conflicts(t)'
  BY <1>1, <1>4 DEF Conflicts, key
<1> QED BY <1>2, <1>13, <1>14, <1>15, <1>16 DEF StableInv, Tables

\* Every step keeps the history variable in step with the store.
LEMMA NextStable ==
  ASSUME IInv, IInv', StableInv, [NextH]_varsH
  PROVE  StableInv'
<1>1. CASE UNCHANGED varsH
  BY <1>1, StableUndisturbed DEF varsH, vars, dictVars
<1>2. CASE NextH /\ lock' = None
  BY <1>2, StableWhenFree DEF NextH
<1>3. CASE NextH /\ lock' # None
  <2>1. UNCHANGED stable
    BY <1>3 DEF NextH
  <2>2. ASSUME NEW t \in Threads, NEW c \in Calls, Begin(t, c) \/ BeginInvalid(t, c)
        PROVE  StableInv'
    <3>1. UNCHANGED <<dictVars, lock, previous, stable>>
      BY <2>1, <2>2 DEF Begin, BeginInvalid
    <3>2. /\ \A u \in Threads : pc[u] # "idle" => pc'[u] = pc[u] /\ call'[u] = call[u]
          /\ \A u \in Threads : pc[u] = "idle" => pc'[u] \notin {"body", "evict"}
      BY <2>2 DEF Begin, BeginInvalid, IInv, TypeOK
    <3> QED BY <3>1, <3>2, StableUndisturbed
  <2>3. ASSUME NEW t \in Threads, Enter(t) PROVE StableInv'
    BY <2>1, <2>3, EnterStable
  <2>4. ASSUME NEW t \in Threads, PutWrite(t) PROVE StableInv'
    BY <2>1, <2>4, PutWriteStable
  <2>5. ASSUME NEW t \in Threads, EvictOne(t) PROVE StableInv'
    BY <2>1, <2>5, EvictOneStable
  <2> QED
    BY <1>3, <2>2, <2>3, <2>4, <2>5
       DEF NextH, Next, Critical, GetReturn, PutConflict, PutReturn, DeleteAbsent,
           DeleteConflict, DeleteRemove, StatsReturn, Leave
<1> QED BY <1>1, <1>2, <1>3

\* The operators of the abstract store's module are those of this one.
LEMMA AbstractOperators ==
  /\ \A table, key : Abstract!Lookup(table, key) = Lookup(table, key)
  /\ \A record : Abstract!VersionOf(record) = VersionOf(record)
  /\ \A s, key : Abstract!MoveToEnd(s, key) = MoveToEnd(s, key)
  /\ \A s, key : Abstract!RemoveFirst(s, key) = RemoveFirst(s, key)
  /\ \A table, s, n : Abstract!WithoutOldest(table, s, n) = WithoutOldest(table, s, n)
  /\ \A table : Abstract!TotalBytes(table) = TotalBytes(table)
  /\ \A table : Abstract!Resident(table) = Resident(table)
  /\ Abstract!NoReply = NoReply
  /\ Abstract!Expectations = Expectations
<1>1. \A table, key : Abstract!Lookup(table, key) = Lookup(table, key)
  BY DEF Abstract!Lookup, Lookup
<1>2. \A record : Abstract!VersionOf(record) = VersionOf(record)
  BY DEF Abstract!VersionOf, VersionOf
<1>3. ASSUME NEW s, NEW key PROVE Abstract!RemoveFirst(s, key) = RemoveFirst(s, key)
  BY DEF Abstract!RemoveFirst, Abstract!SelectInSeq, Abstract!RemoveAt, Abstract!Min,
         RemoveFirst, SelectInSeq, RemoveAt, Min
<1>4. \A s, key : Abstract!MoveToEnd(s, key) = MoveToEnd(s, key)
  BY <1>3 DEF Abstract!MoveToEnd, MoveToEnd
<1>5. \A table, s, n : Abstract!WithoutOldest(table, s, n) = WithoutOldest(table, s, n)
  BY DEF Abstract!WithoutOldest, WithoutOldest
<1>6. ASSUME NEW table PROVE Abstract!TotalBytes(table) = TotalBytes(table)
  <2>1. Abstract!StoredBytes(table) = StoredBytes(table)
    BY DEF Abstract!StoredBytes, Abstract!SizeOf, StoredBytes, SizeOf
  <2> QED BY <2>1 DEF Abstract!TotalBytes, Abstract!Cardinality, TotalBytes, Cardinality
<1>7. \A table : Abstract!Resident(table) = Resident(table)
  BY DEF Abstract!Resident, Resident
<1>8. Abstract!NoReply = NoReply /\ Abstract!Expectations = Expectations
  BY DEF Abstract!NoReply, NoReply, Abstract!Expectations, Expectations
<1> QED BY <1>1, <1>2, <1>3, <1>4, <1>5, <1>6, <1>7, <1>8

\* len(self._records): the order lists every stored key once.
LEMMA OrderCountsRecords ==
  ASSUME IInv
  PROVE  Len(order) = Cardinality(Resident(records))
<1> DEFINE S == Resident(records)
<1>1. order \in Seq(Keys) /\ IsInjective(order) /\ Range(order) = S
  BY DEF IInv, TypeOK, OrderIsResident
<1> HIDE DEF S
<1>2. order \in Bijection(1 .. Len(order), S)
  <2>1. order \in [1 .. Len(order) -> S]
    BY <1>1 DEF Range
  <2>2. \A x \in S : \E i \in 1 .. Len(order) : order[i] = x
    BY <1>1 DEF Range
  <2>3. \A i, j \in 1 .. Len(order) : order[i] = order[j] => i = j
    BY <1>1 DEF IsInjective
  <2> QED BY <2>1, <2>2, <2>3 DEF Bijection, Injection, Surjection, IsInjective
<1>3. ExistsBijection(1 .. Len(order), S)
  BY <1>2 DEF ExistsBijection
<1>4. IsFiniteSet(1 .. Len(order)) /\ Cardinality(1 .. Len(order)) = Len(order)
  <2>1. Len(order) \in Nat /\ 1 \in Int /\ Len(order) \in Int
    BY <1>1
  <2>2. /\ IsFiniteSet(1 .. Len(order))
        /\ Cardinality(1 .. Len(order)) = IF 1 > Len(order) THEN 0 ELSE Len(order) - 1 + 1
    BY <2>1, FS_Interval
  <2> QED BY <2>1, <2>2
<1>5. Cardinality(S) = Cardinality(1 .. Len(order))
  BY <1>3, <1>4, FS_Bijection
<1> QED BY <1>4, <1>5 DEF S

\* The steps at which a call leaves, and the table is the abstract one's next.
LEMMA LeaveTable ==
  ASSUME NextH, NEW t \in Threads, NEW kind, NEW value, Leave(t, kind, value)
  PROVE  /\ stable'.records = records' /\ stable'.order = order'
         /\ stable'.evictions = evictions'
         /\ reply' = [reply EXCEPT ![t] = [kind |-> kind, key |-> call[t].key, value |-> value]]
BY DEF NextH, Leave, Answer, Table

\* A call that starts, or is refused before it takes the lock.
LEMMA BeginSimulates ==
  ASSUME IInv, StableInv, NextH, NEW t \in Threads, NEW c \in Calls,
         Begin(t, c) \/ BeginInvalid(t, c)
  PROVE  Abstract!Next
<1>1. stable' = stable
  BY DEF NextH, StableInv, Begin, BeginInvalid, Table, dictVars
<1>2. c.key \in Keys \cup {EmptyKey}
  BY DEF Calls, StringKeys
<1>3. CASE Begin(t, c)
  <2>1. Abstract!Call(t)
    BY <1>1, <1>3, AbstractOperators DEF Abstract!Call, Abstract!storeVars, Begin
  <2> QED BY <1>2, <2>1 DEF Abstract!Next
<1>4. CASE BeginInvalid(t, c)
  <2>1. c.payload \in Payloads /\ c.expected \in Expectations
    BY <1>4 DEF BeginInvalid, Invalid, Calls
  <2>2. Abstract!PutInvalid(t, c.key, c.payload)
    BY <1>1, <1>4 DEF BeginInvalid, Invalid, Abstract!PutInvalid, Abstract!Answer,
                      Abstract!storeVars
  <2> QED BY <1>2, <2>1, <2>2, AbstractOperators DEF Abstract!Next
<1> QED BY <1>3, <1>4

\* What a thread in its critical section works on is the abstract table.
LEMMA BodyState ==
  ASSUME IInv, StableInv, NEW t \in Threads, pc[t] = "body"
  PROVE  /\ stable = Table /\ call[t] \in Calls /\ ~Invalid(call[t])
         /\ call[t].key \in Keys \cup {EmptyKey}
         /\ previous[t] = Lookup(stable.records, call[t].key)
         /\ stable.records = records /\ stable.order = order /\ stable.evictions = evictions
<1>1. stable = Table /\ call[t] \in Calls /\ ~Invalid(call[t])
  BY DEF StableInv, IInv, CallsUnderWay
<1>2. call[t].key \in Keys \cup {EmptyKey}
  BY <1>1 DEF Calls, StringKeys
<1>3. previous[t] = Lookup(records, call[t].key)
  BY DEF IInv, LookupIsCurrent
<1> QED BY <1>1, <1>2, <1>3 DEF Table

LEMMA GetSimulates ==
  ASSUME IInv, StableInv, NextH, NEW t \in Threads, GetReturn(t)
  PROVE  Abstract!Next
<1> DEFINE key == call[t].key
<1>1. pc[t] = "body" /\ Leave(t, "returned", previous[t])
  BY DEF GetReturn, InBody
<1>2. /\ key \in Keys \cup {EmptyKey} /\ previous[t] = Lookup(stable.records, key)
      /\ stable.records = records /\ stable.order = order /\ stable.evictions = evictions
  BY <1>1, BodyState
<1>3. /\ stable'.records = records' /\ stable'.order = order' /\ stable'.evictions = evictions'
      /\ reply' = [reply EXCEPT ![t] = [kind |-> "returned", key |-> key, value |-> previous[t]]]
  BY <1>1, LeaveTable
<1>4. Abstract!Get(t, key)
  BY <1>2, <1>3, AbstractOperators DEF GetReturn, Abstract!Get, Abstract!TouchOnGet, Abstract!Answer
<1> QED BY <1>2, <1>4 DEF Abstract!Next

\* put returns: its record is written and just enough of the oldest are gone.
LEMMA PutSimulates ==
  ASSUME IInv, StableInv, NextH, NEW t \in Threads, PutReturn(t)
  PROVE  Abstract!Next
<1> DEFINE key == call[t].key
           payload == call[t].payload
           expected == call[t].expected
           n == evictions - stable.evictions
           written == [stable.records EXCEPT ![key] = NewRecord(t)]
           queue == MoveToEnd(stable.order, key)
<1>1. /\ pc[t] = "evict" /\ ~Overfull(t) /\ Leave(t, "returned", NewRecord(t))
      /\ UNCHANGED dictVars
  BY DEF PutReturn, NewRecord
<1>2. call[t] \in Calls /\ ~Invalid(call[t]) /\ call[t].op = "put"
  BY <1>1 DEF IInv, CallsUnderWay
<1>3. /\ key \in Keys /\ payload \in Payloads /\ Size[payload] <= MaxBytes
      /\ expected \in Expectations /\ key # EmptyKey
  BY <1>2, PutArguments, StoreAssumption DEF Calls
<1>4. /\ stable'.records = records /\ stable'.order = order /\ stable'.evictions = evictions
      /\ reply' = [reply EXCEPT ![t] = [kind |-> "returned", key |-> key, value |-> NewRecord(t)]]
  BY <1>1, LeaveTable DEF dictVars
<1>5. /\ previous[t] = stable.records[key] /\ ~Conflicts(t)
      /\ EvictedSoFar(t, n)
  BY <1>1 DEF StableInv
<1>6. bytes <= MaxBytes /\ bytes = TotalBytes(records)
  <2>1. bytes \in Int /\ MaxBytes \in Nat
    BY StoreAssumption DEF IInv, TypeOK
  <2>2. order # <<>> /\ (Len(order) = 1 => bytes <= MaxBytes)
    BY <1>1, NewestIsNeverVictim
  <2> QED BY <1>1, <2>1, <2>2 DEF Overfull, IInv, BytesCounted
<1>7. evictions \in Nat /\ stable.evictions \in Nat
  BY DEF IInv, TypeOK, StableInv, Tables
<1>8. Abstract!NextRecord(key, payload) = NewRecord(t)
  BY <1>5, AbstractOperators DEF Abstract!NextRecord, NewRecord
<1>9. Abstract!Accepted(key, payload, expected)
  BY <1>3, <1>5, AbstractOperators
     DEF Abstract!Accepted, Abstract!Conflicts, Conflicts, Lookup
<1>10. Abstract!Write(key, payload)
  <2> DEFINE Fits(m) == TotalBytes(WithoutOldest(written, queue, m)) <= MaxBytes
  <2>1. /\ n \in 0 .. Len(queue) - 1
        /\ records = WithoutOldest(written, queue, n)
        /\ order = SubSeq(queue, n + 1, Len(queue))
        /\ \A m \in 0 .. n - 1 : ~(TotalBytes(WithoutOldest(written, queue, m)) <= MaxBytes)
    BY <1>5 DEF EvictedSoFar
  <2>2. Fits(n)
    BY <1>6, <2>1
  <2>3. \A m \in 0 .. n - 1 : ~Fits(m)
    BY <2>1
  <2>4. stable'.evictions = stable.evictions + n
    BY <1>4, <1>7
  <2> QED BY <1>4, <1>8, <2>1, <2>2, <2>3, <2>4, AbstractOperators DEF Abstract!Write
<1>11. Abstract!Put(t, key, payload, expected)
  BY <1>4, <1>8, <1>9, <1>10 DEF Abstract!Put, Abstract!Answer
<1> QED BY <1>3, <1>11, AbstractOperators DEF Abstract!Next

\* A put or a delete that expected another version, a delete that finds
\* nothing, and the statistics leave the abstract table alone too.
LEMMA AnswerSimulates ==
  ASSUME IInv, StableInv, NextH, NEW t \in Threads,
         PutConflict(t) \/ DeleteAbsent(t) \/ DeleteConflict(t) \/ StatsReturn(t)
  PROVE  Abstract!Next
<1> DEFINE key == call[t].key
           expected == call[t].expected
<1>1. pc[t] = "body" /\ UNCHANGED dictVars
  BY DEF PutConflict, DeleteAbsent, DeleteConflict, StatsReturn, InBody
<1>2. /\ call[t] \in Calls /\ ~Invalid(call[t]) /\ key \in Keys \cup {EmptyKey}
      /\ previous[t] = Lookup(stable.records, key)
      /\ stable.records = records /\ stable.order = order /\ stable.evictions = evictions
  BY <1>1, BodyState
<1>3. ASSUME NEW kind, NEW value, Leave(t, kind, value)
      PROVE  /\ stable'.records = stable.records /\ stable'.order = stable.order
             /\ stable'.evictions = stable.evictions
             /\ reply' = [reply EXCEPT ![t] = [kind |-> kind, key |-> key, value |-> value]]
  BY <1>1, <1>2, <1>3, LeaveTable DEF dictVars
<1>4. CASE PutConflict(t)
  <2>1. call[t].op = "put" /\ Leave(t, "VersionConflict", None) /\ Conflicts(t)
    BY <1>4 DEF PutConflict, InBody
  <2>2. /\ key \in Keys /\ key # EmptyKey /\ call[t].payload \in Payloads
        /\ Size[call[t].payload] <= MaxBytes /\ expected \in Expectations
    BY <1>2, <2>1, PutArguments, StoreAssumption DEF Calls
  <2>3. Abstract!PutConflict(t, key, call[t].payload, expected)
    BY <1>2, <1>3, <2>1, <2>2, AbstractOperators
       DEF Abstract!PutConflict, Abstract!Conflicts, Conflicts, Abstract!Answer,
           Abstract!storeVars
  <2> QED BY <2>2, <2>3, AbstractOperators DEF Abstract!Next
<1>5. CASE DeleteAbsent(t) \/ DeleteConflict(t)
  <2>1. call[t].op = "delete"
    BY <1>5 DEF DeleteAbsent, DeleteConflict, InBody
  <2>2. expected \in Expectations
    BY <1>2, <2>1 DEF Calls
  <2>3. Abstract!Delete(t, key, expected)
    BY <1>2, <1>3, <1>5, AbstractOperators
       DEF DeleteAbsent, DeleteConflict, Abstract!Delete, Abstract!Conflicts, Conflicts,
           Abstract!Answer, Abstract!storeVars
  <2> QED BY <1>2, <2>2, <2>3, AbstractOperators DEF Abstract!Next
<1>6. CASE StatsReturn(t)
  <2> DEFINE value == [entries |-> Len(order), bytes |-> bytes, evictions |-> evictions]
  <2>1. Leave(t, "stats", value) /\ key = EmptyKey
    BY <1>2, <1>6 DEF StatsReturn, InBody, Calls
  <2>2. value = [entries |-> Cardinality(Resident(stable.records)),
                 bytes |-> TotalBytes(stable.records), evictions |-> stable.evictions]
    BY <1>2, OrderCountsRecords DEF IInv, BytesCounted
  <2> HIDE DEF value
  <2>3. /\ stable'.records = stable.records /\ stable'.order = stable.order
        /\ stable'.evictions = stable.evictions
        /\ reply' = [reply EXCEPT ![t] = [kind |-> "stats", key |-> EmptyKey, value |-> value]]
    BY <1>3, <2>1
  <2>4. Abstract!Cardinality(Resident(stable.records)) = Cardinality(Resident(stable.records))
    BY DEF Abstract!Cardinality, Cardinality
  <2>5. Abstract!Stats(t)
    BY <2>2, <2>3, <2>4, AbstractOperators DEF Abstract!Stats, Abstract!Answer, Abstract!storeVars
  <2> QED BY <1>2, <2>5 DEF Abstract!Next
<1> QED BY <1>4, <1>5, <1>6

LEMMA DeleteSimulates ==
  ASSUME IInv, StableInv, NextH, NEW t \in Threads, DeleteRemove(t)
  PROVE  Abstract!Next
<1> DEFINE key == call[t].key
           expected == call[t].expected
<1>1. /\ pc[t] = "body" /\ call[t].op = "delete" /\ Leave(t, "deleted", None)
      /\ previous[t] # None /\ ~Conflicts(t)
      /\ records' = [records EXCEPT ![key] = None] /\ order' = RemoveFirst(order, key)
      /\ evictions' = evictions
  BY DEF DeleteRemove, InBody
<1>2. /\ call[t] \in Calls /\ key \in Keys \cup {EmptyKey}
      /\ previous[t] = Lookup(stable.records, key)
      /\ stable.records = records /\ stable.order = order /\ stable.evictions = evictions
  BY <1>1, BodyState
<1>3. expected \in Expectations
  BY <1>1, <1>2 DEF Calls
<1>4. /\ stable'.records = records' /\ stable'.order = order' /\ stable'.evictions = evictions'
      /\ reply' = [reply EXCEPT ![t] = [kind |-> "deleted", key |-> key, value |-> None]]
  <2>1. Leave(t, "deleted", None)
    BY <1>1
  <2> QED BY <2>1, LeaveTable
<1>5. Abstract!Erase(key) /\ Abstract!Answer(t, "deleted", key, None)
  BY <1>1, <1>2, <1>4, AbstractOperators DEF Abstract!Erase, Abstract!Answer
<1>6. ~Abstract!Conflicts(Abstract!Lookup(stable.records, key), expected)
  BY <1>1, <1>2, AbstractOperators DEF Abstract!Conflicts, Conflicts
<1>7. Abstract!Delete(t, key, expected)
  BY <1>1, <1>2, <1>5, <1>6, AbstractOperators DEF Abstract!Delete
<1> QED BY <1>2, <1>3, <1>7, AbstractOperators DEF Abstract!Next

\* Every step of the store is one of the atomic store, or invisible there.
LEMMA NextSimulates ==
  ASSUME IInv, StableInv, [NextH]_varsH
  PROVE  [Abstract!Next]_(Abstract!vars)
<1>1. CASE UNCHANGED varsH
  BY <1>1 DEF varsH, vars, Abstract!vars
<1>2. CASE NextH
  <2>1. ASSUME NEW t \in Threads, NEW c \in Calls, Begin(t, c) \/ BeginInvalid(t, c)
        PROVE  Abstract!Next
    BY <1>2, <2>1, BeginSimulates
  <2>2. ASSUME NEW t \in Threads, Enter(t) \/ PutWrite(t) \/ EvictOne(t)
        PROVE  UNCHANGED Abstract!vars
    <3>1. lock' # None
      BY <2>2, ThreadAssumption DEF Enter, PutWrite, EvictOne, InBody, IInv, LockHolder
    <3> QED BY <1>2, <2>2, <3>1 DEF NextH, Enter, PutWrite, EvictOne, Abstract!vars
  <2>3. ASSUME NEW t \in Threads, GetReturn(t) PROVE Abstract!Next
    BY <1>2, <2>3, GetSimulates
  <2>4. ASSUME NEW t \in Threads, PutReturn(t) PROVE Abstract!Next
    BY <1>2, <2>4, PutSimulates
  <2>5. ASSUME NEW t \in Threads, DeleteRemove(t) PROVE Abstract!Next
    BY <1>2, <2>5, DeleteSimulates
  <2>6. ASSUME NEW t \in Threads,
               PutConflict(t) \/ DeleteAbsent(t) \/ DeleteConflict(t) \/ StatsReturn(t)
        PROVE  Abstract!Next
    BY <1>2, <2>6, AnswerSimulates
  <2> QED
    BY <1>2, <2>1, <2>2, <2>3, <2>4, <2>5, <2>6 DEF NextH, Next, Critical
<1> QED BY <1>1, <1>2

\* MemoryStateStore implements StateStore: whatever the threads do, every
\* get, put, delete and stats has the effect and the result it would have if
\* it took place at the one instant at which its thread leaves the lock.
THEOREM Refinement == SpecH => ImplementsStateStore
<1>1. InitH => IInv /\ StableInv /\ Abstract!Init
  <2> SUFFICES ASSUME InitH PROVE IInv /\ StableInv /\ Abstract!Init
    OBVIOUS
  <2>1. IInv
    BY InitIInv DEF InitH
  <2>2. StableInv
    <3>1. stable \in Tables /\ IsInjective(stable.order)
      BY <2>1 DEF InitH, IInv, TypeOK, OrderIsResident, Table, Tables
    <3> QED BY <3>1 DEF InitH, Init, StableInv
  <2>3. Abstract!Init
    BY AbstractOperators DEF InitH, Init, Table, Abstract!Init
  <2> QED BY <2>1, <2>2, <2>3
<1>2. IInv /\ StableInv /\ [NextH]_varsH =>
          IInv' /\ StableInv' /\ [Abstract!Next]_(Abstract!vars)
  <2> SUFFICES ASSUME IInv, StableInv, [NextH]_varsH
               PROVE  IInv' /\ StableInv' /\ [Abstract!Next]_(Abstract!vars)
    OBVIOUS
  <2>1. [Next]_vars
    BY DEF NextH, varsH
  <2>2. IInv'
    BY <2>1, NextIInv
  <2> QED BY <2>2, NextStable, NextSimulates
<1> QED BY <1>1, <1>2, PTL DEF SpecH, ImplementsStateStore, Abstract!Spec
===========================================================================
