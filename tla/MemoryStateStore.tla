------------------------- MODULE MemoryStateStore -------------------------
(***************************************************************************)
(* MemoryStateStore of store.py: an OrderedDict of records, a running byte *)
(* count and an eviction counter, shared by the threads of one process     *)
(* (the TCP server runs one thread per connection) under one lock.         *)
(*                                                                         *)
(* A call is split where another thread could run if the lock were not     *)
(* held: entering the critical section and looking the key up, changing    *)
(* the table, each round of the eviction loop, leaving.                    *)
(***************************************************************************)
EXTENDS StateRecords

CONSTANTS
    Threads,
    ExpectedVersions,
    MaxPuts             \* bound on the put calls of a behaviour

ASSUME ThreadAssumption ==
    /\ None \notin Threads
    /\ ExpectedVersions \subseteq Int
    /\ None \notin ExpectedVersions
    /\ MaxPuts \in Nat

VARIABLES
    records, order, \* _records: its lookup table and its iteration order
    bytes,          \* _bytes
    evictions,      \* _evictions
    lock,           \* the thread inside "with self._lock", or None
    pc,             \* pc[t]: where t is in its call
    call,           \* call[t]: the arguments of t's call, or None
    previous,       \* previous[t]: the record t looked up, a local variable
    reply,          \* reply[t]: what t's latest call returned or raised, if it has
    puts            \* put calls so far

dictVars == <<records, order, bytes, evictions>>
vars == <<records, order, bytes, evictions, lock, pc, call, previous, reply, puts>>

StringKeys == Keys \cup {EmptyKey}
Expectations == ExpectedVersions \cup {None}

Calls ==
    [op : {"get"}, key : StringKeys]
        \cup [op : {"put"}, key : StringKeys, payload : Payloads, expected : Expectations]
        \cup [op : {"delete"}, key : StringKeys, expected : Expectations]
        \cup [op : {"stats"}, key : {EmptyKey}]

NoReply == [kind |-> "none", key |-> EmptyKey, value |-> None]

Replies ==
    [kind : {"none", "returned", "deleted", "absent", "VersionConflict", "ValueError"},
     key : StringKeys,
     value : StateRecord \cup {None}]
        \cup [kind : {"stats"}, key : {EmptyKey},
              value : [entries : Nat, bytes : Int, evictions : Nat]]

Init ==
    /\ records = [k \in Keys |-> None]
    /\ order = <<>>
    /\ bytes = 0
    /\ evictions = 0
    /\ lock = None
    /\ pc = [t \in Threads |-> "idle"]
    /\ call = [t \in Threads |-> None]
    /\ previous = [t \in Threads |-> None]
    /\ reply = [t \in Threads |-> NoReply]
    /\ puts = 0

Answer(t, kind, value) ==
    reply' = [reply EXCEPT ![t] = [kind |-> kind, key |-> call[t].key, value |-> value]]

\* Leaving "with self._lock", by return or by exception.
Leave(t, kind, value) ==
    /\ lock' = None
    /\ pc' = [pc EXCEPT ![t] = "idle"]
    /\ call' = [call EXCEPT ![t] = None]
    /\ previous' = [previous EXCEPT ![t] = None]
    /\ Answer(t, kind, value)
    /\ UNCHANGED puts

\* put's checks before it takes the lock.
Invalid(c) == c.op = "put" /\ (c.key = EmptyKey \/ Size[c.payload] > MaxBytes)

CountPut(c) ==
    IF c.op = "put" THEN puts < MaxPuts /\ puts' = puts + 1 ELSE UNCHANGED puts

Begin(t, c) ==
    /\ pc[t] = "idle"
    /\ ~Invalid(c)
    /\ CountPut(c)
    /\ pc' = [pc EXCEPT ![t] = "enter"]
    /\ call' = [call EXCEPT ![t] = c]
    /\ reply' = [reply EXCEPT ![t] = NoReply]
    /\ UNCHANGED <<dictVars, lock, previous>>

BeginInvalid(t, c) ==
    /\ pc[t] = "idle"
    /\ Invalid(c)
    /\ CountPut(c)
    /\ reply' = [reply EXCEPT ![t] = [kind |-> "ValueError", key |-> c.key, value |-> None]]
    /\ UNCHANGED <<dictVars, lock, pc, call, previous>>

\* Faulty variant: the critical section without its lock.
EnterUnlocked(t) ==
    /\ pc[t] = "enter"
    /\ lock' = t
    /\ previous' = [previous EXCEPT ![t] = Lookup(records, call[t].key)]
    /\ pc' = [pc EXCEPT ![t] = "body"]
    /\ UNCHANGED <<dictVars, call, reply, puts>>

\* All three operations take the lock and look the key up first.
Enter(t) ==
    /\ pc[t] = "enter"
    /\ lock = None
    /\ lock' = t
    /\ previous' = [previous EXCEPT ![t] = Lookup(records, call[t].key)]
    /\ pc' = [pc EXCEPT ![t] = "body"]
    /\ UNCHANGED <<dictVars, call, reply, puts>>

InBody(t, op) == pc[t] = "body" /\ call[t].op = op

\* Faulty variant: a read that does not count as a use.
GetWithoutTouch(t) ==
    /\ InBody(t, "get")
    /\ Leave(t, "returned", previous[t])
    /\ UNCHANGED dictVars

GetReturn(t) ==
    /\ InBody(t, "get")
    /\ order' = IF previous[t] = None THEN order ELSE MoveToEnd(order, call[t].key)
    /\ Leave(t, "returned", previous[t])
    /\ UNCHANGED <<records, bytes, evictions>>

\* expected_version is not None and the version found is another one.
Conflicts(t) ==
    call[t].expected # None /\ VersionOf(previous[t]) # call[t].expected

\* Faulty variant: raising without releasing the lock.
PutConflictKeepsLock(t) ==
    /\ InBody(t, "put")
    /\ Conflicts(t)
    /\ pc' = [pc EXCEPT ![t] = "idle"]
    /\ Answer(t, "VersionConflict", None)
    /\ UNCHANGED <<dictVars, lock, call, previous, puts>>

PutConflict(t) ==
    /\ InBody(t, "put")
    /\ Conflicts(t)
    /\ Leave(t, "VersionConflict", None)
    /\ UNCHANGED dictVars

\* Faulty variant: the replaced payload stays counted.
PutWriteCountsTwice(t) ==
    LET key == call[t].key
        record == [version |-> VersionOf(previous[t]) + 1, payload |-> call[t].payload]
    IN  /\ InBody(t, "put")
        /\ ~Conflicts(t)
        /\ bytes' = bytes + Size[call[t].payload]
        /\ records' = [records EXCEPT ![key] = record]
        /\ order' = MoveToEnd(order, key)
        /\ pc' = [pc EXCEPT ![t] = "evict"]
        /\ UNCHANGED <<evictions, lock, call, previous, reply, puts>>

PutWrite(t) ==
    LET key == call[t].key
        record == [version |-> VersionOf(previous[t]) + 1, payload |-> call[t].payload]
    IN  /\ InBody(t, "put")
        /\ ~Conflicts(t)
        /\ bytes' = bytes - SizeOf(previous[t]) + Size[call[t].payload]
        /\ records' = [records EXCEPT ![key] = record]
        /\ order' = MoveToEnd(order, key)
        /\ pc' = [pc EXCEPT ![t] = "evict"]
        /\ UNCHANGED <<evictions, lock, call, previous, reply, puts>>

\* The loop of _evict_to_limit goes on.
Overfull(t) ==
    /\ bytes > MaxBytes
    /\ order # <<>>
    /\ ~(Head(order) = call[t].key /\ Len(order) = 1)

\* One round of it: the oldest record goes, but never the one just written.
EvictOne(t) ==
    LET exclude == call[t].key
        queue == IF Head(order) = exclude THEN MoveToEnd(order, exclude) ELSE order
        victim == Head(queue)
    IN  /\ pc[t] = "evict"
        /\ Overfull(t)
        /\ records' = [records EXCEPT ![victim] = None]
        /\ order' = Tail(queue)
        /\ bytes' = bytes - SizeOf(records[victim])
        /\ evictions' = evictions + 1
        /\ UNCHANGED <<lock, pc, call, previous, reply, puts>>

PutReturn(t) ==
    /\ pc[t] = "evict"
    /\ ~Overfull(t)
    /\ Leave(t, "returned",
             [version |-> VersionOf(previous[t]) + 1, payload |-> call[t].payload])
    /\ UNCHANGED dictVars

DeleteAbsent(t) ==
    /\ InBody(t, "delete")
    /\ previous[t] = None
    /\ Leave(t, "absent", None)
    /\ UNCHANGED dictVars

DeleteConflict(t) ==
    /\ InBody(t, "delete")
    /\ previous[t] # None
    /\ Conflicts(t)
    /\ Leave(t, "VersionConflict", None)
    /\ UNCHANGED dictVars

DeleteRemove(t) ==
    /\ InBody(t, "delete")
    /\ previous[t] # None
    /\ ~Conflicts(t)
    /\ records' = [records EXCEPT ![call[t].key] = None]
    /\ order' = RemoveFirst(order, call[t].key)
    /\ bytes' = bytes - SizeOf(previous[t])
    /\ Leave(t, "deleted", None)
    /\ UNCHANGED evictions

StatsReturn(t) ==
    /\ InBody(t, "stats")
    /\ Leave(t, "stats",
             [entries |-> Len(order), bytes |-> bytes, evictions |-> evictions])
    /\ UNCHANGED dictVars

\* The steps of the thread that holds the lock.
Critical(t) ==
    \/ GetReturn(t)
    \/ PutConflict(t) \/ PutWrite(t) \/ EvictOne(t) \/ PutReturn(t)
    \/ DeleteAbsent(t) \/ DeleteConflict(t) \/ DeleteRemove(t)
    \/ StatsReturn(t)

Next ==
    \E t \in Threads :
        \/ \E c \in Calls : Begin(t, c) \/ BeginInvalid(t, c)
        \/ Enter(t)
        \/ Critical(t)

Spec == Init /\ [][Next]_vars

\* Nothing blocks a thread inside the critical section, so the scheduler
\* eventually runs it.  Nothing is assumed about who gets the lock.
FairSpec == Spec /\ \A t \in Threads : WF_vars(Critical(t))

---------------------------------------------------------------------------
(***************************************************************************)
(* Properties.                                                             *)
(***************************************************************************)

\* Types; a call under way has passed put's checks.
TypeOK ==
    /\ records \in RecordTables
    /\ order \in Seq(Keys)
    /\ bytes \in Int
    /\ evictions \in Nat
    /\ lock \in Threads \cup {None}
    /\ pc \in [Threads -> {"idle", "enter", "body", "evict"}]
    /\ call \in [Threads -> Calls \cup {None}]
    /\ previous \in [Threads -> StateRecord \cup {None}]
    /\ reply \in [Threads -> Replies]
    /\ puts \in Nat

\* Whenever no thread is inside the store, the running byte count is exactly
\* the length of the stored payloads and within the limit: no path through
\* put, its evictions or delete counts a payload twice or not at all.
BytesBounded ==
    lock = None => bytes = TotalBytes(records) /\ bytes <= MaxBytes

\* While put makes room, the record it has just written is in the table, the
\* most recently used, and never the oldest one of an overfull table: the
\* branches of _evict_to_limit that spare the excluded key are never needed.
NewestSurvives ==
    \A t \in Threads : pc[t] = "evict" =>
        /\ records[call[t].key] =
               [version |-> VersionOf(previous[t]) + 1, payload |-> call[t].payload]
        /\ Last(order) = call[t].key
        /\ bytes > MaxBytes => Head(order) # call[t].key

\* A table entry only ever changes to its next version or leaves the table,
\* whatever the threads do between a put's lookup and its assignment.
VersionsAdvance ==
    [][\A k \in Keys : records'[k] \in {records[k], None}
            \/ records'[k].version = VersionOf(records[k]) + 1]_records

\* Every critical section ends: no return, exception or eviction loop keeps
\* the lock for ever.
LockIsReleased == \A t \in Threads : (lock = t) ~> (lock = None)
===========================================================================
