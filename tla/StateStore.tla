---------------------------- MODULE StateStore ----------------------------
(***************************************************************************)
(* What the in-memory store promises its callers: get, put and delete take *)
(* effect at one instant each, on a versioned table that never holds more  *)
(* than MaxBytes payload bytes and makes room by dropping the least        *)
(* recently used records, no more of them than necessary.                  *)
(* MemoryStateStore is shown to implement this specification, and the      *)
(* modules above the store use it in place of the detailed one.            *)
(***************************************************************************)
EXTENDS StateRecords

CONSTANTS
    Threads,            \* the callers
    ExpectedVersions    \* the expected_version values callers pass, besides None

VARIABLES
    records,    \* the key -> record table
    order,      \* its keys, least recently used first
    evictions,  \* records dropped to make room, ever
    reply       \* reply[t]: what t's latest call returned or raised, if it has

storeVars == <<records, order, evictions>>
vars == <<records, order, evictions, reply>>

Expectations == ExpectedVersions \cup {None}

Answer(t, kind, key, value) ==
    reply' = [reply EXCEPT ![t] = [kind |-> kind, key |-> key, value |-> value]]

NoReply == [kind |-> "none", key |-> EmptyKey, value |-> None]

Init ==
    /\ records = [k \in Keys |-> None]
    /\ order = <<>>
    /\ evictions = 0
    /\ reply = [t \in Threads |-> NoReply]

Conflicts(record, expected) ==
    expected # None /\ VersionOf(record) # expected

(***************************************************************************)
(* The effect of each operation on the table alone.                        *)
(***************************************************************************)
TouchOnGet(key) ==
    /\ order' = IF Lookup(records, key) = None THEN order
                ELSE MoveToEnd(order, key)
    /\ UNCHANGED <<records, evictions>>

Accepted(key, payload, expected) ==
    /\ key # EmptyKey
    /\ Size[payload] <= MaxBytes
    /\ ~Conflicts(Lookup(records, key), expected)

NextRecord(key, payload) ==
    [version |-> VersionOf(records[key]) + 1, payload |-> payload]

\* Store the record under key as the most recently used one, then drop the
\* fewest least recently used records that make the table fit.
Write(key, payload) ==
    LET written == [records EXCEPT ![key] = NextRecord(key, payload)]
        queue == MoveToEnd(order, key)
        Fits(n) == TotalBytes(WithoutOldest(written, queue, n)) <= MaxBytes
    IN  \E n \in 0 .. Len(queue) - 1 :
            /\ Fits(n)
            /\ \A m \in 0 .. n - 1 : ~Fits(m)
            /\ records' = WithoutOldest(written, queue, n)
            /\ order' = SubSeq(queue, n + 1, Len(queue))
            /\ evictions' = evictions + n

Erase(key) ==
    /\ records' = [records EXCEPT ![key] = None]
    /\ order' = RemoveFirst(order, key)
    /\ UNCHANGED evictions

(***************************************************************************)
(* The operations, with what they return.                                  *)
(***************************************************************************)
\* A call starts: from now until it answers, it may take effect.
Call(t) ==
    /\ reply' = [reply EXCEPT ![t] = NoReply]
    /\ UNCHANGED storeVars

Get(t, key) ==
    /\ TouchOnGet(key)
    /\ Answer(t, "returned", key, Lookup(records, key))

Put(t, key, payload, expected) ==
    /\ Accepted(key, payload, expected)
    /\ Write(key, payload)
    /\ Answer(t, "returned", key, NextRecord(key, payload))

PutInvalid(t, key, payload) ==
    /\ key = EmptyKey \/ Size[payload] > MaxBytes
    /\ Answer(t, "ValueError", key, None)
    /\ UNCHANGED storeVars

PutConflict(t, key, payload, expected) ==
    /\ key # EmptyKey /\ Size[payload] <= MaxBytes
    /\ Conflicts(Lookup(records, key), expected)
    /\ Answer(t, "VersionConflict", key, None)
    /\ UNCHANGED storeVars

Delete(t, key, expected) ==
    LET previous == Lookup(records, key) IN
    \/ /\ previous = None
       /\ Answer(t, "absent", key, None)
       /\ UNCHANGED storeVars
    \/ /\ previous # None /\ Conflicts(previous, expected)
       /\ Answer(t, "VersionConflict", key, None)
       /\ UNCHANGED storeVars
    \/ /\ previous # None /\ ~Conflicts(previous, expected)
       /\ Erase(key)
       /\ Answer(t, "deleted", key, None)

Stats(t) ==
    /\ Answer(t, "stats", EmptyKey,
              [entries |-> Cardinality(Resident(records)),
               bytes |-> TotalBytes(records),
               evictions |-> evictions])
    /\ UNCHANGED storeVars

Next ==
    \E t \in Threads, key \in Keys \cup {EmptyKey} :
        \/ Call(t)
        \/ Get(t, key)
        \/ Stats(t)
        \/ \E expected \in Expectations :
            \/ Delete(t, key, expected)
            \/ \E payload \in Payloads :
                \/ Put(t, key, payload, expected)
                \/ PutConflict(t, key, payload, expected)
                \/ PutInvalid(t, key, payload)

Spec == Init /\ [][Next]_vars
===========================================================================
