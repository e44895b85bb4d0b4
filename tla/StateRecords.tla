--------------------------- MODULE StateRecords ---------------------------
(***************************************************************************)
(* The data every store of store.py works on: versioned records under      *)
(* keys, the recency order of an OrderedDict, and the number of payload    *)
(* bytes a set of records occupies.                                        *)
(*                                                                         *)
(* A payload is opaque; only its length matters here (Size).  Metadata and *)
(* creation time travel with a record unread and are left out.             *)
(***************************************************************************)
EXTENDS Integers, FiniteSets, SequencesExt

CONSTANTS
    Keys,       \* the non-empty key strings a caller may use
    EmptyKey,   \* the key "", which put refuses
    Payloads,   \* payload byte strings
    Size,       \* Size[p] = len(p)
    MaxBytes,   \* MemoryStateStore.max_bytes
    None        \* Python's None: no record, no expected_version, no thread

ASSUME StoreAssumption ==
    /\ IsFiniteSet(Keys)
    /\ EmptyKey \notin Keys
    /\ Size \in [Payloads -> Nat]
    /\ MaxBytes \in Nat \ {0}

\* A StateRecord without the key it is stored under.  Versions start at 1.
StateRecord == [version : Nat \ {0}, payload : Payloads]

ASSUME NoneIsNoRecord == None \notin StateRecord

\* An OrderedDict seen as a lookup table: None where the key is absent.
RecordTables == [Keys -> StateRecord \cup {None}]

Resident(records) == {k \in Keys : records[k] # None}

\* records.get(key), for any string key.
Lookup(records, key) == IF key \in Keys THEN records[key] ELSE None

\* Faulty variant: counting versions from 0.
VersionFromZero(record) == IF record = None THEN -1 ELSE record.version

\* previous.version if previous else 0
VersionOf(record) == IF record = None THEN 0 ELSE record.version

\* len(record.payload), 0 when there is no record.
SizeOf(record) == IF record = None THEN 0 ELSE Size[record.payload]

\* The payload bytes a table holds, each byte a (key, offset) pair, and how
\* many they are.  No stored payload is longer than MaxBytes.
StoredBytes(records) ==
    {b \in Keys \X (1..MaxBytes) : b[2] <= SizeOf(records[b[1]])}

TotalBytes(records) == Cardinality(StoredBytes(records))

\* Faulty variant: assigning without move_to_end keeps an old key's place.
KeepPlace(order, key) == IF Contains(order, key) THEN order ELSE Append(order, key)

\* An OrderedDict seen as its iteration order: assigning a key and moving it
\* to the end leaves it last, whether it was there before or not.
MoveToEnd(order, key) == Append(RemoveFirst(order, key), key)

\* The table without the n oldest keys of the order.
WithoutOldest(records, order, n) ==
    [k \in Keys |-> IF \E i \in 1..n : order[i] = k THEN None ELSE records[k]]
===========================================================================
