-------------------- MODULE MemoryStateStoreRefinement --------------------
(***************************************************************************)
(* MemoryStateStore implements StateStore: seen by its callers, every call *)
(* takes effect at the instant its thread releases the lock.  The history  *)
(* variable keeps the table as it was when the lock was last free, which   *)
(* is the table the abstract store has.                                    *)
(***************************************************************************)
EXTENDS MemoryStateStore

VARIABLE stable

Table == [records |-> records, order |-> order, evictions |-> evictions]

InitH == Init /\ stable = Table

NextH == Next /\ stable' = IF lock' = None THEN Table' ELSE stable

varsH == <<vars, stable>>

SpecH == InitH /\ [][NextH]_varsH

Abstract == INSTANCE StateStore WITH
    records <- stable.records,
    order <- stable.order,
    evictions <- stable.evictions

\* Every behaviour of the store is one of the atomic, least-recently-used,
\* byte-bounded store (the whole of MemoryStateStore, under its lock).
ImplementsStateStore == Abstract!Spec
===========================================================================
