------------------------ MODULE MCMemoryStateStore ------------------------
(***************************************************************************)
(* A two-byte store with three keys.  One payload is half of the store,    *)
(* one fills it (so that one put may evict two records), one is empty      *)
(* (b"", whose eviction frees nothing) and one is larger than the whole    *)
(* store.  The code treats keys alike, and threads alike.                  *)
(***************************************************************************)
EXTENDS MemoryStateStoreRefinement

CONSTANTS empty, half, full, large

MCPayloads == {empty, half, full, large}
MCSize == (empty :> 0) @@ (half :> 1) @@ (full :> 2) @@ (large :> 3)
MCSymmetry == Permutations(Keys) \cup Permutations(Threads)
===========================================================================
