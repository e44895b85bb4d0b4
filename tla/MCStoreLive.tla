---------------------------- MODULE MCStoreLive ----------------------------
(***************************************************************************)
(* The same store for the liveness property: no symmetry, two keys.        *)
(***************************************************************************)
EXTENDS MemoryStateStore

CONSTANTS half, full

MCPayloads == {half, full}
MCSize == (half :> 1) @@ (full :> 2)
============================================================================
