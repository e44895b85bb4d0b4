------------------------- MODULE MCCompareAndSwap -------------------------
(***************************************************************************)
(* Two threads, two keys and a store that holds one record at a time, so   *)
(* that writing one key evicts the other; two payloads, so that two        *)
(* records with one version can differ.                                    *)
(***************************************************************************)
EXTENDS CompareAndSwap

CONSTANTS p1, p2

MCPayloads == {p1, p2}
MCSize == (p1 :> 1) @@ (p2 :> 1)
===========================================================================
