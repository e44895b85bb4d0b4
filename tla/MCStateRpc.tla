---------------------------- MODULE MCStateRpc ----------------------------
(***************************************************************************)
(* Calls of every kind on one key: payloads the client can and cannot read *)
(* back, one the server refuses, one it accepts but the store refuses, an  *)
(* empty key and one too long for a header, conditional calls that do and  *)
(* do not find the version they expect, and metadata that fits put's       *)
(* header but not that of the answer to get, or neither.                   *)
(***************************************************************************)
EXTENDS StateRpc

CONSTANTS k, long, small, medium, large, huge, edge, wide

MCPayloads == {NoBytes, Cut, small, medium, large, huge, edge, wide}
MCSize ==
    (NoBytes :> 0) @@ (Cut :> 1) @@ (small :> 1) @@ (medium :> 2) @@ (large :> 3) @@ (huge :> 4)
        @@ (edge :> 1) @@ (wide :> 1)
MCMetadata == [p \in MCPayloads |-> CASE p = edge -> 2 [] p = wide -> 3 [] OTHER -> 0]
MCKeyBytes == (EmptyKey :> 0) @@ (k :> 1) @@ (long :> 4)
MCRequestHeader == [op \in Operations |-> 1]

Request(op, key, payload, expected) ==
    [op |-> op, key |-> key, payload |-> payload, expected |-> expected]

MCRequests ==
    {Request("put", k, small, None), Request("put", k, medium, 0), Request("put", k, small, 1),
     Request("put", k, large, None), Request("put", k, huge, None),
     Request("put", k, edge, None), Request("put", k, wide, None),
     Request("get", k, NoBytes, None), Request("get", long, NoBytes, None),
     Request("get", EmptyKey, NoBytes, None),
     Request("delete", k, NoBytes, None), Request("delete", k, NoBytes, 2),
     Request("stats", EmptyKey, NoBytes, None), Request("ping", EmptyKey, NoBytes, None)}
===========================================================================
