---------------------------- MODULE MCMessageBus -----------------------------
(***************************************************************************)
(* A small instance of MessageBus: three nodes of which two share a        *)
(* NodeID, a broadcast and a directed message, a handler that can send.    *)
(***************************************************************************)
EXTENDS MessageBus, TLC

CONSTANTS n1, n2, n3, idA, idB, wind, s1

MCID == (n1 :> idA) @@ (n2 :> idB) @@ (n3 :> idA)

MCMessages == {[type |-> wind, dest |-> NoDest], [type |-> wind, dest |-> idB]}
==============================================================================
