------------------------------ MODULE MCPxeServer ------------------------------
(* PxeServer for TLC: each node has an address of its own, one address is free. *)
EXTENDS PxeServer, TLC

CONSTANTS m, n, i, j, k

TwoNodes == m :> i @@ n :> j
OneNode  == n :> i

=============================================================================
