----------------------------- MODULE MCBalancer -----------------------------
(***************************************************************************)
(* Instances of Balancer for TLC.                                           *)
(***************************************************************************)
EXTENDS Balancer, TLC

CONSTANTS n1, n2, n3, n4

MCWeight == (n1 :> 1) @@ (n2 :> 0) @@ (n3 :> 2) @@ (n4 :> 3)

=============================================================================
