--------------------------- MODULE MCLeaseRenewal ---------------------------
(***************************************************************************)
(* Instances of LeaseRenewal for TLC: goroutines of two processes that     *)
(* share a store; or two that share a binding, with a third on an offline  *)
(* binding of its own.                                                     *)
(***************************************************************************)
EXTENDS LeaseRenewal, TLC

CONSTANTS p1, p2, g1, g2, g3

SharedStore == g1 :> p1 @@ g2 :> p2
SharedBinding == g1 :> p1 @@ g2 :> p1 @@ g3 :> p2

=============================================================================
