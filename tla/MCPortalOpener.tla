--------------------------- MODULE MCPortalOpener ---------------------------
(***************************************************************************)
(* PortalOpener with two goroutines in Start, one in Do and a platform     *)
(* that may change its mind about the target.                              *)
(***************************************************************************)
EXTENDS PortalOpener, TLC

=============================================================================
