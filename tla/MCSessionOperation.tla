------------------------- MODULE MCSessionOperation -------------------------
(***************************************************************************)
(* Instance of SessionOperation for TLC: two goroutines of one process     *)
(* that share a binding, and two cells.  Goroutines are interchangeable,   *)
(* and so are cells; the properties of the run are safety properties.      *)
(***************************************************************************)
EXTENDS SessionOperation, TLC

CONSTANTS p1, g1, g2, c1, c2

SharedBinding == g1 :> p1 @@ g2 :> p1

Symmetric == Permutations({g1, g2}) \cup Permutations({c1, c2})

=============================================================================
