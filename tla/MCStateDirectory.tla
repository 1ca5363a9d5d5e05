-------------------------- MODULE MCStateDirectory --------------------------
(***************************************************************************)
(* Instances of StateDirectory: two processes on one state path, the first *)
(* with an updater and a lock-free loader on one handle.                   *)
(***************************************************************************)
EXTENDS StateDirectory, TLC

CONSTANTS h1, h2, t1, t2, t3

TwoProcesses == t1 :> h1 @@ t2 :> h2 @@ t3 :> h1

=============================================================================
