---------------------------- MODULE StateRegister ----------------------------
(***************************************************************************)
(* What local agent-state stores promise about the state directories they  *)
(* are used on: the visible state is always the result of whole saves, and *)
(* whatever happens (a failed save, a second process, a power loss) it     *)
(* never goes back before a save whose success was reported.  A state is   *)
(* the history of the saves it was computed from.                          *)
(***************************************************************************)
EXTENDS Sequences, SequencesExt

CONSTANTS Directories, Writers

VARIABLES
  val,    \* per directory: the state a reader finds
  acked   \* per directory: the state of the last save that returned nil

Init ==
  /\ val = [d \in Directories |-> <<>>]
  /\ acked = val

\* A save becomes visible, or a power loss takes back saves nobody was told of.
Move ==
  /\ val' \in [Directories -> Seq(Writers)]
  /\ \A d \in Directories : IsPrefix(acked[d], val'[d])
  /\ UNCHANGED acked

\* A save returns nil: the visible state is the one it wrote.
Acknowledge(d) ==
  /\ acked' = [acked EXCEPT ![d] = val[d]]
  /\ UNCHANGED val

Next == Move \/ \E d \in Directories : Acknowledge(d)

Spec == Init /\ [][Next]_<<val, acked>>

=============================================================================
