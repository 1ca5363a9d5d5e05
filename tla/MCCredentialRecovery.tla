------------------------ MODULE MCCredentialRecovery ------------------------
(***************************************************************************)
(* Instance of CredentialRecovery for TLC.  Cells are interchangeable:     *)
(* Init starts from every one of them and no action names one.             *)
(***************************************************************************)
EXTENDS CredentialRecovery, TLC

CellSymmetry == Permutations(Cells)

=============================================================================
