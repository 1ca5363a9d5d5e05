-------------------------- MODULE MCNativeExchange --------------------------
(***************************************************************************)
(* Instances of NativeExchange for TLC.                                    *)
(***************************************************************************)
EXTENDS NativeExchange
=============================================================================
