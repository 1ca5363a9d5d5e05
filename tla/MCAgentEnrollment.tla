------------------------- MODULE MCAgentEnrollment -------------------------
(***************************************************************************)
(* Instance of AgentEnrollment for TLC.                                    *)
(***************************************************************************)
EXTENDS AgentEnrollment
=============================================================================
