-------------------------- MODULE MCRuntimeClient --------------------------
(* Two goroutines of one agent, each with two calls of any kind, while the *)
(* credential in the store is replaced, or the store is given to another   *)
(* agent.                                                                  *)
EXTENDS RuntimeClient
=============================================================================
