--------------------------- MODULE MCStateCustody ---------------------------
(* Three writers of one state: one verifies the key of the secret, one     *)
(* leaves the key to the service, one was given the secret's ARN.          *)
EXTENDS StateCustody

CONSTANTS w1, w2, w3, k1, k2

MCKey == [w \in {w1, w2, w3} |-> CASE w = w1 -> k1 [] w = w2 -> Default [] w = w3 -> k2]
=============================================================================
