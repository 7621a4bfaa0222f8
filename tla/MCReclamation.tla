---------------------------- MODULE MCReclamation ----------------------------
(***************************************************************************)
(* The deployments of MCReadHistory, with the history of what operations   *)
(* leave behind.                                                           *)
(***************************************************************************)
EXTENDS Reclamation

CONSTANTS c1, c2, c3

\* Values live one second by default; c2 did not opt in.
MixedTtl == [c \in Clients |-> IF c = c2 THEN None ELSE 1]
==============================================================================
