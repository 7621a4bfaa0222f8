--------------------------- MODULE MCReadHistory ---------------------------
(***************************************************************************)
(* The same deployments, with the history of what each read may return.    *)
(***************************************************************************)
EXTENDS ReadHistory

CONSTANTS c1, c2, c3

\* Values live one second by default; c2 did not opt in.
MixedTtl == [c \in Clients |-> IF c = c2 THEN None ELSE 1]
=============================================================================
