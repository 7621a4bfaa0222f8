------------------------- MODULE MCDynamoDBStorage -------------------------
(***************************************************************************)
(* Small deployments of DynamoDBStorage for TLC: who opted in to TTL, and  *)
(* with how many seconds.                                                  *)
(***************************************************************************)
EXTENDS DynamoDBStorage

CONSTANTS c1, c2, c3

\* No instance opted in to TTL.
NoTtl == [c \in Clients |-> None]

\* Values live one second by default; c2 did not opt in.
MixedTtl == [c \in Clients |-> IF c = c2 THEN None ELSE 1]
=============================================================================
