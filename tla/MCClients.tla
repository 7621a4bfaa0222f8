------------------------------ MODULE MCClients ------------------------------
(***************************************************************************)
(* Instances of Clients: a storage and two views of it (one may be a view  *)
(* of the other), and the model IDs and settings Embedders is checked on.  *)
(***************************************************************************)
EXTENDS StoreEmbedders, TLC

CONSTANTS s1, s2, s3, c1, c2, m1, east, west

\* Views, and calls, are interchangeable.
Symmetry == Permutations({s2, s3}) \cup Permutations({c1, c2})
==============================================================================
