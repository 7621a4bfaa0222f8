------------------------------ MODULE MCSearch ------------------------------
(***************************************************************************)
(* A small partition for TLC: two memories, an item of the application and *)
(* one of another namespace, and what is searched and written there.       *)
(***************************************************************************)
EXTENDS SearchHistory

CONSTANTS c1, c2, m1, m2, v1, e1, t1, t2, topic, reserved

Homes == (m1 :> "memory" @@ m2 :> "memory" @@ v1 :> "view" @@ e1 :> "elsewhere")
Hash == [t \in Texts |-> IF t = t1 THEN m1 ELSE m2]
Distance == [t \in Texts |-> IF t = t1 THEN 1 ELSE 3]
SomeMetas == {{topic, reserved}}
AllTexts == {t1, t2}
OneBefore == {{t1}}

\* An item without metadata, closer than the second memory.
SomeContents == {[data |-> t1, score |-> 2, meta |-> None, big |-> TRUE]}

\* An index that projects everything, one with the bytes only and one with the
\* metadata only; an adapter that returns stamps and one that does not.
SomeIndexes ==
  {[adapter |-> FALSE, carries |-> {"data", "meta", "exp"}],
   [adapter |-> FALSE, carries |-> {"data"}],
   [adapter |-> FALSE, carries |-> {"meta"}],
   [adapter |-> TRUE, carries |-> {"meta", "exp"}],
   [adapter |-> TRUE, carries |-> {"meta"}]}

Symmetry == Permutations(Clients)

SomeQueries ==
  {[limit |-> 1, filter |-> {topic}, values |-> TRUE, prefix |-> FALSE],
   [limit |-> 4, filter |-> None, values |-> FALSE, prefix |-> FALSE]}
=============================================================================
