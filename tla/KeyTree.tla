------------------------------ MODULE KeyTree ------------------------------
(***************************************************************************)
(* What the key space promises: one table that several storages share      *)
(* looks like one tree of paths, and each storage keeps a value per path   *)
(* below its root, whatever the partition and sort keys are.               *)
(***************************************************************************)
CONSTANT Paths

VARIABLE tree  \* the paths that hold a value

TreeInit == tree = {}

Put(p) == tree' = tree \cup {p}

Remove(p) == tree' = tree \ {p}

TreeNext == \E p \in Paths : Put(p) \/ Remove(p)

TreeSpec == TreeInit /\ [][TreeNext]_tree
=============================================================================
