---------------------------- MODULE TreeCluster -----------------------------
(***************************************************************************)
(* The shape of the cluster: the MPI ranks form a binary tree in heap      *)
(* order (MpiTreeClient::children and ::parent).                           *)
(***************************************************************************)
EXTENDS Integers

CONSTANT NodeCount   \* the size of MPI_COMM_WORLD

ASSUME NodeCountAssumption == NodeCount \in Nat \ {0}

Node == 0 .. NodeCount - 1

children(n) == {c \in Node : c = 2 * n + 1 \/ c = 2 * n + 2}

parent(n) == IF n = 0 THEN 0 ELSE (n - 1) \div 2

is_root(n) == n = parent(n)

is_leaf(n) == children(n) = {}
=============================================================================
