--------------------------- MODULE MCBlobSyncInfo ---------------------------
(* Small instances of BlobSyncInfo for TLC. *)
EXTENDS BlobSyncInfo

CONSTANTS self, child, extra, solver, comm

\* A node of the tree with one child; the other remote joins late and may leave.
MCLayerOf == [p \in Part |-> p \div 10]
MCCallsBy == [t \in Thread |-> IF t = solver THEN {self} ELSE RemoteId \ {self}]
MCMaxVersion == [l \in Layer |-> IF l = 1 THEN 3 ELSE 2]
=============================================================================
