------------------------- MODULE MCSynchronousNode --------------------------
(* Small clusters for TLC. *)
EXTENDS SynchronousNode

\* Part 10*l + i is the i-th part of layer l; the even nodes run two passes.
MCLayerOf == [p \in Part |-> p \div 10]
MCLocalIters == [n \in Node |-> 2 - (n % 2)]
=============================================================================
