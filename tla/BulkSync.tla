------------------------------ MODULE BulkSync ------------------------------
(***************************************************************************)
(* What the synchronous cluster promises, layer by layer: parameters flow  *)
(* down the tree, gradients flow up, and the root makes the next version   *)
(* of a layer from the gradients of the last one.  Parts, messages,        *)
(* queues and threads do not appear; SynchronousNode implements this.      *)
(***************************************************************************)
EXTENDS TreeCluster

CONSTANTS Layer,    \* the layers that need syncing
          MaxIter   \* the bound on versions (max_iter of the solver)

ASSUME MaxIterAssumption == MaxIter \in Nat \ {0}

VARIABLES ver,  \* the version of the parameters each node has of each layer
          own,  \* the version of the last gradient each node has computed itself
          up    \* the version of the last gradient of its subtree a node has
                \* handed to its parent

vars == <<ver, own, up>>

Init ==
  /\ ver = [n \in Node |-> [l \in Layer |-> IF n = 0 THEN 1 ELSE 0]]
  /\ own = [n \in Node |-> [l \in Layer |-> 0]]
  /\ up = [n \in Node |-> [l \in Layer |-> 0]]

\* The root has its own gradient and those of all its subtrees, and makes the
\* next version.
Update_SkipsChildren(l) ==
  /\ ver[0][l] < MaxIter
  /\ own[0][l] = ver[0][l]
  /\ ver' = [ver EXCEPT ![0][l] = @ + 1]
  /\ UNCHANGED <<own, up>>

Update(l) ==
  /\ ver[0][l] < MaxIter
  /\ own[0][l] = ver[0][l]
  /\ \A c \in children(0) : up[c][l] = ver[0][l]
  /\ ver' = [ver EXCEPT ![0][l] = @ + 1]
  /\ UNCHANGED <<own, up>>

\* A node receives its parent's parameters.
Pull(n, l) ==
  /\ ~is_root(n)
  /\ ver[n][l] < ver[parent(n)][l]
  /\ ver' = [ver EXCEPT ![n][l] = ver[parent(n)][l]]
  /\ UNCHANGED <<own, up>>

\* A node computes its gradient for the parameters it has.
Compute(n, l) ==
  /\ own[n][l] < ver[n][l]
  /\ own' = [own EXCEPT ![n][l] = ver[n][l]]
  /\ UNCHANGED <<ver, up>>

\* A node hands the gradients of its whole subtree to its parent.
PushUp_OwnOnly(n, l) ==
  /\ ~is_root(n)
  /\ own[n][l] = ver[n][l]
  /\ up[n][l] < ver[n][l]
  /\ up' = [up EXCEPT ![n][l] = ver[n][l]]
  /\ UNCHANGED <<ver, own>>

PushUp_LeavesOnly(n, l) == is_leaf(n) /\ PushUp_OwnOnly(n, l)

PushUp(n, l) ==
  /\ ~is_root(n)
  /\ own[n][l] = ver[n][l]
  /\ up[n][l] < ver[n][l]
  /\ \A c \in children(n) : up[c][l] = ver[n][l]
  /\ up' = [up EXCEPT ![n][l] = ver[n][l]]
  /\ UNCHANGED <<ver, own>>

Next ==
  \E l \in Layer :
    \/ Update(l)
    \/ \E n \in Node : Pull(n, l) \/ Compute(n, l) \/ PushUp(n, l)

Spec == Init /\ [][Next]_vars

FairSpec == Spec /\ WF_vars(Next)

-----------------------------------------------------------------------------
\* Versions are naturals up to the last iteration.
TypeOK ==
  /\ ver \in [Node -> [Layer -> 0..MaxIter]]
  /\ own \in [Node -> [Layer -> 0..MaxIter]]
  /\ up \in [Node -> [Layer -> 0..MaxIter]]

\* Version v of a layer's parameters is made only after every node of the
\* tree has computed its gradient for version v-1, however deep it sits: the
\* "synchronous" in SynchronousNode (SynchronousNode.cpp:327-344, 436-462).
EveryoneContributed ==
  \A n \in Node, l \in Layer : own[n][l] + 1 >= ver[0][l]

\* No node is ahead of the root, and none is more than one version behind.
Lockstep ==
  \A n \in Node, l \in Layer : ver[n][l] <= ver[0][l] /\ ver[0][l] <= ver[n][l] + 1

\* Gradients are handed up in order: what a node has handed up, its children
\* have handed to it and it has computed itself.
SubtreeFirst ==
  \A n \in Node, l \in Layer :
    /\ up[n][l] <= own[n][l]
    /\ own[n][l] <= ver[n][l]
    /\ \A c \in children(n) : up[n][l] <= up[c][l]

\* The inductive invariant.
IInv ==
  /\ TypeOK
  /\ SubtreeFirst
  /\ EveryoneContributed
  /\ \A n \in Node, l \in Layer : ver[n][l] <= ver[0][l]

\* Training goes through all the versions.
Completes == <>(\A n \in Node, l \in Layer : ver[n][l] = MaxIter)
=============================================================================
