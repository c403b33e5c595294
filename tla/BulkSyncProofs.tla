--------------------------- MODULE BulkSyncProofs ---------------------------
(***************************************************************************)
(* For every size of the cluster, every set of layers and every number of  *)
(* iterations: no version is made without the gradient of every node.      *)
(***************************************************************************)
EXTENDS BulkSync, TLAPS, WellFoundedInduction

\* The tree is well formed: a rank other than 0 has a parent of smaller rank,
\* and is one of its parent's children (tree_cluster.cpp:193-214).
LEMMA ParentSmaller ==
  ASSUME NEW n \in Node, n # 0
  PROVE  parent(n) \in Node /\ parent(n) < n /\ n \in children(parent(n))
  BY NodeCountAssumption DEF Node, parent, children

\* Rank 0 is a node, and the only root.
LEMMA RootOnly ==
  /\ 0 \in Node
  /\ \A n \in Node : is_root(n) <=> n = 0
  BY NodeCountAssumption DEF Node, is_root, parent

\* A nonempty set of ranks has a smallest one.
LEMMA SmallestRank ==
  ASSUME NEW T, T \subseteq Node, T # {}
  PROVE  \E x \in T : \A y \in T : ~(y < x)
<1>1. T \subseteq Nat
  BY NodeCountAssumption DEF Node
<1>2. \E x \in T : \A y \in T : ~(<<y, x>> \in OpToRel(<, Nat))
  BY <1>1, NatLessThanWellFounded, WFMin
<1>3. QED
  BY ZenonT(60), <1>1, <1>2 DEF OpToRel

\* What the root's children have handed up, every node below has handed up:
\* a gradient reaches the root only through nodes that added theirs.
LEMMA WholeTree ==
  ASSUME IInv, NEW l \in Layer, NEW v \in 0..MaxIter,
         \A c \in children(0) : up[c][l] = v
  PROVE  \A n \in Node \ {0} : up[n][l] >= v
<1>1. SUFFICES ASSUME \E n \in Node \ {0} : ~(up[n][l] >= v)
               PROVE  FALSE
  OBVIOUS
<1> DEFINE Bad == {n \in Node \ {0} : ~(up[n][l] >= v)}
<1>2. PICK x \in Bad : \A y \in Bad : ~(y < x)
  <2>1. Bad \subseteq Node /\ Bad # {}
    BY <1>1
  <2>2. QED
    BY ZenonT(60), <2>1, SmallestRank
<1>3. x \in Node /\ x # 0 /\ ~(up[x][l] >= v)
  BY <1>2
<1>4. parent(x) \in Node /\ parent(x) < x /\ x \in children(parent(x))
  BY <1>3, ParentSmaller
<1>5. parent(x) # 0
  BY <1>3, <1>4, MaxIterAssumption
<1>6. up[parent(x)][l] >= v
  BY <1>2, <1>4, <1>5
<1>7. up[parent(x)][l] <= up[x][l]
  BY <1>4 DEF IInv, SubtreeFirst
<1>8. up[parent(x)][l] \in Int /\ up[x][l] \in Int
  BY <1>3, <1>4, MaxIterAssumption DEF IInv, TypeOK
<1>9. QED
  BY <1>3, <1>6, <1>7, <1>8, MaxIterAssumption

\* The invariant holds at the start, when only the root has parameters.
LEMMA InitIInv == Init => IInv
  BY NodeCountAssumption, MaxIterAssumption, RootOnly
     DEF Init, IInv, TypeOK, SubtreeFirst, EveryoneContributed, children

\* The root makes a version: everyone has contributed to the last one.
LEMMA UpdateIInv ==
  ASSUME IInv, NEW l \in Layer, Update(l)
  PROVE  IInv'
<1> USE NodeCountAssumption, MaxIterAssumption, RootOnly
<1>1. ver[0][l] \in 0..MaxIter
  BY DEF IInv, TypeOK
<1>2. \A n \in Node \ {0} : up[n][l] >= ver[0][l]
  BY <1>1, WholeTree DEF Update
<1>3. TypeOK'
  BY <1>1 DEF IInv, TypeOK, Update
<1>4. SubtreeFirst'
  BY DEF IInv, TypeOK, SubtreeFirst, Update, children
<1>5. \A n \in Node : own[n][l] >= ver[0][l]
  <2>1. TAKE n \in Node
  <2>2. CASE n = 0
    BY <2>2, <1>1 DEF Update
  <2>3. CASE n # 0
    BY <2>3, <1>1, <1>2 DEF IInv, TypeOK, SubtreeFirst
  <2>4. QED
    BY <2>2, <2>3
<1>6. EveryoneContributed'
  BY <1>1, <1>5 DEF IInv, TypeOK, EveryoneContributed, Update
<1>7. (\A n \in Node, k \in Layer : ver[n][k] <= ver[0][k])'
  BY DEF IInv, TypeOK, Update
<1>8. QED
  BY <1>3, <1>4, <1>6, <1>7 DEF IInv

\* Receiving the parent's parameters keeps the invariant.
LEMMA PullIInv ==
  ASSUME IInv, NEW n \in Node, NEW l \in Layer, Pull(n, l)
  PROVE  IInv'
<1> USE NodeCountAssumption, MaxIterAssumption, RootOnly
<1>1. n # 0 /\ parent(n) \in Node
  BY ParentSmaller DEF Pull
<1>2. ver[parent(n)][l] \in 0..MaxIter /\ ver[n][l] < ver[parent(n)][l]
  BY <1>1 DEF Pull, IInv, TypeOK
<1>3. TypeOK'
  BY <1>2 DEF IInv, TypeOK, Pull
<1>4. SubtreeFirst'
  BY <1>2 DEF IInv, TypeOK, SubtreeFirst, Pull, children
<1>5. EveryoneContributed'
  BY <1>1, <1>2 DEF IInv, TypeOK, EveryoneContributed, Pull
<1>6. (\A m \in Node, k \in Layer : ver[m][k] <= ver[0][k])'
  BY <1>1, <1>2 DEF IInv, TypeOK, Pull
<1>7. QED
  BY <1>3, <1>4, <1>5, <1>6 DEF IInv

\* Computing a gradient keeps the invariant.
LEMMA ComputeIInv ==
  ASSUME IInv, NEW n \in Node, NEW l \in Layer, Compute(n, l)
  PROVE  IInv'
<1> USE NodeCountAssumption, MaxIterAssumption, RootOnly
<1>1. TypeOK'
  BY DEF IInv, TypeOK, Compute
<1>2. SubtreeFirst'
  BY DEF IInv, TypeOK, SubtreeFirst, Compute, children
<1>3. EveryoneContributed'
  BY DEF IInv, TypeOK, EveryoneContributed, Compute
<1>4. QED
  BY <1>1, <1>2, <1>3 DEF IInv, Compute

\* Handing the subtree's gradients up keeps the invariant: the parent has
\* not handed up a version that the node has not.
LEMMA PushUpIInv ==
  ASSUME IInv, NEW n \in Node, NEW l \in Layer, PushUp(n, l)
  PROVE  IInv'
<1> USE NodeCountAssumption, MaxIterAssumption, RootOnly
<1>1. TypeOK'
  BY DEF IInv, TypeOK, PushUp
<1>2. SubtreeFirst'
  BY DEF IInv, TypeOK, SubtreeFirst, PushUp, children
<1>3. EveryoneContributed'
  BY DEF IInv, TypeOK, EveryoneContributed, PushUp
<1>4. QED
  BY <1>1, <1>2, <1>3 DEF IInv, PushUp

\* The invariant is inductive: it holds initially and every step of the
\* cluster keeps it.
THEOREM Invariance == Spec => []IInv
<1>1. IInv /\ [Next]_vars => IInv'
  <2> SUFFICES ASSUME IInv, [Next]_vars PROVE IInv'
    OBVIOUS
  <2>1. CASE Next
    BY <2>1, UpdateIInv, PullIInv, ComputeIInv, PushUpIInv DEF Next
  <2>2. CASE UNCHANGED vars
    BY <2>2 DEF vars, IInv, TypeOK, SubtreeFirst, EveryoneContributed, children
  <2>3. QED
    BY <2>1, <2>2
<1>2. QED
  BY InitIInv, <1>1, PTL DEF Spec

\* Versions stay naturals up to the last iteration, at every node.
THEOREM TypeCorrect == Spec => []TypeOK
<1>1. IInv => TypeOK
  BY DEF IInv
<1>2. QED
  BY Invariance, <1>1, PTL

\* For every cluster size: a new version of a layer is made only from the
\* gradients of all the nodes for the version before it.
THEOREM Synchronous == Spec => []EveryoneContributed
<1>1. IInv => EveryoneContributed
  BY DEF IInv
<1>2. QED
  BY Invariance, <1>1, PTL

\* For every cluster size: all nodes are within one version of the root.
THEOREM InLockstep == Spec => []Lockstep
<1>1. IInv => Lockstep
  BY NodeCountAssumption, MaxIterAssumption, RootOnly
     DEF IInv, TypeOK, SubtreeFirst, EveryoneContributed, Lockstep
<1>2. QED
  BY Invariance, <1>1, PTL
=============================================================================
