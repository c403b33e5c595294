--------------------------- MODULE P2PSyncProofs ---------------------------
(***************************************************************************)
(* For every number of devices, every tree they may form and all settings: *)
(* the files of a snapshot are sound whenever the process is killed, and a *)
(* solver never takes its parent's word for a child's.                     *)
(***************************************************************************)
EXTENDS P2PSyncSteps

Busy(s) == solver[s].pc \in Working

\* Where a worker and its parent stand: the parent's word is in the worker's queue, the
\* worker is at work, or its word is in the parent's queue.
Asked(d) == parent[d] \in Elems(queue[d])
Answered(d) == d \in Elems(queue[parent[d]])
Outstanding(d) == Asked(d) \/ Busy(d) \/ Answered(d)
Owing(p) == {d \in Child(p) : Outstanding(d)}

OneAtATime(d) == ~(Asked(d) /\ Busy(d)) /\ ~(Busy(d) /\ Answered(d)) /\ ~(Asked(d) /\ Answered(d))

\* Only the parent and the children write into a queue, and what they wrote last is read
\* before they write again.
Senders(s) ==
  /\ Distinct(queue[s])
  /\ \A e \in Elems(queue[s]) : e = parent[s] \/ e \in Child(s)

\* Between two iterations no child owes an answer; those not updated yet owe none; and
\* on_gradients_ready waits for no fewer answers than are owed.
Settled(p) ==
  /\ solver[p].pc \notin Working \cup {"ended"} => Owing(p) = {}
  /\ solver[p].pc = "update_children" =>
       solver[p].i <= Len(children(p)) /\ \A j \in 1..solver[p].i : ~Outstanding(children(p)[j])
  /\ solver[p].pc = "on_gradients_ready" => Cardinality(Owing(p)) <= solver[p].i

TreeInv ==
  /\ \A d \in Solver : d # root => OneAtATime(d)
  /\ \A s \in Solver : Senders(s) /\ Settled(s)

IInv == ReaderInv /\ TypeOK /\ FilesInv /\ TreeInv

------------------------------------------------------------------------------
(* The tree                                                                *)

\* A worker's parent is a solver made before it.
LEMMA ParentSolver ==
  ASSUME TypeOK, NEW d \in Solver, d # root
  PROVE  parent[d] \in Solver /\ parent[d] \in Nat /\ d \in Nat /\ parent[d] < d
<1>1. parent[d] \in 1..(d - 1) /\ param.solver_count \in Nat
  BY Zenon, RootSolver DEF TypeOK
<1> QED
  BY <1>1 DEF Solver

\* The tree stays as it was made.
LEMMA TreeStays ==
  ASSUME param' = param, parent' = parent
  PROVE  Solver' = Solver /\ \A p : Child(p)' = Child(p) /\ children(p)' = children(p)
BY Zenon DEF Solver, Child, children

\* A solver that stays where it is, and whose children owe no more than before.
LEMMA SettledKept ==
  ASSUME TypeOK, NEW r \in Solver, Settled(r), param' = param, parent' = parent,
         solver'[r] = solver[r], \A d \in Child(r) : Outstanding(d)' => Outstanding(d)
  PROVE  Settled(r)'
<1>1. Child(r)' = Child(r) /\ children(r)' = children(r)
  BY Zenon, TreeStays
<1>2. Owing(r)' \subseteq Owing(r) /\ Owing(r) \subseteq Child(r)
  BY Zenon, <1>1 DEF Owing
<1>3. IsFiniteSet(Owing(r)) /\ IsFiniteSet(Child(r))
  BY Zenon, <1>2, ChildrenFacts, FS_Subset
<1>4. PICK A, B : A = Owing(r) /\ B = Owing(r)'
  BY Zenon
<1>5. Cardinality(B) <= Cardinality(A) /\ Cardinality(B) \in Nat /\ Cardinality(A) \in Nat
  BY Zenon, <1>2, <1>3, <1>4, FS_Subset, FS_CardinalityType
<1>6. solver[r].pc = "update_children" =>
        /\ solver[r].i <= Len(children(r))
        /\ \A j \in 1..solver[r].i : ~Outstanding(children(r)[j])'
  <2> SUFFICES ASSUME solver[r].pc = "update_children"
               PROVE  /\ solver[r].i <= Len(children(r))
                      /\ \A j \in 1..solver[r].i : ~Outstanding(children(r)[j])'
    BY Zenon
  <2>1. PICK n \in Nat, m \in Nat : n = solver[r].i /\ m = Len(children(r)) /\ n <= m
    BY Zenon, ChildrenFacts DEF Settled, TypeOK, SolverType
  <2>2. ASSUME NEW j \in 1..n PROVE ~Outstanding(children(r)[j])'
    <3>1. PICK d : d = children(r)[j]
      BY Zenon
    <3>2. d \in Child(r) /\ ~Outstanding(d)
      BY <2>1, <3>1, ChildrenFacts DEF Settled
    <3>3. ~Outstanding(d)'
      BY Zenon, <3>2
    <3> QED
      BY Zenon, <3>1, <3>3, <1>1 DEF Outstanding, Asked, Answered, Busy
  <2> QED
    BY Zenon, <2>1, <2>2
<1>7. solver[r].pc = "on_gradients_ready" => Cardinality(B) <= solver[r].i
  <2>1. solver[r].i \in Nat
    BY Zenon DEF TypeOK, SolverType
  <2> QED
    BY <2>1, <1>4, <1>5 DEF Settled
<1>8. solver[r].pc \notin Working \cup {"ended"} => B = {}
  BY Zenon, <1>2, <1>4 DEF Settled
<1> QED
  BY Zenon, <1>1, <1>4, <1>6, <1>7, <1>8 DEF Settled

\* What is left to show of a step of solver s.
LEMMA TreeKept ==
  ASSUME TypeOK, TreeInv, NEW s \in Solver, Moves(s),
         \A d \in Solver : d # root => OneAtATime(d)',
         \A r \in Solver : Senders(r)', Settled(s)',
         \A d \in Solver : d \notin Child(s) /\ d # root => (Outstanding(d)' => Outstanding(d))
  PROVE  TreeInv'
<1>1. param' = param /\ parent' = parent /\ Solver' = Solver
  BY Zenon, TreeStays DEF Moves
<1>2. ASSUME NEW r \in Solver, r # s PROVE Settled(r)'
  <2>1. \A d \in Child(r) : d \in Solver /\ d \notin Child(s) /\ d # root
    BY ZenonT(60), <1>2, ChildrenFacts DEF Child
  <2> QED
    BY Zenon, <2>1, <1>1, <1>2, SettledKept DEF TreeInv, Moves
<1> QED
  BY Zenon, <1>1, <1>2 DEF TreeInv

\* A step that leaves the queues alone, and after which s is at work only if it was before.
LEMMA TreeNoQueue ==
  ASSUME TypeOK, TreeInv, NEW s \in Solver, Moves(s), queue' = queue,
         Busy(s)' => Busy(s) \/ s = root, Settled(s)'
  PROVE  TreeInv'
<1>1. param' = param /\ parent' = parent
  BY Zenon DEF Moves
<1>2. ASSUME NEW d \in Solver, d # root
      PROVE  (Asked(d)' <=> Asked(d)) /\ (Answered(d)' <=> Answered(d)) /\ (Busy(d)' => Busy(d))
  BY Zenon, <1>1, <1>2 DEF Asked, Answered, Busy, Moves
<1>3. \A d \in Solver : d # root => OneAtATime(d)'
  BY Zenon, <1>2 DEF TreeInv, OneAtATime
<1>4. \A r \in Solver : Senders(r)'
  BY Zenon, <1>1, TreeStays DEF TreeInv, Senders
<1> QED
  BY Zenon, <1>2, <1>3, <1>4, TreeKept DEF Outstanding

\* A step outside an iteration.
LEMMA TreeQuiet ==
  ASSUME TypeOK, TreeInv, NEW s \in Solver, Quiet(s)
  PROVE  TreeInv'
<1>1. /\ Moves(s) /\ queue' = queue /\ param' = param /\ parent' = parent
      /\ solver[s].pc \notin Working \cup {"ended"} /\ solver'[s].pc \notin Working
  BY Zenon DEF Quiet, Moves
<1>2. Owing(s) = {}
  BY Zenon, <1>1 DEF TreeInv, Settled
<1>3. \A d \in Child(s) : Outstanding(d)' => Outstanding(d)
  <2>1. \A d \in Child(s) : d \in Solver /\ d # s
    BY Zenon, ChildrenFacts DEF Child
  <2> QED
    BY Zenon, <2>1, <1>1 DEF Outstanding, Asked, Answered, Busy, Moves
<1>4. Owing(s)' = {}
  BY Zenon, <1>1, <1>2, <1>3, TreeStays DEF Owing
<1>5. Settled(s)'
  BY Zenon, <1>1, <1>4 DEF Settled, Working
<1> QED
  BY Zenon, <1>1, <1>5, TreeNoQueue DEF Busy

\* A pass, or the end of the last one: all children may owe an answer.
LEMMA TreePass ==
  ASSUME TypeOK, TreeInv, NEW s \in Solver, Moves(s), queue' = queue, solver[s].pc \in Working,
         \/ solver'[s].pc \in {"forward", "backward", "ended"}
         \/ solver'[s].pc = "on_gradients_ready" /\ solver'[s].i = Len(children(s))
  PROVE  TreeInv'
<1>1. param' = param /\ parent' = parent
  BY Zenon DEF Moves
<1>2. PICK A, B : A = Owing(s)' /\ B = Child(s)
  BY Zenon
<1>3. A \subseteq B /\ IsFiniteSet(B) /\ Cardinality(B) = Len(children(s))
  BY Zenon, <1>1, <1>2, TreeStays, ChildrenFacts DEF Owing
<1>4. Cardinality(A) <= Len(children(s))
  BY Zenon, <1>3, FS_Subset
<1>5. Settled(s)'
  BY Zenon, <1>2, <1>4 DEF Settled, Working
<1> QED
  BY Zenon, <1>5, TreeNoQueue DEF Busy

\* A worker that waits in on_start finds the parent's word and nothing else.
LEMMA OnlyParent ==
  ASSUME TypeOK, TreeInv, NEW s \in Solver, solver[s].pc = "on_start", queue[s] # <<>>
  PROVE  s # root /\ Head(queue[s]) = parent[s] /\ Asked(s) /\ Elems(Tail(queue[s])) = {}
<1>1. queue[s] \in Seq(Solver) /\ Senders(s) /\ Owing(s) = {}
  BY Zenon DEF TypeOK, TreeInv, Settled, Working
<1>2. Elems(queue[s]) \subseteq {parent[s]}
  <2> SUFFICES ASSUME NEW e \in Elems(queue[s]) PROVE e = parent[s]
    BY Zenon
  <2>1. e \notin Child(s)
    BY Zenon, <1>1 DEF Owing, Outstanding, Answered, Child
  <2> QED
    BY Zenon, <2>1, <1>1 DEF Senders
<1>3. /\ Head(queue[s]) \in Solver /\ Elems(queue[s]) = {Head(queue[s])} \cup Elems(Tail(queue[s]))
      /\ Head(queue[s]) \notin Elems(Tail(queue[s]))
  BY Zenon, <1>1, TailFacts DEF Senders
<1>4. Head(queue[s]) = parent[s] /\ parent[s] \in Elems(queue[s])
  BY Zenon, <1>2, <1>3
<1>5. Elems(Tail(queue[s])) = {}
  BY Zenon, <1>2, <1>3, <1>4
<1>6. parent[s] # 0
  BY <1>3, <1>4, RootSolver DEF Solver, TypeOK
<1> QED
  BY Zenon, <1>4, <1>5, <1>6 DEF Asked, TypeOK

\* on_start: the worker has taken the parent's word and is at work.
LEMMA TreeWait ==
  ASSUME TypeOK, TreeInv, NEW s \in Solver, Wait(s), Moves(s),
         solver'[s].pc = "update_children", solver'[s].i = Len(children(s))
  PROVE  TreeInv' /\ queue' \in [Solver -> Seq(Solver)]
<1>1. param' = param /\ parent' = parent /\ solver[s].pc = "on_start"
  BY Zenon DEF Wait, tree, At
<1>2. Owing(s) = {} /\ queue \in [Solver -> Seq(Solver)]
  BY Zenon, <1>1 DEF TypeOK, TreeInv, Settled, Working
<1>3. \A d \in Child(s) : d \in Solver /\ d # s /\ d # root
  BY Zenon, ChildrenFacts DEF Child
<1>4. ASSUME \A d \in Child(s) : ~Outstanding(d)' PROVE Settled(s)'
  <2>1. children(s)' = children(s) /\ \A j \in 1..Len(children(s)) : children(s)[j] \in Child(s)
    BY Zenon, <1>1, TreeStays, ChildrenFacts
  <2>2. Len(children(s)) \in Nat
    BY Zenon, ChildrenFacts
  <2>3. ASSUME NEW j \in 1..Len(children(s)) PROVE ~Outstanding(children(s)[j])'
    <3>1. PICK d : d = children(s)[j] /\ d \in Child(s)
      BY Zenon, <2>1
    <3>2. ~Outstanding(d)'
      BY Zenon, <3>1, <1>4
    <3> QED
      BY Zenon, <2>1, <3>1, <3>2 DEF Outstanding, Asked, Answered, Busy
  <2> QED
    BY <2>1, <2>2, <2>3 DEF Settled, Working
<1>5. CASE s = root
  <2>1. queue' = queue
    BY Zenon, <1>5 DEF Wait, TypeOK
  <2>2. \A d \in Child(s) : ~Outstanding(d)'
    BY Zenon, <2>1, <1>1, <1>2, <1>3 DEF Owing, Outstanding, Asked, Answered, Busy, Moves
  <2> QED
    BY Zenon, <2>1, <2>2, <1>2, <1>4, <1>5, TreeNoQueue
<1>6. CASE s # root
  <2>1. parent[s] # 0 /\ parent[s] # s
    BY <1>6 DEF TypeOK, Solver
  <2>2. queue[s] # <<>> /\ queue' = [queue EXCEPT ![s] = Tail(queue[s])]
    BY Zenon, <2>1 DEF Wait
  <2>3. Asked(s) /\ Elems(Tail(queue[s])) = {} /\ Tail(queue[s]) \in Seq(Solver)
    BY Zenon, <2>2, <1>1, <1>2, OnlyParent, TailFacts
  <2>4. PICK q \in Seq(Solver) : q = Tail(queue[s]) /\ Elems(q) = {}
    BY Zenon, <2>3
  <2>5. /\ queue' \in [Solver -> Seq(Solver)] /\ queue'[s] = q
        /\ \A r \in Solver : r # s => queue'[r] = queue[r]
    BY Zenon, <2>2, <2>4, <1>2
  <2>6. ASSUME NEW d \in Solver, d # root, d # s
        PROVE  (Asked(d)' <=> Asked(d)) /\ (Busy(d)' <=> Busy(d)) /\ (Answered(d)' => Answered(d))
    <3>1. parent[d] \in Solver
      BY Zenon, <2>6, ParentSolver
    <3> QED
      BY Zenon, <2>4, <2>5, <2>6, <3>1, <1>1 DEF Asked, Busy, Answered, Moves
  <2>7. OneAtATime(s)'
    <3>1. ~Asked(s)'
      BY Zenon, <2>4, <2>5, <1>1 DEF Asked
    <3>2. parent[s] \in Solver
      BY Zenon, <1>6, ParentSolver
    <3>3. ~Answered(s)'
      BY Zenon, <2>1, <2>3, <2>5, <3>2, <1>1, <1>6 DEF Answered, TreeInv, OneAtATime
    <3> QED
      BY Zenon, <3>1, <3>3 DEF OneAtATime
  <2>8. ASSUME NEW d \in Solver, d # root PROVE OneAtATime(d)'
    BY Zenon, <2>6, <2>7, <2>8 DEF TreeInv, OneAtATime
  <2>9. ASSUME NEW r \in Solver PROVE Senders(r)'
    <3>1. CASE r = s
      BY ZenonT(60), <2>4, <2>5, <3>1 DEF Senders, Distinct, Elems
    <3>2. CASE r # s
      BY Zenon, <2>5, <3>2, <1>1, TreeStays DEF TreeInv, Senders
    <3> QED
      BY Zenon, <3>1, <3>2
  <2>10. \A d \in Child(s) : ~Outstanding(d)'
    BY Zenon, <2>6, <1>2, <1>3 DEF Owing, Outstanding
  <2>11. \A d \in Solver : d # root => (Outstanding(d)' => Outstanding(d))
    BY Zenon, <2>3, <2>6 DEF Outstanding
  <2> QED
    BY Zenon, <2>5, <2>8, <2>9, <2>10, <2>11, <1>4, TreeKept
<1> QED
  BY Zenon, <1>5, <1>6

\* on_start: a child that owes nothing is given the weights, and owes an answer.
LEMMA TreeUpdateChild ==
  ASSUME TypeOK, TreeInv, NEW s \in Solver, UpdateChild(s), Moves(s),
         solver'[s].pc = "update_children", solver'[s].i = solver[s].i - 1
  PROVE  /\ TreeInv' /\ queue' \in [Solver -> Seq(Solver)]
         /\ data' \in [Solver -> Nat] /\ data'[root] = data[root]
<1>1. /\ param' = param /\ parent' = parent /\ solver[s].pc = "update_children"
      /\ queue \in [Solver -> Seq(Solver)] /\ data \in [Solver -> Nat] /\ root \in Solver
  BY Zenon, RootSolver DEF UpdateChild, tree, At, TypeOK
<1>2. PICK n \in Nat, m \in Nat :
        n = solver[s].i /\ n > 0 /\ m = Len(children(s)) /\ n <= m
  BY Zenon, <1>1, ChildrenFacts DEF TreeInv, Settled, TypeOK, SolverType, UpdateChild
<1>3. \A j \in 1..n : children(s)[j] \in Child(s) /\ ~Outstanding(children(s)[j])
  <2>1. \A j \in 1..n : ~Outstanding(children(s)[j])
    BY Zenon, <1>1, <1>2 DEF TreeInv, Settled
  <2>2. \A j \in 1..m : children(s)[j] \in Child(s)
    BY Zenon, <1>2, ChildrenFacts
  <2>3. \A j \in 1..n : j \in 1..m
    BY <1>2
  <2> QED
    BY Zenon, <2>1, <2>2, <2>3
<1>4. PICK c \in Child(s) : c = children(s)[n] /\ ~Outstanding(c)
  BY <1>2, <1>3
<1>5. /\ data' = [data EXCEPT ![c] = data[s]]
      /\ queue' = [queue EXCEPT ![c] = Append(queue[c], s)]
  BY Zenon, <1>2, <1>4 DEF UpdateChild
<1>6. c \in Solver /\ c # root /\ c # s /\ parent[c] = s /\ parent[s] # c
  <2>1. c \in Solver /\ c # root /\ c # s /\ parent[c] = s
    BY ZenonT(60), <1>4, ChildrenFacts DEF Child
  <2>2. s \in Nat /\ c \in Nat /\ s < c
    BY <2>1 DEF TypeOK, Solver
  <2>3. ASSUME parent[s] = c PROVE c < s
    BY <2>1, <2>2, <2>3 DEF TypeOK, Solver
  <2> QED
    BY <2>1, <2>2, <2>3
<1>7. s \notin Elems(queue[c]) /\ ~Answered(c) /\ ~Busy(c)
  BY Zenon, <1>4, <1>6 DEF Outstanding, Asked
<1>8. PICK q \in Seq(Solver) : /\ q = Append(queue[c], s) /\ Elems(q) = Elems(queue[c]) \cup {s}
                               /\ Distinct(queue[c]) => Distinct(q)
  BY Zenon, <1>1, <1>6, <1>7, AppendFacts
<1>9. /\ queue' \in [Solver -> Seq(Solver)] /\ queue'[c] = q
      /\ \A r \in Solver : r # c => queue'[r] = queue[r]
  BY Zenon, <1>1, <1>5, <1>6, <1>8
<1>10. data' \in [Solver -> Nat] /\ data'[root] = data[root]
  BY Zenon, <1>1, <1>5, <1>6
<1>11. ASSUME NEW d \in Solver PROVE Busy(d)' <=> Busy(d)
  BY Zenon, <1>1 DEF Busy, Moves, Working
<1>12. ASSUME NEW d \in Solver, d # root, d # c
       PROVE  (Asked(d)' <=> Asked(d)) /\ (Answered(d)' <=> Answered(d))
  <2>1. parent[d] \in Solver
    BY Zenon, <1>12, ParentSolver
  <2>2. Asked(d)' <=> Asked(d)
    BY Zenon, <1>1, <1>9, <1>12 DEF Asked
  <2>3. CASE parent[d] = c
    BY Zenon, <2>2, <2>3, <1>1, <1>6, <1>8, <1>9 DEF Answered
  <2>4. CASE parent[d] # c
    BY Zenon, <2>1, <2>2, <2>4, <1>1, <1>9 DEF Answered
  <2> QED
    BY Zenon, <2>2, <2>3, <2>4
<1>13. ASSUME NEW d \in Solver, d # root PROVE OneAtATime(d)'
  <2>1. CASE d = c
    <3>1. ~Answered(c)'
      BY Zenon, <1>1, <1>6, <1>7, <1>9 DEF Answered
    <3> QED
      BY Zenon, <2>1, <3>1, <1>6, <1>7, <1>11 DEF OneAtATime
  <2>2. CASE d # c
    BY Zenon, <2>2, <1>11, <1>12, <1>13 DEF TreeInv, OneAtATime
  <2> QED
    BY Zenon, <2>1, <2>2
<1>14. ASSUME NEW r \in Solver PROVE Senders(r)'
  <2>1. Senders(r) /\ Child(r)' = Child(r)
    BY Zenon, <1>1, TreeStays DEF TreeInv
  <2>2. CASE r = c
    BY Zenon, <2>1, <2>2, <1>1, <1>6, <1>8, <1>9 DEF Senders
  <2>3. CASE r # c
    BY Zenon, <2>1, <2>3, <1>1, <1>9 DEF Senders
  <2> QED
    BY Zenon, <2>2, <2>3
<1>15. Settled(s)'
  <2>1. children(s)' = children(s)
    BY Zenon, <1>1, TreeStays
  <2>2. PICK k \in Nat : k = n - 1 /\ k <= m
    BY <1>2
  <2>3. ASSUME NEW j \in 1..k PROVE ~Outstanding(children(s)[j])'
    <3>1. j \in 1..m /\ n \in 1..m /\ j # n /\ j \in 1..n
      BY <2>2, <1>2
    <3>2. PICK d : d = children(s)[j]
      BY Zenon
    <3>3. d \in Child(s) /\ ~Outstanding(d) /\ d # c
      BY Zenon, <3>1, <3>2, <1>2, <1>3, <1>4, ChildrenFacts
    <3>4. d \in Solver /\ d # root
      BY ZenonT(60), <3>3, ChildrenFacts DEF Child
    <3>5. ~Outstanding(d)'
      BY Zenon, <3>3, <3>4, <1>11, <1>12 DEF Outstanding
    <3> QED
      BY Zenon, <2>1, <3>2, <3>5 DEF Outstanding, Asked, Answered, Busy
  <2> QED
    BY Zenon, <2>1, <2>2, <2>3, <1>2 DEF Settled, Working
<1>16. \A d \in Solver : d \notin Child(s) /\ d # root => (Outstanding(d)' => Outstanding(d))
  BY Zenon, <1>4, <1>11, <1>12 DEF Outstanding
<1> QED
  BY Zenon, <1>9, <1>10, <1>13, <1>14, <1>15, <1>16, TreeKept

\* A solver that sums takes a child's word, and the child owes nothing any more.
LEMMA OnlyChild ==
  ASSUME TypeOK, TreeInv, NEW s \in Solver, solver[s].pc = "on_gradients_ready", queue[s] # <<>>
  PROVE  /\ Head(queue[s]) \in Child(s) /\ Answered(Head(queue[s]))
         /\ Tail(queue[s]) \in Seq(Solver) /\ Distinct(Tail(queue[s]))
         /\ Elems(Tail(queue[s])) = Elems(queue[s]) \ {Head(queue[s])}
<1>1. queue[s] \in Seq(Solver) /\ Senders(s) /\ Busy(s)
  BY Zenon DEF TypeOK, TreeInv, Busy, Working
<1>2. /\ Head(queue[s]) \in Solver /\ Elems(queue[s]) = {Head(queue[s])} \cup Elems(Tail(queue[s]))
      /\ Head(queue[s]) \notin Elems(Tail(queue[s]))
      /\ Tail(queue[s]) \in Seq(Solver) /\ Distinct(Tail(queue[s]))
  BY Zenon, <1>1, TailFacts DEF Senders
<1>3. parent[s] \notin Elems(queue[s])
  <2>1. CASE s = root
    <3>1. 0 \notin Elems(queue[s])
      <4>1. Elems(queue[s]) \subseteq Solver
        BY Zenon, <1>1, SeqFacts
      <4> QED
        BY <4>1 DEF Solver
    <3> QED
      BY Zenon, <2>1, <3>1 DEF TypeOK
  <2>2. CASE s # root
    BY Zenon, <2>2, <1>1 DEF TreeInv, OneAtATime, Asked
  <2> QED
    BY Zenon, <2>1, <2>2
<1>4. Head(queue[s]) \in Child(s)
  BY Zenon, <1>1, <1>2, <1>3 DEF Senders
<1>5. Answered(Head(queue[s]))
  BY Zenon, <1>2, <1>4 DEF Answered, Child
<1> QED
  BY Zenon, <1>2, <1>4, <1>5

\* on_gradients_ready: one answer is taken, and one fewer is waited for.
LEMMA TreeSumChild ==
  ASSUME TypeOK, TreeInv, NEW s \in Solver, SumChild(s), Moves(s),
         solver'[s].pc = "on_gradients_ready", solver'[s].i = solver[s].i - 1
  PROVE  TreeInv' /\ queue' \in [Solver -> Seq(Solver)]
<1>1. /\ param' = param /\ parent' = parent /\ solver[s].pc = "on_gradients_ready"
      /\ queue \in [Solver -> Seq(Solver)] /\ queue[s] # <<>>
      /\ queue' = [queue EXCEPT ![s] = Tail(queue[s])]
  BY Zenon DEF SumChild, tree, At, TypeOK
<1>2. PICK h \in Child(s), q \in Seq(Solver) :
        /\ h = Head(queue[s]) /\ q = Tail(queue[s]) /\ Answered(h)
        /\ Distinct(q) /\ Elems(q) = Elems(queue[s]) \ {h}
  BY Zenon, <1>1, OnlyChild
<1>3. h \in Solver /\ h # root /\ h # s /\ parent[h] = s
  BY ZenonT(60), <1>2, ChildrenFacts DEF Child
<1>4. /\ queue' \in [Solver -> Seq(Solver)] /\ queue'[s] = q
      /\ \A r \in Solver : r # s => queue'[r] = queue[r]
  BY Zenon, <1>1, <1>2
<1>5. ASSUME NEW r \in Solver PROVE Elems(queue'[r]) \subseteq Elems(queue[r])
  BY Zenon, <1>2, <1>4
<1>6. ASSUME NEW d \in Solver, d # root
      PROVE  (Asked(d)' => Asked(d)) /\ (Busy(d)' <=> Busy(d)) /\ (Answered(d)' => Answered(d))
  <2>1. parent[d] \in Solver
    BY Zenon, <1>6, ParentSolver
  <2> QED
    BY Zenon, <2>1, <1>1, <1>5 DEF Asked, Busy, Answered, Moves, Working
<1>7. \A d \in Solver : d # root => OneAtATime(d)'
  BY Zenon, <1>6 DEF TreeInv, OneAtATime
<1>8. ASSUME NEW r \in Solver PROVE Senders(r)'
  <2>1. Senders(r) /\ Child(r)' = Child(r)
    BY Zenon, <1>1, TreeStays DEF TreeInv
  <2>2. CASE r = s
    BY Zenon, <2>1, <2>2, <1>1, <1>2, <1>4 DEF Senders
  <2>3. CASE r # s
    BY Zenon, <2>1, <2>3, <1>1, <1>4 DEF Senders
  <2> QED
    BY Zenon, <2>2, <2>3
<1>9. ~Outstanding(h)' /\ h \in Owing(s)
  <2>1. ~Answered(h)'
    BY Zenon, <1>1, <1>2, <1>3, <1>4 DEF Answered
  <2>2. ~Asked(h) /\ ~Busy(h)
    BY Zenon, <1>2, <1>3 DEF TreeInv, OneAtATime
  <2> QED
    BY Zenon, <2>1, <2>2, <1>2, <1>3, <1>6 DEF Outstanding, Owing
<1>10. Owing(s)' \subseteq Owing(s) \ {h}
  <2>1. ASSUME NEW d \in Child(s), Outstanding(d)' PROVE d \in Owing(s) \ {h}
    <3>1. d \in Solver /\ d # root
      BY ZenonT(60), ChildrenFacts DEF Child
    <3> QED
      BY Zenon, <2>1, <3>1, <1>6, <1>9 DEF Outstanding, Owing
  <2> QED
    BY Zenon, <2>1, <1>1, TreeStays DEF Owing
<1>11. PICK A, B, C : A = Owing(s) /\ B = Owing(s)' /\ C = Child(s)
  BY Zenon
<1>12. IsFiniteSet(A)
  <2>1. A \subseteq C /\ IsFiniteSet(C)
    BY Zenon, <1>11, ChildrenFacts DEF Owing
  <2> QED
    BY Zenon, <2>1, FS_Subset
<1>13. h \in A /\ B \subseteq A \ {h}
  BY Zenon, <1>9, <1>10, <1>11
<1>14. IsFiniteSet(A \ {h}) /\ Cardinality(A \ {h}) = Cardinality(A) - 1 /\ Cardinality(A) \in Nat
  BY Zenon, <1>12, <1>13, FS_RemoveElement, FS_CardinalityType
<1>15. Cardinality(B) <= Cardinality(A) - 1 /\ Cardinality(B) \in Nat
  BY <1>13, <1>14, FS_Subset, FS_CardinalityType
<1>16. Cardinality(A) <= solver[s].i /\ solver[s].i \in Nat
  BY Zenon, <1>1, <1>11 DEF TreeInv, Settled, TypeOK, SolverType
<1>17. Cardinality(B) <= solver'[s].i
  BY <1>14, <1>15, <1>16
<1>18. Settled(s)'
  BY Zenon, <1>11, <1>17 DEF Settled, Working
<1> QED
  BY Zenon, <1>4, <1>6, <1>7, <1>8, <1>18, TreeKept DEF Outstanding

\* on_gradients_ready: when no child owes anything, the solver answers its parent.
LEMMA TreeSend ==
  ASSUME TypeOK, TreeInv, NEW s \in Solver, SendGradients(s), Moves(s), solver'[s].pc = "apply_update"
  PROVE  TreeInv' /\ queue' \in [Solver -> Seq(Solver)]
<1>1. /\ param' = param /\ parent' = parent /\ solver[s].pc = "on_gradients_ready"
      /\ solver[s].i = 0 /\ queue \in [Solver -> Seq(Solver)]
  BY Zenon DEF SendGradients, tree, At, TypeOK
<1>2. Owing(s) = {}
  <2>1. PICK A, C : A = Owing(s) /\ C = Child(s)
    BY Zenon
  <2>2. A \subseteq C /\ IsFiniteSet(C)
    BY Zenon, <2>1, ChildrenFacts DEF Owing
  <2>3. IsFiniteSet(A) /\ Cardinality(A) \in Nat /\ Cardinality(A) <= 0
    BY Zenon, <2>1, <2>2, <1>1, FS_Subset, FS_CardinalityType DEF TreeInv, Settled
  <2>4. Cardinality(A) = 0
    BY <2>3
  <2> QED
    BY Zenon, <2>1, <2>3, <2>4, FS_EmptySet
<1>3. \A d \in Child(s) : d \in Solver /\ d # s /\ d # root /\ ~Outstanding(d)
  BY Zenon, <1>2, ChildrenFacts DEF Child, Owing
<1>4. ASSUME \A d \in Child(s) : Outstanding(d)' => Outstanding(d) PROVE Settled(s)'
  <2>1. Owing(s)' = {}
    BY Zenon, <1>1, <1>3, <1>4, TreeStays DEF Owing
  <2> QED
    BY Zenon, <2>1 DEF Settled, Working
<1>5. CASE s = root
  <2>1. queue' = queue
    BY Zenon, <1>5 DEF SendGradients, TypeOK
  <2>2. \A d \in Child(s) : Outstanding(d)' => Outstanding(d)
    BY Zenon, <2>1, <1>1, <1>3 DEF Outstanding, Asked, Answered, Busy, Moves
  <2> QED
    BY Zenon, <2>1, <2>2, <1>1, <1>4, <1>5, TreeNoQueue
<1>6. CASE s # root
  <2>1. PICK p \in Solver : p = parent[s] /\ p # s /\ p # 0 /\ parent[p] # s
    <3>1. parent[s] \in Solver /\ parent[s] \in 1..(s - 1) /\ s \in Nat
      BY <1>6 DEF TypeOK, Solver
    <3>2. parent[parent[s]] # s
      <4>1. CASE parent[s] = root
        BY <4>1, <1>6, RootSolver DEF TypeOK, Solver
      <4>2. CASE parent[s] # root
        BY <3>1, <4>2 DEF TypeOK, Solver
      <4> QED
        BY Zenon, <4>1, <4>2
    <3> QED
      BY <3>1, <3>2
  <2>2. queue' = [queue EXCEPT ![p] = Append(queue[p], s)]
    BY Zenon, <2>1 DEF SendGradients
  <2>3. s \notin Elems(queue[p]) /\ ~Asked(s) /\ Busy(s)
    BY Zenon, <2>1, <1>1, <1>6 DEF TreeInv, OneAtATime, Answered, Busy, Working
  <2>4. PICK q \in Seq(Solver) : /\ q = Append(queue[p], s) /\ Elems(q) = Elems(queue[p]) \cup {s}
                                 /\ Distinct(queue[p]) => Distinct(q)
    BY Zenon, <2>1, <2>3, <1>1, AppendFacts
  <2>5. /\ queue' \in [Solver -> Seq(Solver)] /\ queue'[p] = q
        /\ \A r \in Solver : r # p => queue'[r] = queue[r]
    BY Zenon, <2>2, <2>4, <1>1
  <2>6. ASSUME NEW d \in Solver, d # root, d # s
        PROVE  (Asked(d)' <=> Asked(d)) /\ (Busy(d)' <=> Busy(d)) /\ (Answered(d)' <=> Answered(d))
    <3>1. parent[d] \in Solver
      BY Zenon, <2>6, ParentSolver
    <3>2. Busy(d)' <=> Busy(d)
      BY Zenon, <2>6 DEF Busy, Moves
    <3>3. Asked(d)' <=> Asked(d)
      BY Zenon, <2>1, <2>4, <2>5, <1>1 DEF Asked
    <3>4. Answered(d)' <=> Answered(d)
      BY Zenon, <2>4, <2>5, <2>6, <3>1, <1>1 DEF Answered
    <3> QED
      BY Zenon, <3>2, <3>3, <3>4
  <2>7. OneAtATime(s)'
    <3>1. ~Asked(s)' /\ ~Busy(s)'
      BY Zenon, <2>1, <2>3, <2>5, <1>1 DEF Asked, Busy, Working
    <3> QED
      BY Zenon, <3>1 DEF OneAtATime
  <2>8. ASSUME NEW d \in Solver, d # root PROVE OneAtATime(d)'
    BY Zenon, <2>6, <2>7, <2>8 DEF TreeInv, OneAtATime
  <2>9. ASSUME NEW r \in Solver PROVE Senders(r)'
    <3>1. Senders(r) /\ Child(r)' = Child(r)
      BY Zenon, <1>1, TreeStays DEF TreeInv
    <3>2. CASE r = p
      BY Zenon, <2>1, <2>4, <2>5, <3>1, <3>2, <1>1 DEF Senders, Child
    <3>3. CASE r # p
      BY Zenon, <2>5, <3>1, <3>3, <1>1 DEF Senders
    <3> QED
      BY Zenon, <3>2, <3>3
  <2>10. \A d \in Solver : d # root => (Outstanding(d)' => Outstanding(d))
    BY Zenon, <2>3, <2>6 DEF Outstanding
  <2>11. Settled(s)'
    BY Zenon, <2>10, <1>3, <1>4
  <2> QED
    BY Zenon, <2>5, <2>8, <2>9, <2>10, <2>11, TreeKept
<1> QED
  BY Zenon, <1>5, <1>6

------------------------------------------------------------------------------
(* The invariant                                                           *)

SolverInv == TypeOK /\ FilesInv /\ TreeInv

\* The types, after a step of solver s.
LEMMA TypeKept ==
  ASSUME TypeOK, NEW s \in Solver, Moves(s), queue' \in [Solver -> Seq(Solver)],
         data' \in [Solver -> Nat], got_sighup' \in BOOLEAN, got_sigint' \in BOOLEAN
  PROVE  TypeOK'
<1>1. Solver' = Solver /\ param' = param /\ parent' = parent
  BY Zenon, TreeStays DEF Moves
<1> QED
  BY Zenon, <1>1 DEF TypeOK, Moves, SolverType

\* The files, after a step of solver s within an iteration.
LEMMA FilesWork ==
  ASSUME TypeOK, FilesInv, NEW s \in Solver, Moves(s), UNCHANGED <<model, state>>,
         data'[root] = data[root], solver'[s].iter = solver[s].iter,
         solver'[s].from = solver[s].from, solver[s].pc \in Iterating, solver'[s].pc # "snapshot"
  PROVE  FilesInv'
<1>1. param' = param
  BY Zenon DEF Moves
<1>2. CASE s = root
  <2>1. solver[root].iter < param.max_iter
    BY Zenon, <1>2 DEF FilesInv
  <2> QED
    BY Zenon, <2>1, <1>1, <1>2, FilesKept
<1>3. CASE s # root
  <2>1. solver'[root] = solver[root]
    BY Zenon, <1>3, RootSolver DEF Moves, TypeOK
  <2> QED
    BY Zenon, <2>1, <1>1, FilesSame
<1> QED
  BY Zenon, <1>2, <1>3

\* The loop of Step: an iteration begins below its end.
LEMMA StepInv ==
  ASSUME SolverInv, NEW s \in Solver, Step(s)
  PROVE  SolverInv'
<1>1. /\ TypeOK /\ FilesInv /\ TreeInv /\ root \in Solver /\ solver \in [Solver -> SolverType]
      /\ UNCHANGED <<param, parent, queue, data, got_sighup, got_sigint, model, state>>
      /\ solver[s].pc = "step"
  BY Zenon, RootSolver DEF SolverInv, Step, TypeOK, sync, tree, control, files, At
<1>2. CASE /\ solver[s].iter >= stop_iter(s)
           /\ Go(s, IF s = root THEN "after_train" ELSE "ended")
  <2>1. PICK p \in {"after_train", "ended"} : p = IF s = root THEN "after_train" ELSE "ended"
    BY Zenon
  <2>2. p \in Pc /\ p \notin Working /\ p \notin Iterating /\ Go(s, p)
    BY Zenon, <2>1, <1>2 DEF Pc, Working, Iterating
  <2>3. /\ Moves(s) /\ solver'[s].pc = p /\ solver'[s].iter = solver[s].iter
        /\ solver'[s].from = solver[s].from
    BY Zenon, <2>2, <1>1, GoFacts
  <2>4. Quiet(s)
    BY Zenon, <2>2, <2>3, <1>1 DEF Quiet, Working
  <2>5. FilesInv'
    <3>1. CASE s = root
      <4>1. Orderly
        BY Zenon, <2>2, <2>3, <3>1 DEF Orderly
      <4> QED
        BY Zenon, <4>1, <1>1, FilesOrderly
    <3>2. CASE s # root
      BY Zenon, <2>3, <3>2, <1>1, FilesSame DEF Moves
    <3> QED
      BY Zenon, <3>1, <3>2
  <2> QED
    BY Zenon, <2>3, <2>4, <2>5, <1>1, TreeQuiet, TypeKept DEF SolverInv, TypeOK
<1>3. CASE solver[s].iter < stop_iter(s) /\ s = root /\ GetRequestedAction("test")
  <2>1. /\ Moves(root) /\ solver'[root].pc = "check" /\ solver'[root].iter = solver[root].iter
        /\ solver'[root].from = "test"
    BY Zenon, <1>1, <1>3, AskFacts
  <2>2. Quiet(root)
    BY Zenon, <2>1, <1>1, <1>3 DEF Quiet, Working
  <2>3. solver[root].iter < param.max_iter
    BY Zenon, <1>3 DEF stop_iter
  <2>4. FilesInv'
    BY Zenon, <2>1, <2>3, <1>1, FilesKept
  <2> QED
    BY Zenon, <2>1, <2>2, <2>4, <1>1, TreeQuiet, TypeKept DEF SolverInv, TypeOK
<1>4. CASE solver[s].iter < stop_iter(s) /\ Go(s, "on_start")
  <2>1. /\ Moves(s) /\ solver'[s].pc = "on_start" /\ solver'[s].iter = solver[s].iter
        /\ solver'[s].from = solver[s].from
    BY Zenon, <1>1, <1>4, GoFacts DEF Pc, Iterating
  <2>2. Quiet(s)
    BY Zenon, <2>1, <1>1 DEF Quiet, Working
  <2>3. FilesInv'
    <3>1. CASE s = root
      <4>1. solver[root].iter < param.max_iter
        BY Zenon, <3>1, <1>4 DEF stop_iter
      <4> QED
        BY Zenon, <2>1, <3>1, <4>1, <1>1, FilesKept
    <3>2. CASE s # root
      BY Zenon, <2>1, <3>2, <1>1, FilesSame DEF Moves
    <3> QED
      BY Zenon, <3>1, <3>2
  <2> QED
    BY Zenon, <2>1, <2>2, <2>3, <1>1, TreeQuiet, TypeKept DEF SolverInv, TypeOK
<1> QED
  BY Zenon, <1>2, <1>3, <1>4 DEF Step

\* An update: the root's weights and its iteration go up together.
LEMMA ApplyInv ==
  ASSUME SolverInv, NEW s \in Solver, ApplyUpdate(s)
  PROVE  SolverInv'
<1>1. /\ TypeOK /\ FilesInv /\ TreeInv /\ root \in Solver /\ solver \in [Solver -> SolverType]
      /\ UNCHANGED <<param, parent, queue, got_sighup, got_sigint, model, state>>
      /\ solver[s].pc = "apply_update" /\ solver[s] \in SolverType /\ data \in [Solver -> Nat]
  BY Zenon, RootSolver DEF SolverInv, ApplyUpdate, TypeOK, tree, control, files, At
<1>2. PICK p \in {"check", "step"}, k \in Nat :
        p = (IF s = root THEN "check" ELSE "step") /\ k = solver[s].iter
  BY Zenon, <1>1 DEF SolverType
<1>3. PICK v : v = [solver[s] EXCEPT !.iter = k + 1, !.from = "update", !.pc = p]
  BY Zenon
<1>4. v \in SolverType
  <2>1. p \in Pc /\ k + 1 \in Nat
    BY <1>2 DEF Pc, Checking
  <2> QED
    BY Zenon, <1>1, <1>3, <2>1 DEF SolverType
<1>5. v.iter = k + 1 /\ v.from = "update" /\ v.pc = p
  BY Zenon, <1>1, <1>3 DEF SolverType
<1>6. solver' = [solver EXCEPT ![s] = v]
  BY Zenon, <1>1, <1>2, <1>3 DEF ApplyUpdate
<1>7. Moves(s) /\ solver'[s] = v
  BY Zenon, <1>1, <1>4, <1>6, PutFacts
<1>8. Quiet(s)
  BY Zenon, <1>1, <1>5, <1>7 DEF Quiet, Working
<1>9. /\ data' \in [Solver -> Nat]
      /\ data'[root] = IF s = root THEN data[root] + 1 ELSE data[root]
  BY <1>1 DEF ApplyUpdate
<1>10. FilesInv'
  <2>1. CASE s # root
    BY Zenon, <2>1, <1>1, <1>7, <1>9, FilesSame DEF Moves
  <2>2. CASE s = root
    <3>1. k < param.max_iter /\ data[root] = k
      BY Zenon, <2>2, <1>1, <1>2 DEF FilesInv, Iterating
    <3>2. k + 1 \in Iter /\ Iter' = Iter
      BY <3>1, <1>1, ParamsAssumption DEF Iter, TypeOK
    <3>3. /\ solver'[root].iter = k + 1 /\ data'[root] = k + 1 /\ solver'[root].from = "update"
          /\ solver'[root].pc = "check"
      BY Zenon, <2>2, <3>1, <1>2, <1>5, <1>7, <1>9
    <3>4. \A n \in Iter : Sound(n)'
      BY Zenon, <1>1 DEF FilesInv, Sound
    <3> QED
      BY Zenon, <3>2, <3>3, <3>4, <1>1 DEF FilesInv, Iterating, Working
  <2> QED
    BY Zenon, <2>1, <2>2
<1> QED
  BY Zenon, <1>1, <1>7, <1>8, <1>9, <1>10, TreeQuiet, TypeKept DEF SolverInv, TypeOK

\* on_start and on_gradients_ready: the steps that use the queues.
LEMMA QueueInv ==
  ASSUME SolverInv, NEW s \in Solver,
         Wait(s) \/ UpdateChild(s) \/ SumChild(s) \/ SendGradients(s)
  PROVE  SolverInv'
<1>1. /\ TypeOK /\ FilesInv /\ TreeInv /\ solver \in [Solver -> SolverType]
      /\ UNCHANGED <<param, parent, got_sighup, got_sigint, model, state>>
      /\ solver[s].pc \in Iterating /\ data \in [Solver -> Nat]
      /\ got_sighup' \in BOOLEAN /\ got_sigint' \in BOOLEAN
  BY Zenon DEF SolverInv, Wait, UpdateChild, SumChild, SendGradients, TypeOK, tree, control, files, At,
         Iterating, Working
<1>2. ASSUME Moves(s), queue' \in [Solver -> Seq(Solver)], data' \in [Solver -> Nat],
             data'[root] = data[root], solver'[s].iter = solver[s].iter,
             solver'[s].from = solver[s].from, solver'[s].pc # "snapshot", TreeInv'
      PROVE  SolverInv'
  BY Zenon, <1>1, <1>2, TypeKept, FilesWork DEF SolverInv
<1>3. PICK n \in Nat, m \in Nat : n = solver[s].i /\ m = Len(children(s))
  BY Zenon, <1>1, ChildrenFacts DEF SolverType
<1>4. "update_children" \in Pc /\ "on_gradients_ready" \in Pc /\ "apply_update" \in Pc
  BY Zenon DEF Pc, Iterating, Working
<1>5. CASE Wait(s)
  <2>1. GoWith(s, "update_children", m) /\ data' = data
    BY Zenon, <1>3, <1>5 DEF Wait
  <2>2. /\ Moves(s) /\ solver'[s].pc = "update_children" /\ solver'[s].iter = solver[s].iter
        /\ solver'[s].i = m /\ solver'[s].from = solver[s].from
    BY ZenonT(60), <2>1, <1>1, <1>4, GoWithFacts
  <2>3. TreeInv' /\ queue' \in [Solver -> Seq(Solver)]
    BY Zenon, <2>2, <1>1, <1>3, <1>5, TreeWait
  <2> QED
    BY Zenon, <2>1, <2>2, <2>3, <1>1, <1>2
<1>6. CASE UpdateChild(s)
  <2>1. GoWith(s, "update_children", n - 1) /\ n - 1 \in Nat
    <3>1. solver[s].i > 0 /\ GoWith(s, "update_children", solver[s].i - 1)
      BY Zenon, <1>6 DEF UpdateChild
    <3> QED
      BY <1>3, <3>1
  <2>2. /\ Moves(s) /\ solver'[s].pc = "update_children" /\ solver'[s].iter = solver[s].iter
        /\ solver'[s].i = n - 1 /\ solver'[s].from = solver[s].from
    BY Zenon, <2>1, <1>1, <1>4, GoWithFacts
  <2>3. /\ TreeInv' /\ queue' \in [Solver -> Seq(Solver)] /\ data' \in [Solver -> Nat]
        /\ data'[root] = data[root]
    BY Zenon, <2>2, <1>1, <1>3, <1>6, TreeUpdateChild
  <2> QED
    BY Zenon, <2>2, <2>3, <1>2
<1>7. CASE SumChild(s)
  <2>1. GoWith(s, "on_gradients_ready", n - 1) /\ n - 1 \in Nat /\ data' = data
    <3>1. solver[s].i > 0 /\ GoWith(s, "on_gradients_ready", solver[s].i - 1) /\ data' = data
      BY Zenon, <1>7 DEF SumChild
    <3> QED
      BY <1>3, <3>1
  <2>2. /\ Moves(s) /\ solver'[s].pc = "on_gradients_ready" /\ solver'[s].iter = solver[s].iter
        /\ solver'[s].i = n - 1 /\ solver'[s].from = solver[s].from
    BY <2>1, <1>1, <1>4, GoWithFacts
  <2>3. TreeInv' /\ queue' \in [Solver -> Seq(Solver)]
    BY Zenon, <2>2, <1>1, <1>3, <1>7, TreeSumChild
  <2> QED
    BY Zenon, <2>1, <2>2, <2>3, <1>1, <1>2
<1>8. CASE SendGradients(s)
  <2>1. Go(s, "apply_update") /\ data' = data
    BY Zenon, <1>8 DEF SendGradients
  <2>2. /\ Moves(s) /\ solver'[s].pc = "apply_update" /\ solver'[s].iter = solver[s].iter
        /\ solver'[s].from = solver[s].from
    BY Zenon, <2>1, <1>1, <1>4, GoFacts
  <2>3. TreeInv' /\ queue' \in [Solver -> Seq(Solver)]
    BY Zenon, <2>2, <1>1, <1>8, TreeSend
  <2> QED
    BY Zenon, <2>1, <2>2, <2>3, <1>1, <1>2
<1> QED
  BY Zenon, <1>5, <1>6, <1>7, <1>8

\* The passes, and a thread that is interrupted in on_start, in a pass or in on_gradients_ready.
LEMMA PassInv ==
  ASSUME SolverInv, NEW s \in Solver,
         ClearParamDiffs(s) \/ ForwardPass(s) \/ Backward(s) \/ Interrupted(s)
  PROVE  SolverInv'
<1>1. /\ TypeOK /\ FilesInv /\ TreeInv /\ solver \in [Solver -> SolverType] /\ root \in Solver
      /\ UNCHANGED <<param, parent, queue, data, got_sighup, got_sigint, model, state>>
      /\ solver[s].pc \in Iterating
  BY Zenon, RootSolver DEF SolverInv, ClearParamDiffs, ForwardPass, Backward, Interrupted, Forward, TypeOK, sync, tree,
         control, files, At, Iterating, Working
<1>2. ASSUME Moves(s), solver'[s].iter = solver[s].iter, solver'[s].from = solver[s].from,
             solver'[s].pc # "snapshot", TreeInv'
      PROVE  SolverInv'
  BY Zenon, <1>1, <1>2, TypeKept, FilesWork DEF SolverInv, TypeOK
<1>3. PICK n \in Nat, m \in Nat : n = solver[s].i /\ m = Len(children(s))
  BY Zenon, <1>1, ChildrenFacts DEF SolverType
<1>4. "forward" \in Pc /\ "backward" \in Pc /\ "on_gradients_ready" \in Pc /\ "ended" \in Pc
  BY Zenon DEF Pc, Iterating, Working
<1>5. CASE ClearParamDiffs(s)
  <2>1. Go(s, "forward") /\ solver[s].pc \in Working
    BY Zenon, <1>5 DEF ClearParamDiffs, At, Working
  <2>2. /\ Moves(s) /\ solver'[s].pc = "forward" /\ solver'[s].iter = solver[s].iter
        /\ solver'[s].from = solver[s].from
    BY Zenon, <2>1, <1>1, <1>4, GoFacts
  <2>3. TreeInv'
    BY Zenon, <2>1, <2>2, <1>1, TreePass
  <2> QED
    BY Zenon, <2>2, <2>3, <1>2
<1>6. CASE ForwardPass(s)
  <2>1. /\ solver' = [solver EXCEPT ![s].pc = "backward", ![s].weights = data[s]]
        /\ solver[s].pc \in Working /\ solver[s] \in SolverType
    BY Zenon, <1>1, <1>6 DEF ForwardPass, At, Working
  <2>2. PICK w \in Nat : w = data[s]
    BY Zenon, <1>1 DEF TypeOK
  <2>3. PICK v : v = [solver[s] EXCEPT !.pc = "backward", !.weights = w]
    BY Zenon
  <2>4. v \in SolverType /\ v.pc = "backward" /\ v.iter = solver[s].iter /\ v.from = solver[s].from
    BY Zenon, <2>1, <2>3, <1>4 DEF SolverType
  <2>5. solver' = [solver EXCEPT ![s] = v]
    BY Zenon, <2>1, <2>2, <2>3
  <2>6. Moves(s) /\ solver'[s] = v
    BY Zenon, <2>4, <2>5, <1>1, PutFacts
  <2>7. TreeInv'
    BY Zenon, <2>1, <2>4, <2>6, <1>1, TreePass
  <2> QED
    BY Zenon, <2>4, <2>6, <2>7, <1>2
<1>7. CASE Backward(s)
  <2>1. /\ GoWith(s, "forward", n + 1) \/ GoWith(s, "on_gradients_ready", m)
        /\ solver[s].pc \in Working
    <3>1. /\ \/ GoWith(s, "forward", solver[s].i + 1)
             \/ GoWith(s, "on_gradients_ready", Len(children(s)))
          /\ solver[s].pc = "backward"
      BY Zenon, <1>7 DEF Backward, At
    <3> QED
      BY Zenon, <1>3, <3>1 DEF Working
  <2>2. /\ Moves(s) /\ solver'[s].iter = solver[s].iter /\ solver'[s].from = solver[s].from
        /\ \/ solver'[s].pc = "forward"
           \/ solver'[s].pc = "on_gradients_ready" /\ solver'[s].i = m
    <3>1. CASE GoWith(s, "forward", n + 1)
      <4>1. n + 1 \in Nat
        OBVIOUS
      <4> QED
        BY Zenon, <3>1, <4>1, <1>1, <1>4, GoWithFacts
    <3>2. CASE GoWith(s, "on_gradients_ready", m)
      BY Zenon, <3>2, <1>1, <1>4, GoWithFacts
    <3> QED
      BY Zenon, <2>1, <3>1, <3>2
  <2>3. TreeInv'
    BY Zenon, <2>1, <2>2, <1>1, <1>3, TreePass
  <2> QED
    BY Zenon, <2>2, <2>3, <1>2
<1>8. CASE Interrupted(s)
  <2>1. Go(s, "ended")
    BY Zenon, <1>8 DEF Interrupted
  <2>2. /\ Moves(s) /\ solver'[s].pc = "ended" /\ solver'[s].iter = solver[s].iter
        /\ solver'[s].from = solver[s].from
    BY Zenon, <2>1, <1>1, <1>4, GoFacts
  <2>3. TreeInv'
    <3>1. CASE solver[s].pc \in Working
      BY Zenon, <2>2, <3>1, <1>1, TreePass
    <3>2. CASE solver[s].pc \notin Working
      <4>1. Quiet(s)
        BY Zenon, <2>2, <3>2, <1>1 DEF Quiet, Iterating, Working
      <4> QED
        BY Zenon, <4>1, <1>1, TreeQuiet
    <3> QED
      BY Zenon, <3>1, <3>2
  <2> QED
    BY Zenon, <2>2, <2>3, <1>2
<1> QED
  BY Zenon, <1>5, <1>6, <1>7, <1>8

\* What the root does outside an iteration.
LEMMA FinishingInv ==
  ASSUME SolverInv, Finishing
  PROVE  SolverInv'
<1>1. TypeOK /\ FilesInv /\ TreeInv /\ root \in Solver /\ queue \in [Solver -> Seq(Solver)]
      /\ data \in [Solver -> Nat] /\ got_sighup \in BOOLEAN /\ got_sigint \in BOOLEAN
  BY Zenon, RootSolver DEF SolverInv, TypeOK
<1>2. ASSUME Quiet(root), data' = data, got_sighup' \in BOOLEAN, got_sigint' \in BOOLEAN, FilesInv'
      PROVE  SolverInv'
  <2>1. Moves(root) /\ queue' \in [Solver -> Seq(Solver)] /\ data' \in [Solver -> Nat]
    BY Zenon, <1>1, <1>2 DEF Quiet
  <2> QED
    BY Zenon, <2>1, <1>1, <1>2, TypeKept, TreeQuiet DEF SolverInv
<1>3. CASE CheckForSignals
  <2>1. /\ Quiet(root) /\ Orderly /\ got_sighup' \in BOOLEAN /\ got_sigint' \in BOOLEAN
        /\ UNCHANGED <<data, model, state>>
    BY Zenon, <1>1, <1>3, CheckFacts
  <2>2. FilesInv'
    BY Zenon, <2>1, <1>1, FilesOrderly DEF Quiet, Moves
  <2> QED
    BY Zenon, <2>1, <2>2, <1>2
<1>4. CASE Snapshot
  BY Zenon, <1>1, <1>2, <1>4, SnapshotFacts, FilesSnapshot
<1>5. CASE AfterTrain \/ Display \/ StopInternalThread
  <2>1. Quiet(root) /\ Orderly /\ UNCHANGED <<data, got_sighup, got_sigint, model, state>>
    BY Zenon, <1>1, <1>5, EndFacts
  <2>2. FilesInv'
    BY Zenon, <2>1, <1>1, FilesOrderly DEF Quiet, Moves
  <2> QED
    BY Zenon, <2>1, <2>2, <1>1, <1>2
<1> QED
  BY Zenon, <1>3, <1>4, <1>5 DEF Finishing

\* A step that the solvers take no part in.
LEMMA SolverSame ==
  ASSUME SolverInv, UNCHANGED <<param, parent, queue, solver, data, model, state>>,
         got_sighup' \in BOOLEAN, got_sigint' \in BOOLEAN
  PROVE  SolverInv'
<1>1. TypeOK /\ FilesInv /\ TreeInv /\ root \in Solver
  BY Zenon, RootSolver DEF SolverInv, TypeOK
<1>2. Moves(root) /\ queue' \in [Solver -> Seq(Solver)] /\ data' \in [Solver -> Nat]
  BY Zenon, <1>1 DEF Moves, TypeOK
<1>3. TypeOK'
  BY Zenon, <1>1, <1>2, TypeKept
<1>4. FilesInv'
  BY Zenon, <1>1, FilesSame
<1>5. \A d : /\ Asked(d)' <=> Asked(d)
             /\ Answered(d)' <=> Answered(d)
             /\ Busy(d)' <=> Busy(d)
  BY Zenon DEF Asked, Answered, Busy
<1>6. \A d \in Solver : d # root => OneAtATime(d)'
  BY Zenon, <1>1, <1>5 DEF TreeInv, OneAtATime
<1>7. \A r \in Solver : Senders(r)'
  BY Zenon, <1>1, TreeStays DEF TreeInv, Senders
<1>8. Settled(root)'
  BY Zenon, <1>1, <1>5, SettledKept DEF TreeInv, Outstanding
<1>9. TreeInv'
  BY Zenon, <1>1, <1>2, <1>5, <1>6, <1>7, <1>8, TreeKept DEF Outstanding
<1> QED
  BY Zenon, <1>3, <1>4, <1>9 DEF SolverInv

\* Threads start with empty queues, all at the head of the loop.
LEMMA InitSolvers == SyncInit => SolverInv
<1> SUFFICES ASSUME SyncInit PROVE SolverInv
  BY Zenon
<1>1. PICK n \in Nat \ {0} : n = param.solver_count /\ param \in Params /\ Solver = 1..n
  BY Zenon, ParamsAssumption DEF SyncInit, Solver
<1>2. root \in Solver /\ initial_iter \in Nat
  BY <1>1, ParamsAssumption DEF root, SyncInit, FilesInit
<1>3. PICK t \in Trees(n) : parent = t.parent /\ IsTree(n, t)
  BY Zenon, <1>1, TreesAssumption DEF SyncInit
<1>4. /\ parent \in [1..n -> 0..n] /\ parent[1] = 0
      /\ \A s \in 2..n : parent[s] \in 1..(s - 1)
  BY Zenon, <1>3 DEF IsTree
<1>5. /\ parent \in [Solver -> 0..param.solver_count] /\ parent[root] = 0
      /\ \A s \in Solver : s # root => parent[s] \in 1..(s - 1)
  BY <1>1, <1>4 DEF root
<1>6. queue = [s \in Solver |-> <<>>] /\ <<>> \in Seq(Solver) /\ Elems(<<>>) = {} /\ Distinct(<<>>)
  BY DEF SyncInit, Elems, Distinct
<1>7. \A s \in Solver : solver[s] \in SolverType /\ solver[s].pc = "step"
  <2> SUFFICES ASSUME NEW s \in Solver PROVE solver[s] \in SolverType /\ solver[s].pc = "step"
    BY Zenon
  <2>1. PICK k \in Nat : k = IF s = 1 THEN initial_iter ELSE 0
    BY Zenon, <1>2
  <2>2. PICK off \in BOOLEAN : off = FALSE
    BY Zenon
  <2>3. solver[s] = [pc |-> "step", iter |-> k, i |-> 0, weights |-> 0,
                     from |-> "step", after |-> "step", flag |-> off]
    BY Zenon, <2>1, <2>2 DEF SyncInit
  <2>4. "step" \in Pc /\ "step" \in After
    BY Zenon DEF Pc, After
  <2> QED
    BY <2>3, <2>4 DEF SolverType
<1>8. solver \in [Solver -> SolverType]
  BY Zenon, <1>7 DEF SyncInit
<1>9. data \in [Solver -> Nat]
  BY Zenon, <1>2 DEF SyncInit
<1>10. TypeOK
  <2>1. got_sighup \in BOOLEAN /\ got_sigint \in BOOLEAN
    BY Zenon DEF SyncInit
  <2>2. queue \in [Solver -> Seq(Solver)]
    BY Zenon, <1>6
  <2> QED
    BY Zenon, <2>1, <2>2, <1>1, <1>5, <1>8, <1>9 DEF TypeOK
<1>11. ASSUME NEW d \in Solver, d # root PROVE ~Asked(d) /\ ~Answered(d) /\ ~Busy(d)
  <2>1. parent[d] \in Solver
    BY Zenon, <1>10, <1>11, ParentSolver
  <2> QED
    BY Zenon, <2>1, <1>6, <1>7 DEF Asked, Answered, Busy, Working
<1>12. ASSUME NEW s \in Solver PROVE Senders(s) /\ Settled(s)
  <2>1. Owing(s) = {}
    BY ZenonT(60), <1>10, <1>11, ChildrenFacts DEF Owing, Outstanding, Child
  <2>2. solver[s].pc = "step"
    BY Zenon, <1>7
  <2> QED
    BY Zenon, <2>1, <2>2, <1>6 DEF Senders, Settled
<1>13. TreeInv
  BY Zenon, <1>11, <1>12 DEF TreeInv, OneAtATime
<1> QED
  BY Zenon, <1>10, <1>13, InitFiles DEF SolverInv

\* Every step of every thread keeps the invariant.
LEMMA NextInv == SolverInv /\ [Next]_vars => SolverInv'
<1> SUFFICES ASSUME SolverInv, [Next]_vars PROVE SolverInv'
  BY Zenon
<1>1. got_sighup \in BOOLEAN /\ got_sigint \in BOOLEAN
  BY Zenon DEF SolverInv, TypeOK
<1>2. ASSUME UNCHANGED <<sync, control, solver>>, param' = param PROVE SolverInv'
  BY Zenon, <1>1, <1>2, SolverSame DEF sync, tree, control, files
<1>3. CASE Finishing
  BY Zenon, <1>3, FinishingInv
<1>4. CASE Reading(Body)
  BY Zenon, <1>2, <1>4 DEF Reading, Body, TakeQueuePair, Read
<1>5. ASSUME NEW s \in Solver, Solving(s) PROVE SolverInv'
  BY Zenon, <1>5, StepInv, ApplyInv, QueueInv, PassInv DEF Solving
<1>6. ASSUME NEW s \in Solver, Reading(SetUp(s)) PROVE SolverInv'
  BY Zenon, <1>2, <1>6 DEF Reading, SetUp, NewReader, DataLayerSetUp
<1>7. ASSUME NEW s \in Solver, Reading(GetBatch(s)) PROVE SolverInv'
  BY Zenon, <1>2, <1>7 DEF Reading, GetBatch, StartBatch, Loading, PopDatum, FinishBatch, Task
<1>8. CASE handle_signal
  <2>1. got_sighup' \in BOOLEAN /\ got_sigint' \in BOOLEAN
    BY Zenon, <1>8 DEF handle_signal
  <2> QED
    BY Zenon, <2>1, <1>8, SolverSame DEF handle_signal, sync, tree, files
<1>9. CASE UNCHANGED vars
  BY Zenon, <1>2, <1>9 DEF vars
<1> QED
  BY Zenon, <1>3, <1>4, <1>5, <1>6, <1>7, <1>8, <1>9 DEF Next, Threads

------------------------------------------------------------------------------
\* The solvers' threads keep to their types, the root's weights are those of its iteration,
\* and between a worker and its parent there is at most one word at a time
\* (parallel.cpp:296-380, solver.cpp:227-349).
THEOREM Invariance == Spec => []IInv
<1>1. SyncInit => IInv
  BY Zenon, ReaderInit, InitSolvers DEF IInv, SolverInv
<1>2. IInv /\ [Next]_vars => IInv'
  BY Zenon, StepReader, NextInv DEF IInv, SolverInv
<1> QED
  BY <1>1, <1>2, PTL DEF Spec

\* Whenever the process is killed, the model and the state of iteration k are absent, torn or
\* have exactly k updates, and a state never stands without its model: for every number of
\* solvers, every tree, every setting and every signal, and from any sound files left by
\* earlier processes (solver.cpp:281-289, 437-452, 497-506, sgd_solver.cpp:293-310).
THEOREM SnapshotSafety == Spec => []SnapshotTrue
<1>1. IInv => SnapshotTrue
  BY Zenon DEF IInv, FilesInv, SnapshotTrue
<1> QED
  BY <1>1, Invariance, PTL

\* In every tree, a solver that waits in on_start finds its parent's word, and one that waits
\* in on_gradients_ready a child's (parallel.cpp:298-301, 336-341).
THEOREM QueueSafety == Spec => []NeverMixedUp
<1>1. IInv => NeverMixedUp
  <2> SUFFICES ASSUME IInv, NEW s \in Solver, queue[s] # <<>>
               PROVE  /\ At(s, "on_start") => Head(queue[s]) = parent[s]
                      /\ At(s, "on_gradients_ready") => parent[Head(queue[s])] = s
    BY Zenon DEF NeverMixedUp
  <2>1. TypeOK /\ TreeInv
    BY Zenon DEF IInv
  <2>2. At(s, "on_start") => Head(queue[s]) = parent[s]
    BY Zenon, <2>1, OnlyParent DEF At
  <2>3. At(s, "on_gradients_ready") => parent[Head(queue[s])] = s
    BY Zenon, <2>1, OnlyChild DEF At, Child
  <2> QED
    BY Zenon, <2>2, <2>3
<1> QED
  BY <1>1, Invariance, PTL
==============================================================================
