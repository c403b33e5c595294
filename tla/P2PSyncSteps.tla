---------------------------- MODULE P2PSyncSteps ----------------------------
(***************************************************************************)
(* For every number of devices, every tree they may form and all settings: *)
(* datum buffers are neither lost nor in two places; and, for the theorems *)
(* about the solvers, what one step of a solver changes and how it leaves  *)
(* the files of a snapshot.                                                *)
(***************************************************************************)
EXTENDS P2PSync, FiniteSetTheorems, TLAPS

Elems(q) == {q[i] : i \in DOMAIN q}
Distinct(q) == \A i, j \in DOMAIN q : q[i] = q[j] => i = j

------------------------------------------------------------------------------
(* The data reader                                                         *)

ReaderType ==
  /\ param \in Params
  /\ free \in [Solver -> Seq(Buffer)] /\ full \in [Solver -> Seq(Buffer)]
  /\ load \in [Solver -> [batch : Nat, taken : Nat, tasks : SUBSET (Nat \X Buffer)]]
  /\ prefetch_free \in [Solver -> Seq(Nat)] /\ prefetch_full \in [Solver -> Seq(Nat)]

\* The items of the tasks of a batch have been popped, and every buffer is somewhere.
\* Nothing needs to be said about the buffers being in one place only: there are as many
\* entries as buffers.
Kept(s) ==
  /\ IsFiniteSet(load[s].tasks)
  /\ \A t \in load[s].tasks : t[1] <= load[s].taken
  /\ Elems(free[s]) \cup Elems(full[s]) \cup {t[2] : t \in load[s].tasks} = Buffer
  /\ Len(free[s]) + Len(full[s]) + Cardinality(load[s].tasks) = param.queue_size

ReaderInv == ReaderType /\ \A s \in Solver : Kept(s)

------------------------------------------------------------------------------
(* The solvers                                                             *)

Working == {"update_children", "forward", "backward", "on_gradients_ready"}
Checking == {"check", "clear_sighup", "check_sigint", "clear_sigint"}
Iterating == Working \cup {"on_start", "apply_update"}
Pc == Iterating \cup Checking \cup
      {"step", "snapshot", "after_train", "display", "stop", "interrupt", "join", "ended"}
After == {"step", "check", "after_train", "stop", "display"}

SolverType ==
  [pc : Pc, iter : Nat, i : Nat, weights : Nat, from : {"step", "test", "update", "final"},
   after : After, flag : BOOLEAN]

TypeOK ==
  /\ param \in Params
  /\ parent \in [Solver -> 0..param.solver_count] /\ parent[root] = 0
  /\ \A s \in Solver : s # root => parent[s] \in 1..(s - 1)
  /\ queue \in [Solver -> Seq(Solver)]
  /\ solver \in [Solver -> SolverType]
  /\ data \in [Solver -> Nat]
  /\ got_sighup \in BOOLEAN /\ got_sigint \in BOOLEAN

\* The root's weights are those of its iteration, which is below max_iter where a further
\* update follows; and the files are sound, the model having been opened before the state is.
FilesInv ==
  /\ model \in [Iter -> {Absent, Torn} \cup Iter] /\ state \in [Iter -> {Absent, Torn} \cup Iter]
  /\ data[root] = solver[root].iter /\ solver[root].iter \in Iter
  /\ solver[root].pc \in Iterating \/ solver[root].from = "test" =>
       solver[root].iter < param.max_iter
  /\ solver[root].pc = "snapshot" =>
       /\ solver[root].i \in 0..3
       /\ solver[root].i > 0 => model[solver[root].iter] # Absent
  /\ \A k \in Iter : Sound(k)

\* The children of solver p.
Child(p) == {d \in Solver : parent[d] = p}

------------------------------------------------------------------------------
(* Queues                                                                  *)

\* What a queue is.
LEMMA SeqFacts ==
  ASSUME NEW S, NEW q \in Seq(S)
  PROVE  /\ Len(q) \in Nat /\ DOMAIN q = 1..Len(q) /\ Elems(q) \subseteq S
         /\ q = <<>> <=> Len(q) = 0
BY DEF Elems

\* What push does to a queue.
LEMMA AppendFacts ==
  ASSUME NEW S, NEW q \in Seq(S), NEW e \in S
  PROVE  /\ Append(q, e) \in Seq(S) /\ Len(Append(q, e)) = Len(q) + 1
         /\ Elems(Append(q, e)) = Elems(q) \cup {e}
         /\ Distinct(q) /\ e \notin Elems(q) => Distinct(Append(q, e))
<1>1. PICK n \in Nat, r \in Seq(S) : n = Len(q) /\ r = Append(q, e)
  <2>1. Len(q) \in Nat /\ Append(q, e) \in Seq(S)
    OBVIOUS
  <2> QED
    BY Zenon, <2>1
<1>2. Len(r) = n + 1 /\ DOMAIN q = 1..n
  BY <1>1
<1>3. DOMAIN r = 1..(n + 1)
  BY <1>2
<1>4. r[n + 1] = e /\ \A i \in 1..n : r[i] = q[i]
  BY <1>1
<1>5. Elems(r) = Elems(q) \cup {e}
  <2>1. \A i \in 1..(n + 1) : i \in 1..n \/ i = n + 1
    OBVIOUS
  <2>2. \A i \in 1..n : i \in 1..(n + 1)
    OBVIOUS
  <2>3. n + 1 \in 1..(n + 1)
    OBVIOUS
  <2> QED
    BY Zenon, <1>2, <1>3, <1>4, <2>1, <2>2, <2>3 DEF Elems
<1>6. ASSUME Distinct(q), e \notin Elems(q) PROVE Distinct(r)
  BY <1>2, <1>3, <1>4, <1>6 DEF Distinct, Elems
<1> QED
  BY Zenon, <1>1, <1>2, <1>5, <1>6

\* What pop does to a queue.
LEMMA TailFacts ==
  ASSUME NEW S, NEW q \in Seq(S), q # <<>>
  PROVE  /\ Head(q) \in S /\ Tail(q) \in Seq(S) /\ Len(Tail(q)) = Len(q) - 1
         /\ Elems(q) = {Head(q)} \cup Elems(Tail(q))
         /\ Distinct(q) => Distinct(Tail(q)) /\ Head(q) \notin Elems(Tail(q))
<1>1. PICK m \in Nat, r \in Seq(S), e \in S :
        m = Len(q) /\ m > 0 /\ DOMAIN q = 1..m /\ r = Tail(q) /\ e = Head(q)
  <2>1. Len(q) \in Nat /\ Len(q) > 0 /\ DOMAIN q = 1..Len(q)
    OBVIOUS
  <2>2. Tail(q) \in Seq(S) /\ Head(q) \in S
    BY <2>1
  <2> QED
    BY Zenon, <2>1, <2>2
<1>2. PICK n \in Nat : m = n + 1
  <2>1. m - 1 \in Nat /\ m = (m - 1) + 1
    BY <1>1
  <2> QED
    BY Zenon, <2>1
<1>3. DOMAIN q = 1..(n + 1) /\ Len(r) = n /\ DOMAIN r = 1..n
  BY <1>1, <1>2
<1>4. e = q[1] /\ \A i \in 1..n : r[i] = q[i + 1]
  BY <1>1, <1>2
<1>5. Elems(q) = {e} \cup Elems(r)
  <2>1. \A i \in 1..(n + 1) : i = 1 \/ (i - 1 \in 1..n /\ (i - 1) + 1 = i)
    OBVIOUS
  <2>2. \A i \in 1..n : i + 1 \in 1..(n + 1)
    OBVIOUS
  <2>3. ASSUME NEW x \in Elems(q) PROVE x \in {e} \cup Elems(r)
    <3>1. PICK i \in 1..(n + 1) : x = q[i]
      BY Zenon, <1>3 DEF Elems
    <3>2. CASE i = 1
      BY Zenon, <1>4, <3>1, <3>2
    <3>3. CASE i - 1 \in 1..n /\ (i - 1) + 1 = i
      <4>1. PICK j \in 1..n : j = i - 1 /\ j + 1 = i
        BY Zenon, <3>3
      <4>2. r[j] = x
        BY Zenon, <1>4, <3>1, <4>1
      <4> QED
        BY Zenon, <1>3, <4>2 DEF Elems
    <3> QED
      BY Zenon, <2>1, <3>2, <3>3
  <2>4. {e} \cup Elems(r) \subseteq Elems(q)
    BY <1>3, <1>4, <2>2 DEF Elems
  <2> QED
    BY Zenon, <2>3, <2>4
<1>6. ASSUME Distinct(q) PROVE Distinct(r) /\ e \notin Elems(r)
  <2>1. ASSUME NEW i \in 1..n, NEW j \in 1..n, r[i] = r[j] PROVE i = j
    <3>1. i + 1 \in 1..(n + 1) /\ j + 1 \in 1..(n + 1) /\ q[i + 1] = q[j + 1]
      BY <1>4, <2>1
    <3>2. i + 1 = j + 1
      BY Zenon, <3>1, <1>3, <1>6 DEF Distinct
    <3> QED
      BY <3>2
  <2>2. ASSUME NEW i \in 1..n PROVE r[i] # e
    <3>1. i + 1 \in 1..(n + 1) /\ 1 \in 1..(n + 1) /\ i + 1 # 1 /\ r[i] = q[i + 1]
      BY <1>4
    <3> QED
      BY Zenon, <3>1, <1>3, <1>4, <1>6 DEF Distinct
  <2> QED
    BY Zenon, <1>3, <2>1, <2>2 DEF Distinct, Elems
<1> QED
  BY <1>1, <1>2, <1>3, <1>5, <1>6

------------------------------------------------------------------------------
(* The steps of the data reader                                            *)

LoadType == [batch : Nat, taken : Nat, tasks : SUBSET (Nat \X Buffer)]

\* A step that leaves the queue pair of solver s and its tasks alone.
LEMMA KeptSame ==
  ASSUME NEW s, Kept(s), param' = param, free'[s] = free[s], full'[s] = full[s],
         load'[s].tasks = load[s].tasks, load'[s].taken = load[s].taken
  PROVE  Kept(s)'
BY Zenon DEF Kept, Buffer

\* read_one moves a buffer from the free queue to the full one.
LEMMA ReadOneInv ==
  ASSUME ReaderInv, NEW q, read_one(q), UNCHANGED <<param, load, prefetch_free, prefetch_full>>
  PROVE  ReaderInv'
<1>1. ReaderType /\ Solver' = Solver /\ Buffer' = Buffer
  BY Zenon DEF ReaderInv, Solver, Buffer
<1>2. ASSUME NEW s \in Solver, s # q PROVE free'[s] = free[s] /\ full'[s] = full[s]
  BY Zenon, <1>1, <1>2 DEF read_one, ReaderType
<1>3. ASSUME q \in Solver
      PROVE  /\ free[q] # <<>> /\ free'[q] = Tail(free[q]) /\ full'[q] = Append(full[q], Head(free[q]))
             /\ free[q] \in Seq(Buffer) /\ full[q] \in Seq(Buffer)
  BY Zenon, <1>1, <1>3 DEF read_one, ReaderType
<1>4. ASSUME NEW s \in Solver PROVE Kept(s)' /\ free'[s] \in Seq(Buffer) /\ full'[s] \in Seq(Buffer)
  <2>1. CASE s # q
    <3>1. Kept(s)
      BY Zenon DEF ReaderInv
    <3> QED
      BY Zenon, <2>1, <3>1, <1>1, <1>2, KeptSame DEF ReaderType
  <2>2. CASE s = q
    <3>1. PICK b \in Buffer, nf \in Nat, nu \in Nat :
            b = Head(free[s]) /\ nf = Len(free[s]) /\ nu = Len(full[s])
      BY Zenon, <2>2, <1>3, TailFacts, SeqFacts
    <3>2. /\ free'[s] \in Seq(Buffer) /\ Len(free'[s]) = nf - 1
          /\ Elems(free[s]) = {b} \cup Elems(free'[s])
      BY Zenon, <2>2, <3>1, <1>3, TailFacts
    <3>3. /\ full'[s] \in Seq(Buffer) /\ Len(full'[s]) = nu + 1
          /\ Elems(full'[s]) = Elems(full[s]) \cup {b}
      <4>1. full'[s] = Append(full[s], b) /\ full[s] \in Seq(Buffer)
        BY Zenon, <2>2, <3>1, <1>3
      <4>2. /\ Append(full[s], b) \in Seq(Buffer) /\ Len(Append(full[s], b)) = Len(full[s]) + 1
            /\ Elems(Append(full[s], b)) = Elems(full[s]) \cup {b}
        BY <4>1, AppendFacts
      <4> QED
        BY Zenon, <3>1, <4>1, <4>2
    <3>4. PICK k : k = Cardinality(load[s].tasks) /\ k \in Nat
      BY Zenon, FS_CardinalityType DEF ReaderInv, Kept
    <3>5. (nf - 1) + (nu + 1) + k = nf + nu + k
      BY <3>4
    <3> QED
      BY Zenon, <3>1, <3>2, <3>3, <3>4, <3>5, <1>1 DEF ReaderInv, Kept
  <2> QED
    BY Zenon, <2>1, <2>2
<1>5. ReaderType'
  <2>1. DOMAIN free' = Solver /\ DOMAIN full' = Solver
    BY Zenon, <1>1 DEF read_one, ReaderType
  <2>2. free' = [s \in Solver |-> free'[s]] /\ full' = [s \in Solver |-> full'[s]]
    BY Zenon, <1>1, <2>1 DEF read_one, ReaderType
  <2>3. free' \in [Solver -> Seq(Buffer)] /\ full' \in [Solver -> Seq(Buffer)]
    BY Zenon, <2>2, <1>4
  <2> QED
    BY Zenon, <2>3, <1>1 DEF ReaderType
<1> QED
  BY Zenon, <1>1, <1>4, <1>5 DEF ReaderInv

\* The parts of the invariant that a step of solver s's data layer can disturb.
LEMMA LayerInv ==
  ASSUME ReaderInv, NEW s \in Solver, param' = param,
         full' \in [Solver -> Seq(Buffer)], free' \in [Solver -> Seq(Buffer)],
         load' \in [Solver -> LoadType],
         prefetch_free' \in [Solver -> Seq(Nat)], prefetch_full' \in [Solver -> Seq(Nat)],
         \A r \in Solver : r # s => free'[r] = free[r] /\ full'[r] = full[r] /\ load'[r] = load[r],
         Kept(s)'
  PROVE  ReaderInv'
<1>1. Solver' = Solver /\ Buffer' = Buffer /\ LoadType' = LoadType
  BY Zenon DEF Solver, Buffer, LoadType
<1>2. ASSUME NEW r \in Solver PROVE Kept(r)'
  <2>1. CASE r = s
    BY Zenon, <2>1
  <2>2. CASE r # s
    BY Zenon, <2>2, KeptSame DEF ReaderInv
  <2> QED
    BY Zenon, <2>1, <2>2
<1>3. ReaderType'
  BY Zenon, <1>1 DEF ReaderType, ReaderInv, LoadType
<1> QED
  BY Zenon, <1>1, <1>2, <1>3 DEF ReaderInv

\* load_batch takes a free batch, and gives it back when its tasks have run.
LEMMA BatchInv ==
  ASSUME ReaderInv, NEW s \in Solver, StartBatch(s) \/ FinishBatch(s)
  PROVE  ReaderInv'
<1>1. ReaderType /\ Kept(s) /\ load \in [Solver -> LoadType]
  BY Zenon DEF ReaderInv, ReaderType, LoadType
<1>2. /\ param' = param /\ free' = free /\ full' = full
      /\ \A r \in Solver : r # s => load'[r] = load[r]
  BY Zenon, <1>1 DEF StartBatch, FinishBatch, queues, LoadType
<1>3. CASE StartBatch(s)
  <2>1. PICK q \in Seq(Nat), k \in Nat :
          q = prefetch_free[s] /\ q # <<>> /\ k = Head(q) /\ Tail(q) \in Seq(Nat)
    BY Zenon, <1>1, <1>3, TailFacts DEF StartBatch, ReaderType
  <2>2. load' = [load EXCEPT ![s].batch = k] /\ prefetch_free' = [prefetch_free EXCEPT ![s] = Tail(q)]
    BY Zenon, <2>1, <1>3 DEF StartBatch
  <2>3. load' \in [Solver -> LoadType] /\ prefetch_free' \in [Solver -> Seq(Nat)]
    BY Zenon, <2>1, <2>2, <1>1 DEF LoadType, ReaderType
  <2>4. load'[s].tasks = load[s].tasks /\ load'[s].taken = load[s].taken
    BY Zenon, <2>2, <1>1 DEF LoadType
  <2>5. Kept(s)'
    BY Zenon, <2>4, <1>1, <1>2, KeptSame
  <2> QED
    BY Zenon, <2>3, <2>5, <1>1, <1>2, <1>3, LayerInv DEF ReaderType, StartBatch
<1>4. CASE FinishBatch(s)
  <2>1. PICK q \in Seq(Nat), k \in Nat : q = prefetch_full[s] /\ k = load[s].batch /\ Append(q, k) \in Seq(Nat)
    BY Zenon, <1>1, AppendFacts DEF LoadType, ReaderType
  <2>2. load' = [load EXCEPT ![s] = Idle] /\ prefetch_full' = [prefetch_full EXCEPT ![s] = Append(q, k)]
    BY Zenon, <2>1, <1>4 DEF FinishBatch
  <2>3. Idle \in LoadType /\ Idle.tasks = {} /\ Idle.taken = 0
    BY Zenon DEF Idle, LoadType
  <2>4. load' \in [Solver -> LoadType] /\ prefetch_full' \in [Solver -> Seq(Nat)]
    BY Zenon, <2>1, <2>2, <2>3, <1>1 DEF ReaderType
  <2>5. Kept(s)'
    <3>1. load'[s].tasks = load[s].tasks /\ load[s].tasks = {}
      BY Zenon, <2>2, <2>3, <1>1, <1>4 DEF FinishBatch
    <3> QED
      BY Zenon, <3>1, <1>1, <1>2 DEF Kept, Buffer
  <2> QED
    BY Zenon, <2>4, <2>5, <1>1, <1>2, <1>4, LayerInv DEF ReaderType, FinishBatch
<1> QED
  BY Zenon, <1>3, <1>4

\* A buffer that is popped belongs to a task of an item that had none.
LEMMA PopInv ==
  ASSUME ReaderInv, NEW s \in Solver, PopDatum(s)
  PROVE  ReaderInv'
<1>1. ReaderType /\ Kept(s) /\ load \in [Solver -> LoadType] /\ load[s] \in LoadType
  BY Zenon DEF ReaderInv, ReaderType, LoadType
<1>2. PICK b \in Buffer, n \in Nat, T \in SUBSET (Nat \X Buffer) :
        b = Head(full[s]) /\ n = load[s].taken /\ T = load[s].tasks
  BY Zenon, <1>1, TailFacts DEF PopDatum, LoadType, ReaderType
<1>3. PICK t \in Nat \X Buffer : t = <<n + 1, b>>
  <2>1. n + 1 \in Nat
    OBVIOUS
  <2> QED
    BY Zenon, <2>1
<1>4. PICK U \in SUBSET (Nat \X Buffer) : U = T \cup {t}
  BY Zenon
<1>5. /\ load' = [load EXCEPT ![s].taken = n + 1, ![s].tasks = U]
      /\ full' = [full EXCEPT ![s] = Tail(full[s])]
      /\ param' = param /\ free' = free /\ prefetch_free' = prefetch_free /\ prefetch_full' = prefetch_full
  BY Zenon, <1>1, <1>2, <1>3, <1>4 DEF PopDatum
<1>6. /\ load' \in [Solver -> LoadType] /\ load'[s].taken = n + 1 /\ load'[s].tasks = U
      /\ \A r \in Solver : r # s => load'[r] = load[r] /\ full'[r] = full[r]
  <2>1. PICK v \in LoadType :
          v = [load[s] EXCEPT !.taken = n + 1, !.tasks = U] /\ v.taken = n + 1 /\ v.tasks = U
    <3>1. PICK v : v = [load[s] EXCEPT !.taken = n + 1, !.tasks = U]
      BY Zenon
    <3>2. v.taken = n + 1 /\ v.tasks = U
      BY Zenon, <3>1, <1>1 DEF LoadType
    <3>3. v = [batch |-> load[s].batch, taken |-> n + 1, tasks |-> U]
      BY Zenon, <3>1, <1>1 DEF LoadType
    <3>4. n + 1 \in Nat /\ load[s].batch \in Nat
      BY <1>1 DEF LoadType
    <3>5. v \in LoadType
      BY Zenon, <3>3, <3>4 DEF LoadType
    <3> QED
      BY Zenon, <3>1, <3>2, <3>5
  <2>2. load' = [load EXCEPT ![s] = v]
    BY Zenon, <2>1, <1>1, <1>5
  <2> QED
    BY <2>1, <2>2, <1>1, <1>5 DEF ReaderType
<1>7. PICK f \in Seq(Buffer), g \in Seq(Buffer), nf \in Nat, ng \in Nat :
        f = full[s] /\ f # <<>> /\ g = free[s] /\ nf = Len(f) /\ ng = Len(g)
  <2>1. full[s] \in Seq(Buffer) /\ free[s] \in Seq(Buffer) /\ full[s] # <<>>
    BY Zenon, <1>1 DEF PopDatum, ReaderType
  <2> QED
    BY Zenon, <2>1, SeqFacts
<1>8. /\ Tail(f) \in Seq(Buffer) /\ Len(Tail(f)) = nf - 1
      /\ Elems(f) = {b} \cup Elems(Tail(f))
  BY Zenon, <1>2, <1>7, TailFacts
<1>9. full' \in [Solver -> Seq(Buffer)] /\ full'[s] = Tail(f) /\ free'[s] = g
  BY Zenon, <1>1, <1>5, <1>7, <1>8 DEF ReaderType
<1>10. IsFiniteSet(T) /\ \A x \in T : x[1] <= n
  BY Zenon, <1>1, <1>2 DEF Kept
<1>11. t \notin T
  BY <1>3, <1>10
<1>12. IsFiniteSet(U) /\ Cardinality(U) = Cardinality(T) + 1 /\ Cardinality(T) \in Nat
  BY Zenon, <1>4, <1>10, <1>11, FS_AddElement, FS_CardinalityType
<1>13. \A x \in U : x[1] <= n + 1
  <2>1. \A x \in T : x[1] \in Nat
    BY Zenon
  <2> QED
    BY <2>1, <1>3, <1>4, <1>10
<1>14. {x[2] : x \in U} = {x[2] : x \in T} \cup {b}
  BY <1>3, <1>4
<1>15. /\ Elems(g) \cup Elems(f) \cup {x[2] : x \in T} = Buffer
       /\ ng + nf + Cardinality(T) = param.queue_size
  BY Zenon, <1>1, <1>2, <1>7 DEF Kept
<1>16. Elems(g) \cup Elems(Tail(f)) \cup {x[2] : x \in U} = Buffer
  BY Zenon, <1>8, <1>14, <1>15
<1>17. ng + Len(Tail(f)) + Cardinality(U) = param.queue_size
  <2>1. PICK k \in Nat : k = Cardinality(T)
    BY Zenon, <1>12
  <2>2. ng + (nf - 1) + (k + 1) = ng + nf + k
    OBVIOUS
  <2> QED
    BY Zenon, <2>1, <2>2, <1>8, <1>12, <1>15
<1>18. Kept(s)'
  <2>1. Buffer' = Buffer
    BY Zenon, <1>5 DEF Buffer
  <2> QED
    BY <2>1, <1>5, <1>6, <1>7, <1>9, <1>12, <1>13, <1>16, <1>17 DEF Kept
<1> QED
  BY Zenon, <1>1, <1>5, <1>6, <1>9, <1>18, LayerInv DEF ReaderType

\* A task gives its buffer back.
LEMMA TaskInv ==
  ASSUME ReaderInv, NEW s \in Solver, NEW i, NEW b \in Buffer, Task(s, i, b)
  PROVE  ReaderInv'
<1>1. ReaderType /\ Kept(s) /\ load \in [Solver -> LoadType] /\ load[s] \in LoadType
  BY Zenon DEF ReaderInv, ReaderType, LoadType
<1>2. PICK n \in Nat, T \in SUBSET (Nat \X Buffer) : n = load[s].taken /\ T = load[s].tasks
  BY Zenon, <1>1 DEF LoadType
<1>3. PICK t \in T : t = <<i, b>>
  BY Zenon, <1>2 DEF Task
<1>4. PICK U \in SUBSET (Nat \X Buffer) : U = T \ {t}
  BY Zenon
<1>5. /\ load' = [load EXCEPT ![s].tasks = U]
      /\ free' = [free EXCEPT ![s] = Append(free[s], b)]
      /\ param' = param /\ full' = full /\ prefetch_free' = prefetch_free /\ prefetch_full' = prefetch_full
  BY Zenon, <1>1, <1>2, <1>3, <1>4 DEF Task
<1>6. /\ load' \in [Solver -> LoadType] /\ load'[s].taken = n /\ load'[s].tasks = U
      /\ \A r \in Solver : r # s => load'[r] = load[r] /\ free'[r] = free[r]
  BY Zenon, <1>1, <1>2, <1>5 DEF LoadType, ReaderType
<1>7. PICK f \in Seq(Buffer), g \in Seq(Buffer), nf \in Nat, ng \in Nat :
        f = full[s] /\ g = free[s] /\ nf = Len(f) /\ ng = Len(g)
  <2>1. full[s] \in Seq(Buffer) /\ free[s] \in Seq(Buffer)
    BY Zenon, <1>1 DEF ReaderType
  <2> QED
    BY Zenon, <2>1, SeqFacts
<1>8. /\ Append(g, b) \in Seq(Buffer) /\ Len(Append(g, b)) = ng + 1
      /\ Elems(Append(g, b)) = Elems(g) \cup {b}
  BY <1>7, AppendFacts
<1>9. free' \in [Solver -> Seq(Buffer)] /\ free'[s] = Append(g, b) /\ full'[s] = f
  BY Zenon, <1>1, <1>5, <1>7, <1>8 DEF ReaderType
<1>10. IsFiniteSet(T) /\ \A x \in T : x[1] <= n
  BY Zenon, <1>1, <1>2 DEF Kept
<1>11. IsFiniteSet(U) /\ Cardinality(U) = Cardinality(T) - 1 /\ Cardinality(T) \in Nat
  BY Zenon, <1>3, <1>4, <1>10, FS_RemoveElement, FS_CardinalityType
<1>12. {x[2] : x \in U} \cup {b} = {x[2] : x \in T}
  BY <1>3, <1>4
<1>13. /\ Elems(g) \cup Elems(f) \cup {x[2] : x \in T} = Buffer
       /\ ng + nf + Cardinality(T) = param.queue_size
  BY Zenon, <1>1, <1>2, <1>7 DEF Kept
<1>14. Elems(Append(g, b)) \cup Elems(f) \cup {x[2] : x \in U} = Buffer
  BY Zenon, <1>8, <1>12, <1>13
<1>15. Len(Append(g, b)) + nf + Cardinality(U) = param.queue_size
  <2>1. PICK k \in Nat : k = Cardinality(T)
    BY Zenon, <1>11
  <2>2. (ng + 1) + nf + (k - 1) = ng + nf + k
    OBVIOUS
  <2> QED
    BY Zenon, <2>1, <2>2, <1>8, <1>11, <1>13
<1>16. Kept(s)'
  <2>1. Buffer' = Buffer
    BY Zenon, <1>5 DEF Buffer
  <2> QED
    BY Zenon, <2>1, <1>4, <1>5, <1>6, <1>7, <1>9, <1>10, <1>11, <1>14, <1>15 DEF Kept
<1> QED
  BY Zenon, <1>1, <1>5, <1>6, <1>9, <1>16, LayerInv DEF ReaderType

\* Forward returns a batch to the free ones.
LEMMA ForwardInv ==
  ASSUME ReaderInv, NEW s \in Solver, Forward(s)
  PROVE  ReaderInv'
<1>1. ReaderType
  BY Zenon DEF ReaderInv
<1>2. PICK q \in Seq(Nat), f \in Seq(Nat) : q = prefetch_full[s] /\ q # <<>> /\ f = prefetch_free[s]
  BY Zenon, <1>1 DEF Forward, ReaderType
<1>3. Tail(q) \in Seq(Nat) /\ Head(q) \in Nat
  BY Zenon, <1>2, TailFacts
<1>4. Append(f, Head(q)) \in Seq(Nat)
  BY Zenon, <1>3, AppendFacts
<1>5. prefetch_free' \in [Solver -> Seq(Nat)] /\ prefetch_full' \in [Solver -> Seq(Nat)]
  BY Zenon, <1>1, <1>2, <1>3, <1>4 DEF Forward, ReaderType
<1>6. param' = param /\ free' = free /\ full' = full /\ load' = load
  BY Zenon DEF Forward, queues
<1>7. Kept(s)'
  BY Zenon, <1>6, KeptSame DEF ReaderInv
<1> QED
  BY Zenon, <1>1, <1>5, <1>6, <1>7, LayerInv DEF ReaderType, LoadType

\* What neither the reader nor a data layer does leaves the buffers alone.
LEMMA ReaderSame ==
  ASSUME ReaderInv, UNCHANGED <<param, free, full, load, prefetch_free, prefetch_full>>
  PROVE  ReaderInv'
BY Zenon DEF ReaderInv, ReaderType, Kept, Solver, Buffer

\* The constructors hand out all buffers as free ones.
LEMMA ReaderInit == SyncInit => ReaderInv
<1> SUFFICES ASSUME SyncInit PROVE ReaderInv
  BY Zenon
<1>1. param \in Params /\ param.queue_size \in Nat /\ param.prefetch_count \in Nat
  BY Zenon, ParamsAssumption DEF SyncInit
<1>2. ASSUME NEW n \in Nat
      PROVE  UpTo(n) \in Seq(1..n) /\ UpTo(n) \in Seq(Nat) /\ Len(UpTo(n)) = n /\ Elems(UpTo(n)) = 1..n
  BY DEF UpTo, Elems
<1>3. PICK n \in Nat, m \in Nat : n = param.queue_size /\ m = param.prefetch_count /\ Buffer = 1..n
  BY Zenon, <1>1 DEF Buffer
<1>4. /\ free = [s \in Solver |-> UpTo(n)] /\ full = [s \in Solver |-> <<>>]
      /\ load = [s \in Solver |-> Idle] /\ prefetch_free = [s \in Solver |-> UpTo(m)]
      /\ prefetch_full = [s \in Solver |-> <<>>]
  BY Zenon, <1>3 DEF SyncInit, Init
<1>5. Idle \in LoadType
  BY Zenon DEF Idle, LoadType
<1>6. ReaderType
  BY <1>1, <1>2, <1>3, <1>4, <1>5 DEF ReaderType, LoadType
<1>7. ASSUME NEW s \in Solver PROVE Kept(s)
  <2>1. load[s].tasks = {} /\ free[s] = UpTo(n) /\ full[s] = <<>>
    BY Zenon, <1>4 DEF Idle
  <2>2. IsFiniteSet({}) /\ Cardinality({}) = 0
    BY Zenon, FS_EmptySet
  <2>3. Len(free[s]) = n /\ Len(full[s]) = 0 /\ Elems(free[s]) = 1..n /\ Elems(full[s]) = {}
    BY <2>1, <1>2 DEF Elems
  <2> QED
    BY <2>1, <2>2, <2>3, <1>3 DEF Kept
<1> QED
  BY Zenon, <1>6, <1>7 DEF ReaderInv

\* There is a root.
LEMMA RootSolver ==
  ASSUME param \in Params
  PROVE  root \in Solver /\ param.solver_count \in Nat /\ IsFiniteSet(Solver) /\ Solver \subseteq Nat
BY ParamsAssumption, FS_Interval DEF root, Solver

\* Every step of the reader, a data layer or a solver keeps the buffers.
LEMMA StepReader == ReaderInv /\ [Next]_vars => ReaderInv'
<1> SUFFICES ASSUME ReaderInv, [Next]_vars PROVE ReaderInv'
  BY Zenon
<1>1. root \in Solver
  BY Zenon, RootSolver DEF ReaderInv, ReaderType
<1>2. CASE UNCHANGED <<param, reader>>
  BY Zenon, <1>2, ReaderSame DEF reader, queues, layers
<1>3. CASE Body
  BY Zenon, <1>3, ReadOneInv DEF Body, TakeQueuePair, Read, layers
<1>4. ASSUME NEW s \in Solver, SetUp(s) PROVE ReaderInv'
  BY Zenon, <1>4, ReaderSame DEF SetUp, NewReader, DataLayerSetUp, queues, layers
<1>5. ASSUME NEW s \in Solver, GetBatch(s) PROVE ReaderInv'
  BY Zenon, <1>5, BatchInv, PopInv, TaskInv DEF GetBatch, Loading
<1>6. ASSUME NEW s \in Solver, Solving(s) PROVE ReaderInv'
  <2>1. CASE ForwardPass(s)
    BY Zenon, <2>1, ForwardInv DEF ForwardPass
  <2>2. CASE ~ForwardPass(s)
    BY Zenon, <2>2, <1>2, <1>6 DEF Solving, Step, Wait, UpdateChild, ClearParamDiffs, Backward, SumChild,
         SendGradients, ApplyUpdate, Interrupted
  <2> QED
    BY Zenon, <2>1, <2>2
<1>7. CASE Finishing
  <2>1. CASE Display
    BY Zenon, <2>1, <1>1, <1>2, ForwardInv DEF Display
  <2>2. CASE ~Display
    BY Zenon, <2>2, <1>2, <1>7 DEF Finishing, CheckForSignals, Snapshot, AfterTrain, StopInternalThread
  <2> QED
    BY Zenon, <2>1, <2>2
<1>8. CASE handle_signal
  BY Zenon, <1>2, <1>8 DEF handle_signal
<1>9. CASE UNCHANGED vars
  BY Zenon, <1>2, <1>9 DEF vars
<1> QED
  BY Zenon, <1>3, <1>4, <1>5, <1>6, <1>7, <1>8, <1>9 DEF Next, Threads, Reading

\* Datum buffers are neither lost nor in two places: a record is never overwritten before it
\* is parsed (data_reader.cpp:105-108, data_layer.cpp:100-114).
THEOREM BufferSafety == Spec => []BuffersKept
<1>1. ReaderInv => BuffersKept
  BY Zenon DEF ReaderInv, Kept, BuffersKept, Elems
<1> QED
  BY <1>1, ReaderInit, StepReader, PTL DEF Spec

------------------------------------------------------------------------------
(* Where the threads are                                                   *)

\* Only the thread of s goes on.
Moves(s) ==
  /\ solver' \in [Solver -> SolverType] /\ param' = param /\ parent' = parent
  /\ \A r \in Solver : r # s => solver'[r] = solver[r]

\* Whatever a thread's record becomes, the other threads stay where they are.
LEMMA PutFacts ==
  ASSUME solver \in [Solver -> SolverType], NEW s \in Solver, NEW v \in SolverType,
         solver' = [solver EXCEPT ![s] = v], param' = param, parent' = parent
  PROVE  Moves(s) /\ solver'[s] = v
BY Zenon DEF Moves

\* A thread goes on to p.
LEMMA GoFacts ==
  ASSUME solver \in [Solver -> SolverType], NEW s \in Solver, NEW p \in Pc, Go(s, p),
         param' = param, parent' = parent
  PROVE  /\ Moves(s) /\ solver'[s].pc = p /\ solver'[s].iter = solver[s].iter
         /\ solver'[s].i = solver[s].i /\ solver'[s].from = solver[s].from
         /\ solver'[s].after = solver[s].after
<1>1. PICK v : v = [solver[s] EXCEPT !.pc = p]
  BY Zenon
<1>2. solver[s] \in SolverType
  BY Zenon
<1>3. v \in SolverType
  BY Zenon, <1>1, <1>2 DEF SolverType
<1>4. solver' = [solver EXCEPT ![s] = v]
  BY Zenon, <1>1 DEF Go
<1>5. Moves(s) /\ solver'[s] = v
  BY Zenon, <1>3, <1>4, PutFacts
<1>6. /\ v.pc = p /\ v.iter = solver[s].iter /\ v.i = solver[s].i /\ v.from = solver[s].from
      /\ v.after = solver[s].after
  BY Zenon, <1>1, <1>2 DEF SolverType
<1> QED
  BY Zenon, <1>5, <1>6

\* A thread goes on to p and counts from n.
LEMMA GoWithFacts ==
  ASSUME solver \in [Solver -> SolverType], NEW s \in Solver, NEW p \in Pc, NEW n \in Nat,
         GoWith(s, p, n), param' = param, parent' = parent
  PROVE  /\ Moves(s) /\ solver'[s].pc = p /\ solver'[s].iter = solver[s].iter
         /\ solver'[s].i = n /\ solver'[s].from = solver[s].from
         /\ solver'[s].after = solver[s].after
<1>1. PICK v : v = [solver[s] EXCEPT !.pc = p, !.i = n]
  BY Zenon
<1>2. solver[s] \in SolverType
  BY Zenon
<1>3. v = [pc |-> p, iter |-> solver[s].iter, i |-> n, weights |-> solver[s].weights,
           from |-> solver[s].from, after |-> solver[s].after, flag |-> solver[s].flag]
  BY Zenon, <1>1, <1>2 DEF SolverType
<1>4. v \in SolverType
  BY Zenon, <1>2, <1>3 DEF SolverType
<1>5. solver' = [solver EXCEPT ![s] = v]
  BY Zenon, <1>1 DEF GoWith
<1>6. Moves(s) /\ solver'[s] = v
  BY Zenon, <1>4, <1>5, PutFacts
<1> QED
  BY <1>3, <1>6

\* The root asks for a request.
LEMMA AskFacts ==
  ASSUME solver \in [Solver -> SolverType], root \in Solver, NEW f \in {"test", "final"},
         GetRequestedAction(f), param' = param, parent' = parent
  PROVE  /\ Moves(root) /\ solver'[root].pc = "check" /\ solver'[root].iter = solver[root].iter
         /\ solver'[root].from = f /\ solver'[root].after = solver[root].after
<1>1. PICK v : v = [solver[root] EXCEPT !.pc = "check", !.from = f]
  BY Zenon
<1>2. solver[root] \in SolverType
  BY Zenon
<1>3. v = [pc |-> "check", iter |-> solver[root].iter, i |-> solver[root].i,
           weights |-> solver[root].weights, from |-> f, after |-> solver[root].after,
           flag |-> solver[root].flag]
  BY Zenon, <1>1, <1>2 DEF SolverType
<1>4. v \in SolverType
  BY Zenon, <1>2, <1>3 DEF SolverType, Pc, Checking
<1>5. solver' = [solver EXCEPT ![root] = v]
  BY Zenon, <1>1 DEF GetRequestedAction
<1>6. Moves(root) /\ solver'[root] = v
  BY Zenon, <1>4, <1>5, PutFacts
<1> QED
  BY <1>3, <1>6

\* The root begins a snapshot, or goes on to p.
LEMMA SnapFacts ==
  ASSUME solver \in [Solver -> SolverType], root \in Solver, NEW p \in Pc,
         NEW take \in BOOLEAN, take => p \in After,
         solver' = [solver EXCEPT ![root] = IF take THEN TakeSnapshot(p)
                                            ELSE [@ EXCEPT !.pc = p, !.flag = FALSE]],
         param' = param, parent' = parent
  PROVE  /\ Moves(root) /\ solver'[root].iter = solver[root].iter
         /\ solver'[root].from = solver[root].from
         /\ solver'[root].pc = IF take THEN "snapshot" ELSE p
         /\ take => solver'[root].i = 0
<1>1. solver[root] \in SolverType
  BY Zenon
<1>2. PICK off \in BOOLEAN : off = FALSE
  BY Zenon
<1>3. CASE take
  <2>1. PICK v : v = [solver[root] EXCEPT !.pc = "snapshot", !.i = 0, !.after = p, !.flag = off]
    BY Zenon
  <2>2. v \in SolverType
    BY Zenon, <2>1, <1>1, <1>3 DEF SolverType, Pc
  <2>3. /\ v.pc = "snapshot" /\ v.i = 0 /\ v.iter = solver[root].iter
        /\ v.from = solver[root].from
    BY Zenon, <2>1, <1>1 DEF SolverType
  <2>4. solver' = [solver EXCEPT ![root] = v]
    BY Zenon, <2>1, <1>2, <1>3 DEF TakeSnapshot
  <2>5. Moves(root) /\ solver'[root] = v
    BY Zenon, <2>2, <2>4, PutFacts
  <2> QED
    BY Zenon, <2>3, <2>5, <1>3
<1>4. CASE ~take
  <2>1. PICK v : v = [solver[root] EXCEPT !.pc = p, !.flag = off]
    BY Zenon
  <2>2. v \in SolverType
    BY Zenon, <2>1, <1>1 DEF SolverType
  <2>3. v.pc = p /\ v.iter = solver[root].iter /\ v.from = solver[root].from
    BY Zenon, <2>1, <1>1 DEF SolverType
  <2>4. solver' = [solver EXCEPT ![root] = v]
    BY Zenon, <2>1, <1>2, <1>4
  <2>5. Moves(root) /\ solver'[root] = v
    BY Zenon, <2>2, <2>4, PutFacts
  <2> QED
    BY Zenon, <2>3, <2>5, <1>4
<1> QED
  BY Zenon, <1>3, <1>4

------------------------------------------------------------------------------
(* The children of a solver                                                *)

\* A nonempty set of naturals has a least element.
LEMMA LeastElement ==
  ASSUME NEW S \in SUBSET Nat, S # {}
  PROVE  \E m \in S : \A k \in S : m <= k
<1>1. \E m \in S : \A k \in S : ~(<<k, m>> \in OpToRel(<, Nat))
  BY Zenon, NatLessThanWellFounded, WFMin
<1>2. \E m \in S : \A k \in S : ~(k < m)
  BY Zenon, <1>1 DEF OpToRel
<1>3. QED
  BY <1>2

\* The least element in front of an increasing list of the others.
LEMMA Prepend ==
  ASSUME NEW T \in SUBSET Nat, NEW m \in T, \A k \in T : m <= k,
         NEW n \in Nat, NEW u \in [1..n -> T \ {m}], Ordered(u)
  PROVE  \E t \in [1..n + 1 -> T] : Ordered(t)
<1> DEFINE t == [i \in 1..n + 1 |-> IF i = 1 THEN m ELSE u[i - 1]]
<1>1. \A j \in 1..n + 1 : j # 1 => j - 1 \in 1..n /\ t[j] = u[j - 1] /\ u[j - 1] \in T \ {m}
  OBVIOUS
<1>2. t[1] = m
  OBVIOUS
<1>3. t \in [1..n + 1 -> T]
  BY Zenon, <1>1, <1>2
<1>4. ASSUME NEW i \in 1..n + 1, NEW j \in 1..n + 1, i < j
      PROVE  t[i] < t[j]
  <2>1. j # 1
    BY <1>4
  <2> HIDE DEF t
  <2>2. CASE i = 1
    <3>1. t[j] \in T /\ t[j] # m
      BY Zenon, <1>1, <2>1
    <3>2. m \in Nat /\ t[j] \in Nat /\ m <= t[j]
      BY Zenon, <3>1
    <3>3. m < t[j]
      BY <3>1, <3>2
    <3>4. QED
      BY Zenon, <1>2, <2>2, <3>3
  <2>3. CASE i # 1
    <3>1. /\ i - 1 \in 1..n /\ j - 1 \in 1..n /\ i - 1 < j - 1
          /\ t[i] = u[i - 1] /\ t[j] = u[j - 1]
      BY <1>1, <1>4, <2>1, <2>3
    <3>2. u[i - 1] < u[j - 1]
      BY Zenon, <3>1 DEF Ordered
    <3>3. QED
      BY Zenon, <3>1, <3>2
  <2>4. QED
    BY Zenon, <2>2, <2>3
<1>5. Ordered(t)
  <2>1. DOMAIN t = 1..n + 1
    BY Zenon
  <2> HIDE DEF t
  <2>2. QED
    BY Zenon, <1>4, <2>1 DEF Ordered
<1>6. QED
  BY Zenon, <1>3, <1>5

\* A finite set of naturals can be listed in increasing order: take a smallest set that
\* cannot, and put its least element in front of a list of the others.
LEMMA OrderedListing ==
  ASSUME NEW S \in SUBSET Nat, IsFiniteSet(S)
  PROVE  \E s \in [1..Cardinality(S) -> S] : Ordered(s)
<1> DEFINE Listed(T) == \E s \in [1..Cardinality(T) -> T] : Ordered(s)
           Bad == {T \in FiniteSubsetsOf(S) : ~Listed(T)}
<1>1. SUFFICES ASSUME Bad # {} PROVE FALSE
  BY Zenon DEF FiniteSubsetsOf
<1>2. PICK T \in Bad : \A U \in Bad : ~(<<U, T>> \in StrictSubsetOrdering(S))
  <2>1. IsWellFoundedOn(StrictSubsetOrdering(S), FiniteSubsetsOf(S))
    BY Zenon, FS_StrictSubsetOrderingWellFounded
  <2>2. Bad \subseteq FiniteSubsetsOf(S)
    BY Zenon
  <2>3. QED
    BY Zenon, <1>1, <2>1, <2>2, WFMin
<1>3. T \subseteq S /\ IsFiniteSet(T) /\ ~Listed(T)
  BY Zenon DEF FiniteSubsetsOf
<1>4. T # {}
  <2>1. [i \in 1..0 |-> i] \in [1..0 -> {}] /\ Ordered([i \in 1..0 |-> i])
    BY DEF Ordered
  <2>2. QED
    BY Zenon, <1>3, <2>1, FS_EmptySet
<1>5. PICK m \in T : \A k \in T : m <= k
  BY Zenon, <1>3, <1>4, LeastElement
<1>6. PICK U, n : U = T \ {m} /\ n = Cardinality(U)
  BY Zenon
<1>7. IsFiniteSet(U) /\ n \in Nat /\ Cardinality(T) = n + 1
  <2>1. IsFiniteSet(T) /\ Cardinality(T) \in Nat
    BY Zenon, <1>3, FS_CardinalityType
  <2>2. IsFiniteSet(U) /\ Cardinality(U) = Cardinality(T) - 1
    BY Zenon, <1>5, <1>6, <2>1, FS_RemoveElement
  <2>3. n \in Nat
    BY Zenon, <1>6, <2>2, FS_CardinalityType
  <2>4. QED
    BY <1>6, <2>1, <2>2, <2>3
<1>8. PICK u \in [1..n -> U] : Ordered(u)
  <2>1. U \in FiniteSubsetsOf(S) /\ <<U, T>> \in StrictSubsetOrdering(S)
    BY Zenon, <1>3, <1>5, <1>6, <1>7 DEF FiniteSubsetsOf, StrictSubsetOrdering
  <2>2. Listed(U)
    BY Zenon, <1>2, <2>1
  <2>3. QED
    BY Zenon, <1>6, <2>2
<1>9. \E t \in [1..n + 1 -> T] : Ordered(t)
  BY Zenon, <1>3, <1>5, <1>6, <1>7, <1>8, Prepend
<1>10. QED
  BY Zenon, <1>3, <1>7, <1>9

\* children_ lists each child once.
LEMMA ChildrenFacts ==
  ASSUME TypeOK, NEW p \in Solver
  PROVE  /\ Len(children(p)) \in Nat /\ Len(children(p)) = Cardinality(Child(p))
         /\ IsFiniteSet(Child(p)) /\ root \notin Child(p) /\ p \notin Child(p)
         /\ \A j \in 1..Len(children(p)) : children(p)[j] \in Child(p)
         /\ \A j, k \in 1..Len(children(p)) : children(p)[j] = children(p)[k] => j = k
<1>1. Child(p) \subseteq Solver /\ Solver \subseteq Nat /\ IsFiniteSet(Solver) /\ param \in Params
  BY Zenon, RootSolver DEF TypeOK, Child
<1>2. IsFiniteSet(Child(p)) /\ Child(p) \in SUBSET Nat /\ Cardinality(Child(p)) \in Nat
  BY Zenon, <1>1, FS_Subset, FS_CardinalityType
<1>3. PICK C \in SUBSET Nat, n \in Nat : C = Child(p) /\ n = Cardinality(C)
  BY Zenon, <1>2
<1>4. \E q \in [1..n -> C] : Ordered(q)
  BY Zenon, <1>2, <1>3, OrderedListing
<1>5. children(p) = CHOOSE q \in [1..n -> C] : Ordered(q)
  BY Zenon, <1>3 DEF children, Child
<1>6. PICK q \in [1..n -> C] : q = children(p) /\ Ordered(q)
  BY Zenon, <1>4, <1>5
<1>7. q \in Seq(C) /\ Len(q) = n
  BY <1>6
<1>8. \A j, k \in 1..n : q[j] = q[k] => j = k
  <2> SUFFICES ASSUME NEW j \in 1..n, NEW k \in 1..n, q[j] = q[k] PROVE j = k
    BY Zenon
  <2>1. q[j] \in Nat /\ q[k] \in Nat /\ DOMAIN q = 1..n
    BY Zenon, <1>3, <1>6
  <2>2. ~(j < k) /\ ~(k < j)
    BY <2>1, <1>6 DEF Ordered
  <2> QED
    BY <2>2
<1>9. root \notin Child(p) /\ p \notin Child(p)
  BY <1>1 DEF TypeOK, Child, Solver, root
<1> QED
  BY Zenon, <1>2, <1>3, <1>6, <1>7, <1>8, <1>9

------------------------------------------------------------------------------
(* The root's steps outside an iteration                                   *)

\* What they leave alone, and that they are outside an iteration.
Quiet(s) ==
  /\ Moves(s) /\ queue' = queue
  /\ solver[s].pc \notin Working \cup {"ended"} /\ solver'[s].pc \notin Working

\* No iteration begins but after a test, and a snapshot begins with the model.
Orderly ==
  /\ solver'[root].iter = solver[root].iter
  /\ solver'[root].from = "test" => solver[root].from = "test"
  /\ solver'[root].pc \in Iterating => solver[root].from = "test"
  /\ solver'[root].pc = "snapshot" => solver'[root].i = 0

\* What a request makes the root do.
LEMMA HandleFacts ==
  ASSUME TypeOK, NEW request \in {"SNAPSHOT", "STOP", "NONE"}, Handle(request),
         param' = param, parent' = parent
  PROVE  Moves(root) /\ Orderly /\ solver'[root].pc \notin Working
<1> DEFINE from == solver[root].from
           pc == AfterRequest(from, request, requested_early_exit \/ request = "STOP")
           take == request = "SNAPSHOT" \/ (from = "update" /\ Due(param.snapshot))
<1>1. root \in Solver /\ solver \in [Solver -> SolverType] /\ solver[root] \in SolverType
  BY Zenon, RootSolver DEF TypeOK
<1>2. from \in {"step", "test", "update", "final"}
  BY Zenon, <1>1 DEF SolverType
<1>3. pc \in {"after_train", "step", "check", "on_start", "stop"} /\ (pc = "on_start" => from = "test")
  BY Zenon, <1>2 DEF AfterRequest
<1>4. take => pc \in {"after_train", "step", "check"}
  BY Zenon, <1>2 DEF AfterRequest
<1>5. solver' = [solver EXCEPT ![root] = IF take THEN TakeSnapshot(pc)
                                         ELSE [@ EXCEPT !.pc = pc, !.flag = FALSE]]
  BY Zenon DEF Handle
<1>6. take \in BOOLEAN
  BY Zenon
<1> HIDE DEF from, pc, take
<1>7. pc \in Pc /\ (take => pc \in After) /\ pc \notin Working
  BY Zenon, <1>3, <1>4 DEF Pc, After, Checking, Iterating, Working
<1>8. /\ Moves(root) /\ solver'[root].iter = solver[root].iter
      /\ solver'[root].from = solver[root].from
      /\ solver'[root].pc = IF take THEN "snapshot" ELSE pc
      /\ take => solver'[root].i = 0
  BY Zenon, <1>1, <1>5, <1>6, <1>7, SnapFacts
<1>9. /\ solver'[root].pc \notin Working
      /\ solver'[root].pc \in Iterating => solver[root].from = "test"
      /\ solver'[root].pc = "snapshot" => take
  BY Zenon, <1>3, <1>8 DEF from, Iterating, Working
<1> QED
  BY Zenon, <1>8, <1>9 DEF Orderly

\* CheckForSignals reads a flag, clears it, and handles the request.
LEMMA CheckFacts ==
  ASSUME TypeOK, CheckForSignals
  PROVE  /\ Quiet(root) /\ Orderly /\ got_sighup' \in BOOLEAN /\ got_sigint' \in BOOLEAN
         /\ UNCHANGED <<data, model, state>>
<1>1. root \in Solver /\ solver \in [Solver -> SolverType] /\ solver[root] \in SolverType
  BY Zenon, RootSolver DEF TypeOK
<1>2. UNCHANGED <<param, parent, queue, data, model, state>>
  BY Zenon DEF CheckForSignals, sync, tree, files
<1>3. ASSUME NEW p \in Checking, NEW f \in BOOLEAN,
             solver' = [solver EXCEPT ![root].pc = p, ![root].flag = f]
      PROVE  Moves(root) /\ Orderly /\ solver'[root].pc \notin Working
  <2>1. PICK v : v = [solver[root] EXCEPT !.pc = p, !.flag = f]
    BY Zenon
  <2>2. v \in SolverType
    BY Zenon, <2>1, <1>1 DEF SolverType, Pc
  <2>3. v.pc = p /\ v.iter = solver[root].iter /\ v.from = solver[root].from
    BY Zenon, <2>1, <1>1 DEF SolverType
  <2>4. solver' = [solver EXCEPT ![root] = v]
    BY Zenon, <2>1, <1>3
  <2>5. Moves(root) /\ solver'[root] = v
    BY Zenon, <2>2, <2>4, <1>1, <1>2, PutFacts
  <2>6. p \notin Working /\ p \notin Iterating /\ p # "snapshot"
    BY Zenon DEF Checking, Working, Iterating
  <2> QED
    BY Zenon, <2>3, <2>5, <2>6 DEF Orderly
<1>4. solver[root].pc \in Checking
  BY Zenon DEF CheckForSignals, GotSIGHUP, GotSIGINT, At, Checking
<1>5. got_sighup' \in BOOLEAN /\ got_sigint' \in BOOLEAN
  BY Zenon DEF CheckForSignals, GotSIGHUP, GotSIGINT, TypeOK
<1>6. ASSUME GotSIGHUP PROVE Moves(root) /\ Orderly /\ solver'[root].pc \notin Working
  <2>1. CASE At(root, "check")
    <3>1. solver' = [solver EXCEPT ![root].pc = "clear_sighup", ![root].flag = got_sighup]
      BY Zenon, <2>1, <1>6 DEF GotSIGHUP, At
    <3>2. "clear_sighup" \in Checking /\ got_sighup \in BOOLEAN
      BY Zenon DEF Checking, TypeOK
    <3> QED
      BY Zenon, <3>1, <3>2, <1>3
  <2>2. CASE At(root, "clear_sighup") /\ solver[root].flag
    <3>1. Handle("SNAPSHOT")
      BY Zenon, <2>2, <1>6 DEF GotSIGHUP, At
    <3> QED
      BY Zenon, <3>1, <1>2, HandleFacts
  <2>3. CASE At(root, "clear_sighup") /\ ~solver[root].flag
    <3>1. Go(root, "check_sigint") /\ "check_sigint" \in Pc
      BY Zenon, <2>3, <1>6 DEF GotSIGHUP, At, Pc, Checking
    <3>2. /\ Moves(root) /\ solver'[root].pc = "check_sigint" /\ solver'[root].iter = solver[root].iter
          /\ solver'[root].from = solver[root].from
      BY Zenon, <3>1, <1>1, <1>2, GoFacts
    <3> QED
      BY Zenon, <3>2 DEF Orderly, Working, Iterating
  <2> QED
    BY Zenon, <2>1, <2>2, <2>3, <1>6 DEF GotSIGHUP
<1>7. ASSUME GotSIGINT PROVE Moves(root) /\ Orderly /\ solver'[root].pc \notin Working
  <2>1. CASE At(root, "check_sigint")
    <3>1. solver' = [solver EXCEPT ![root].pc = "clear_sigint", ![root].flag = got_sigint]
      BY Zenon, <2>1, <1>7 DEF GotSIGINT, At
    <3>2. "clear_sigint" \in Checking /\ got_sigint \in BOOLEAN
      BY Zenon DEF Checking, TypeOK
    <3> QED
      BY Zenon, <3>1, <3>2, <1>3
  <2>2. CASE At(root, "clear_sigint")
    <3>1. Handle("STOP") \/ Handle("NONE")
      BY Zenon, <2>2, <1>7 DEF GotSIGINT, At
    <3> QED
      BY Zenon, <3>1, <1>2, HandleFacts
  <2> QED
    BY Zenon, <2>1, <2>2, <1>7 DEF GotSIGINT
<1> QED
  BY Zenon, <1>2, <1>4, <1>5, <1>6, <1>7 DEF CheckForSignals, Quiet, Checking, Working

\* The end of Solve and of Run.
LEMMA EndFacts ==
  ASSUME TypeOK, AfterTrain \/ Display \/ StopInternalThread
  PROVE  Quiet(root) /\ Orderly /\ UNCHANGED <<data, got_sighup, got_sigint, model, state>>
<1>1. root \in Solver /\ solver \in [Solver -> SolverType] /\ solver[root] \in SolverType
  BY Zenon, RootSolver DEF TypeOK
<1>2. UNCHANGED <<param, parent, queue, data, got_sighup, got_sigint, model, state>>
  BY Zenon DEF AfterTrain, Display, StopInternalThread, Forward, sync, tree, files, control
<1>3. solver[root].pc \in {"after_train", "display", "stop", "interrupt", "join"}
  BY Zenon DEF AfterTrain, Display, StopInternalThread, At
<1>4. ASSUME NEW p \in {"stop", "display", "join", "ended", "interrupt"}, Go(root, p)
      PROVE  Moves(root) /\ Orderly /\ solver'[root].pc \notin Working
  <2>1. p \in Pc /\ p \notin Working /\ p \notin Iterating /\ p # "snapshot"
    BY Zenon DEF Pc, Working, Iterating
  <2> QED
    BY Zenon, <2>1, <1>1, <1>2, <1>4, GoFacts DEF Orderly
<1>5. ASSUME NEW n \in Nat, GoWith(root, "interrupt", n)
      PROVE  Moves(root) /\ Orderly /\ solver'[root].pc \notin Working
  <2>1. "interrupt" \in Pc /\ "interrupt" \notin Working /\ "interrupt" \notin Iterating
    BY Zenon DEF Pc, Working, Iterating
  <2> QED
    BY Zenon, <2>1, <1>1, <1>2, <1>5, GoWithFacts DEF Orderly
<1>6. CASE AfterTrain
  <2>1. PICK p \in {"stop", "display"} : p = IF requested_early_exit THEN "stop" ELSE "display"
    BY Zenon
  <2>2. p \in Pc /\ p \in After /\ p \notin Working /\ p \notin Iterating
    BY Zenon DEF Pc, After, Working, Iterating
  <2>3. CASE param.snapshot_after_train /\ ~Due(param.snapshot)
    <3>1. solver' = [solver EXCEPT ![root] = TakeSnapshot(p)]
      BY Zenon, <2>1, <2>3, <1>6 DEF AfterTrain
    <3>2. solver' = [solver EXCEPT ![root] = IF TRUE THEN TakeSnapshot(p)
                                             ELSE [@ EXCEPT !.pc = p, !.flag = FALSE]]
      BY Zenon, <3>1
    <3>3. /\ Moves(root) /\ solver'[root].iter = solver[root].iter
          /\ solver'[root].from = solver[root].from
          /\ solver'[root].pc = "snapshot" /\ solver'[root].i = 0
      BY Zenon, <3>2, <2>2, <1>1, <1>2, SnapFacts
    <3>4. Moves(root) /\ Orderly /\ solver'[root].pc \notin Working
      BY Zenon, <3>3 DEF Orderly, Working, Iterating
    <3> QED
      BY Zenon, <3>4, <1>2, <1>3 DEF Quiet, Working
  <2>4. CASE ~(param.snapshot_after_train /\ ~Due(param.snapshot))
    <3>1. Go(root, p)
      BY Zenon, <2>1, <2>4, <1>1, <1>6 DEF AfterTrain, Go
    <3> QED
      BY Zenon, <3>1, <1>2, <1>3, <1>4 DEF Quiet, Working
  <2> QED
    BY Zenon, <2>3, <2>4
<1>7. CASE Display
  <2>1. CASE GetRequestedAction("final")
    <3>1. Moves(root) /\ Orderly /\ solver'[root].pc \notin Working
      BY Zenon, <2>1, <1>1, <1>2, AskFacts DEF Orderly, Working, Iterating
    <3> QED
      BY Zenon, <3>1, <1>2, <1>3 DEF Quiet, Working
  <2>2. CASE Go(root, "stop")
    BY Zenon, <2>2, <1>2, <1>3, <1>4 DEF Quiet, Working
  <2> QED
    BY Zenon, <2>1, <2>2, <1>7 DEF Display, AfterDisplay
<1>8. CASE StopInternalThread
  <2>1. solver[root].i \in Nat /\ solver[root].i + 1 \in Nat /\ 1 \in Nat
    BY <1>1 DEF SolverType
  <2>2. Moves(root) /\ Orderly /\ solver'[root].pc \notin Working
    BY Zenon, <2>1, <1>4, <1>5, <1>8 DEF StopInternalThread
  <2> QED
    BY Zenon, <2>2, <1>2, <1>3 DEF Quiet, Working
<1> QED
  BY Zenon, <1>6, <1>7, <1>8

\* Snapshot goes on, or ends where it was to go on.
LEMMA SnapshotFacts ==
  ASSUME TypeOK, Snapshot
  PROVE  /\ Quiet(root) /\ UNCHANGED <<data, got_sighup, got_sigint>>
         /\ solver'[root].iter = solver[root].iter /\ solver'[root].from = solver[root].from
         /\ solver'[root].pc \notin Iterating
         /\ solver'[root].pc = "snapshot" => solver[root].i < 3 /\ solver'[root].i = solver[root].i + 1
<1>1. root \in Solver /\ solver \in [Solver -> SolverType] /\ solver[root] \in SolverType
  BY Zenon, RootSolver DEF TypeOK
<1>2. UNCHANGED <<param, parent, queue, data, got_sighup, got_sigint>> /\ solver[root].pc = "snapshot"
  BY Zenon DEF Snapshot, sync, tree, At
<1>3. PICK n \in Nat, p \in After : n = solver[root].i /\ p = solver[root].after
  BY Zenon, <1>1 DEF SolverType
<1>4. CASE n < 3
  <2>1. GoWith(root, "snapshot", n + 1) /\ "snapshot" \in Pc /\ n + 1 \in Nat
    BY <1>3, <1>4 DEF Snapshot, Pc
  <2>2. /\ Moves(root) /\ solver'[root].pc = "snapshot" /\ solver'[root].iter = solver[root].iter
        /\ solver'[root].i = n + 1 /\ solver'[root].from = solver[root].from
    BY Zenon, <2>1, <1>1, <1>2, GoWithFacts
  <2> QED
    BY Zenon, <2>2, <1>2, <1>3, <1>4 DEF Quiet, Working, Iterating
<1>5. CASE ~(n < 3)
  <2>1. Go(root, p)
    BY Zenon, <1>3, <1>5 DEF Snapshot
  <2>2. p \in Pc /\ p \notin Iterating /\ p \notin Working /\ p # "snapshot"
    BY Zenon DEF After, Pc, Iterating, Working, Checking
  <2>3. /\ Moves(root) /\ solver'[root].pc = p /\ solver'[root].iter = solver[root].iter
        /\ solver'[root].from = solver[root].from
    BY Zenon, <2>1, <2>2, <1>1, <1>2, GoFacts
  <2> QED
    BY Zenon, <2>2, <2>3, <1>2 DEF Quiet, Working
<1> QED
  BY Zenon, <1>4, <1>5

------------------------------------------------------------------------------
(* Files                                                                   *)

\* A step that leaves the root and the files alone.
LEMMA FilesSame ==
  ASSUME FilesInv, UNCHANGED <<param, model, state>>, data'[root] = data[root],
         solver'[root] = solver[root]
  PROVE  FilesInv'
BY Zenon DEF FilesInv, Iter, Sound

\* The root's iteration and the files are as they were, and an iteration begins, if one
\* does, below max_iter.
LEMMA FilesKept ==
  ASSUME FilesInv, UNCHANGED <<param, model, state>>, data'[root] = data[root],
         solver'[root].iter = solver[root].iter,
         solver'[root].pc \in Iterating \/ solver'[root].from = "test" =>
           solver[root].iter < param.max_iter,
         solver'[root].pc = "snapshot" => solver'[root].i = 0
  PROVE  FilesInv'
<1>1. Iter' = Iter /\ \A k \in Iter : Sound(k)' <=> Sound(k)
  BY Zenon DEF Iter, Sound
<1>2. \A k \in Iter' : Sound(k)'
  BY Zenon, <1>1 DEF FilesInv
<1> QED
  BY <1>1, <1>2 DEF FilesInv

\* The steps of a snapshot: the model is torn, then whole, and after that the state.
LEMMA FilesSnapshot ==
  ASSUME TypeOK, FilesInv, Snapshot
  PROVE  FilesInv'
<1>1. PICK k \in Iter, i \in 0..3 : k = solver[root].iter /\ i = solver[root].i /\ data[root] = k
  BY Zenon DEF FilesInv, Snapshot, At
<1>2. /\ UNCHANGED <<param, data>> /\ solver'[root].iter = k /\ solver'[root].from = solver[root].from
      /\ solver'[root].pc \notin Iterating
      /\ solver'[root].pc = "snapshot" => i < 3 /\ solver'[root].i = i + 1
  BY Zenon, <1>1, SnapshotFacts DEF Quiet, Moves
<1>3. Iter' = Iter
  BY Zenon, <1>2 DEF Iter
<1>4. /\ model' = IF i < 2 THEN [model EXCEPT ![k] = IF i = 0 THEN Torn ELSE k] ELSE model
      /\ state' = IF i < 2 THEN state ELSE [state EXCEPT ![k] = IF i = 2 THEN Torn ELSE k]
  BY Zenon, <1>1 DEF Snapshot
<1>5. /\ model \in [Iter -> {Absent, Torn} \cup Iter] /\ state \in [Iter -> {Absent, Torn} \cup Iter]
      /\ i > 0 => model[k] # Absent
      /\ \A n \in Iter : Sound(n)
  BY Zenon, <1>1 DEF FilesInv, Snapshot, At
<1>6. Absent # Torn /\ Absent \notin Iter /\ Torn \notin Iter
  BY DEF Absent, Torn, Iter
<1>7. /\ model' \in [Iter -> {Absent, Torn} \cup Iter] /\ state' \in [Iter -> {Absent, Torn} \cup Iter]
      /\ \A n \in Iter : n # k => model'[n] = model[n] /\ state'[n] = state[n]
  BY Zenon, <1>4, <1>5
<1>8. model'[k] # Absent
  BY <1>4, <1>5, <1>6
<1>9. Sound(k)'
  <2>1. model'[k] \in {Absent, Torn, k} /\ state'[k] \in {Absent, Torn, k}
    BY Zenon, <1>4, <1>5 DEF Sound
  <2> QED
    BY Zenon, <2>1, <1>8 DEF Sound
<1>10. \A n \in Iter : Sound(n)'
  BY Zenon, <1>5, <1>7, <1>9 DEF Sound
<1>11. solver'[root].from = "test" => k < param.max_iter
  BY Zenon, <1>1, <1>2 DEF FilesInv
<1> QED
  BY <1>1, <1>2, <1>3, <1>7, <1>8, <1>10, <1>11 DEF FilesInv

\* A root's step outside an iteration, other than Snapshot.
LEMMA FilesOrderly ==
  ASSUME FilesInv, Orderly, UNCHANGED <<param, data, model, state>>
  PROVE  FilesInv'
<1>1. solver[root].from = "test" => solver[root].iter < param.max_iter
  BY Zenon DEF FilesInv
<1> QED
  BY Zenon, <1>1, FilesKept DEF Orderly

\* What an earlier process left is sound, and training resumes from whole files.
LEMMA InitFiles == SyncInit => FilesInv
<1> SUFFICES ASSUME SyncInit PROVE FilesInv
  BY Zenon
<1>1. root \in Solver /\ param \in Params
  BY Zenon, RootSolver DEF SyncInit
<1>2. /\ solver[root].iter = initial_iter /\ data[root] = initial_iter
      /\ solver[root].pc = "step" /\ solver[root].from = "step"
  BY Zenon, <1>1 DEF SyncInit, root
<1>3. initial_iter \in Iter
  BY Zenon, <1>1, ParamsAssumption DEF SyncInit, FilesInit, Iter
<1>4. \A k \in Iter : Sound(k)
  BY Zenon DEF SyncInit, FilesInit, Sound
<1> QED
  BY Zenon, <1>2, <1>3, <1>4 DEF SyncInit, FilesInit, FilesInv, Iterating, Working

=============================================================================
