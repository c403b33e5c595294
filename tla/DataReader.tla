----------------------------- MODULE DataReader -----------------------------
(***************************************************************************)
(* One database read for several solvers: the reader's body thread deals   *)
(* the records out in turn, through a pair of blocking queues per solver,  *)
(* and the data layer of each solver gathers them into batches, in its own *)
(* prefetch thread or within Forward.  A record is the number of its read. *)
(***************************************************************************)
EXTENDS Naturals, Sequences, FiniteSets

VARIABLES
  param,            \* the parameters that matter here, fixed from the start
  ready,            \* the solvers whose data layer is set up
  new_queue_pairs,  \* queue pairs the body has not taken
  qps, turn,        \* those it has, and the one it serves next
  reads,            \* how many records were read
  datum,            \* datum[s][b]: the record in a buffer
  free, full,       \* the queue pairs
  load,             \* load[s]: the batch in hand, items popped and tasks to run
  items,            \* items[s][k]: the records of batch k
  prefetch_free, prefetch_full,
  top               \* top[s]: what Forward returned last

queues == <<new_queue_pairs, qps, turn, reads, datum, free, full>>
layers == <<load, items, prefetch_free, prefetch_full, top>>
reader == <<ready, queues, layers>>

\* solver_count solvers, each with queue_size datum buffers (prefetch * batch_size) and
\* prefetch_count batches (PREFETCH_COUNT).
Solver == 1..param.solver_count
Buffer == 1..param.queue_size
Batch == 1..param.prefetch_count
BatchSize == param.batch_size

Idle == [batch |-> 0, taken |-> 0, tasks |-> {}]
UpTo(n) == [i \in 1..n |-> i]

Init ==
  /\ ready = {} /\ new_queue_pairs = <<>> /\ qps = <<>> /\ turn = 1 /\ reads = 0
  /\ datum = [s \in Solver |-> [b \in Buffer |-> 0]]
  /\ free = [s \in Solver |-> UpTo(param.queue_size)] /\ full = [s \in Solver |-> <<>>]
  /\ load = [s \in Solver |-> Idle]
  /\ items = [s \in Solver |-> [k \in Batch |-> [i \in 1..BatchSize |-> 0]]]
  /\ prefetch_free = [s \in Solver |-> UpTo(param.prefetch_count)]
  /\ prefetch_full = [s \in Solver |-> <<>>]
  /\ top = [s \in Solver |-> <<>>]

------------------------------------------------------------------------------
\* The constructor, solver after solver: the next layer is made when the one before
\* it has peeked at a record in DataLayerSetUp.
Known == {new_queue_pairs[i] : i \in DOMAIN new_queue_pairs} \cup {qps[i] : i \in DOMAIN qps}

NewReader(s) ==
  /\ s \notin Known /\ 1..(s - 1) = ready
  /\ new_queue_pairs' = Append(new_queue_pairs, s)
  /\ UNCHANGED <<param, ready, qps, turn, reads, datum, free, full, layers>>

DataLayerSetUp(s) ==
  /\ s \notin ready /\ full[s] # <<>>
  /\ ready' = ready \cup {s}
  /\ UNCHANGED <<param, queues, layers>>

read_one(s) ==
  /\ free[s] # <<>>
  /\ datum' = [datum EXCEPT ![s][Head(free[s])] = reads + 1]
  /\ free' = [free EXCEPT ![s] = Tail(@)]
  /\ full' = [full EXCEPT ![s] = Append(@, Head(free[s]))]
  /\ reads' = reads + 1

\* The body takes a queue pair and reads one record into it.
TakeQueuePair_AllFirst ==
  /\ Len(qps) < param.solver_count /\ new_queue_pairs # <<>>
  /\ Len(qps) + Len(new_queue_pairs) = param.solver_count
  /\ read_one(Head(new_queue_pairs))
  /\ qps' = Append(qps, Head(new_queue_pairs))
  /\ new_queue_pairs' = Tail(new_queue_pairs)
  /\ UNCHANGED <<param, ready, turn, layers>>

TakeQueuePair ==
  /\ Len(qps) < param.solver_count /\ new_queue_pairs # <<>>
  /\ read_one(Head(new_queue_pairs))
  /\ qps' = Append(qps, Head(new_queue_pairs))
  /\ new_queue_pairs' = Tail(new_queue_pairs)
  /\ UNCHANGED <<param, ready, turn, layers>>

\* The main loop of the body.
Read_SkipsFull ==
  /\ Len(qps) = param.solver_count
  /\ \E i \in Solver : read_one(qps[i]) /\ turn' = (i % param.solver_count) + 1
  /\ UNCHANGED <<param, ready, new_queue_pairs, qps, layers>>

Read ==
  /\ Len(qps) = param.solver_count
  /\ read_one(qps[turn])
  /\ turn' = (turn % param.solver_count) + 1
  /\ UNCHANGED <<param, ready, new_queue_pairs, qps, layers>>

------------------------------------------------------------------------------
\* load_batch peeks at a record, then pops the records one by one.
StartBatch(s) ==
  /\ s \in ready /\ load[s] = Idle
  /\ prefetch_free[s] # <<>> /\ full[s] # <<>>
  /\ load' = [load EXCEPT ![s].batch = Head(prefetch_free[s])]
  /\ prefetch_free' = [prefetch_free EXCEPT ![s] = Tail(@)]
  /\ UNCHANGED <<param, ready, queues, items, prefetch_full, top>>

PopDatum_GivesBack(s) ==
  /\ load[s].batch # 0 /\ load[s].taken < BatchSize /\ full[s] # <<>>
  /\ load' = [load EXCEPT ![s].taken = @ + 1,
                          ![s].tasks = @ \cup {<<load[s].taken + 1, Head(full[s])>>}]
  /\ full' = [full EXCEPT ![s] = Tail(@)]
  /\ free' = [free EXCEPT ![s] = Append(@, Head(full[s]))]
  /\ UNCHANGED <<param, ready, new_queue_pairs, qps, turn, reads, datum,
                 items, prefetch_free, prefetch_full, top>>

PopDatum(s) ==
  /\ load[s].batch # 0 /\ load[s].taken < BatchSize /\ full[s] # <<>>
  /\ load' = [load EXCEPT ![s].taken = @ + 1,
                          ![s].tasks = @ \cup {<<load[s].taken + 1, Head(full[s])>>}]
  /\ full' = [full EXCEPT ![s] = Tail(@)]
  /\ UNCHANGED <<param, ready, new_queue_pairs, qps, turn, reads, datum, free,
                 items, prefetch_free, prefetch_full, top>>

\* The task of one item, run in any order by OpenMP: parse the record, return the
\* buffer, transform into the item's place.
Task(s, i, b) ==
  /\ <<i, b>> \in load[s].tasks
  /\ items' = [items EXCEPT ![s][load[s].batch][i] = datum[s][b]]
  /\ free' = [free EXCEPT ![s] = Append(@, b)]
  /\ load' = [load EXCEPT ![s].tasks = @ \ {<<i, b>>}]
  /\ UNCHANGED <<param, ready, new_queue_pairs, qps, turn, reads, datum, full,
                 prefetch_free, prefetch_full, top>>

FinishBatch(s) ==
  /\ load[s].taken = BatchSize /\ load[s].tasks = {}
  /\ prefetch_full' = [prefetch_full EXCEPT ![s] = Append(@, load[s].batch)]
  /\ load' = [load EXCEPT ![s] = Idle]
  /\ UNCHANGED <<param, ready, queues, items, prefetch_free, top>>

\* Forward takes the next batch, copies it and returns it.
Forward(s) ==
  /\ prefetch_full[s] # <<>>
  /\ top' = [top EXCEPT ![s] = items[s][Head(prefetch_full[s])]]
  /\ prefetch_free' = [prefetch_free EXCEPT ![s] = Append(@, Head(prefetch_full[s]))]
  /\ prefetch_full' = [prefetch_full EXCEPT ![s] = Tail(@)]
  /\ UNCHANGED <<param, ready, queues, load, items>>

\* What the reader's thread, the set-up of a layer, and a load_batch do.
Body == TakeQueuePair \/ Read
SetUp(s) == NewReader(s) \/ DataLayerSetUp(s)
Loading(s) ==
  \/ PopDatum(s) \/ FinishBatch(s)
  \/ \E i \in 1..BatchSize, b \in Buffer : Task(s, i, b)

------------------------------------------------------------------------------
\* Datum buffers are neither lost nor in two places, so that a record is never
\* overwritten before it is parsed (data_reader.cpp:105-108, data_layer.cpp:100-114).
BuffersKept ==
  \A s \in Solver :
    LET held == {t[2] : t \in load[s].tasks}
        at(q) == {q[i] : i \in DOMAIN q}
    IN  /\ at(free[s]) \cup at(full[s]) \cup held = Buffer
        /\ Len(free[s]) + Len(full[s]) + Cardinality(load[s].tasks) = param.queue_size
==============================================================================
