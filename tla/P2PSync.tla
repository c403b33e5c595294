------------------------------ MODULE P2PSync ------------------------------
(***************************************************************************)
(* Training on several GPUs of one machine, or on one device: the loop of  *)
(* Solver::Step in a thread per device, the tree through which P2PSync     *)
(* hands weights down and gradients up, the signals that stop training,    *)
(* the snapshots it leaves and resumes from, and below them the data       *)
(* reader that feeds all solvers.  A behaviour is the life of one process; *)
(* when it is killed, the files stay as they are.                          *)
(*                                                                         *)
(* Solvers are numbered in the order in which they are made; 1 is the      *)
(* root solver.  Weights are the number of updates in them, and a gradient *)
(* is a bag of contributions.                                              *)
(***************************************************************************)
EXTENDS DataReader, Integers, Bags

CONSTANTS Params,   \* the settings to train with, and the signals that may be sent
          Trees(_)  \* the trees that n devices may form, as module DevicePair does

ASSUME ParamsAssumption ==
  \A p \in Params :
    /\ p.solver_count \in Nat \ {0} /\ p.max_iter \in Nat /\ p.resume \subseteq 0..p.max_iter
    /\ p.queue_size \in Nat /\ p.prefetch_count \in Nat /\ p.batch_size \in Nat

\* A solver is made after its parent.
IsTree(n, t) == t.parent \in [1..n -> 0..n] /\ t.parent[1] = 0
                /\ \A s \in 2..n : t.parent[s] \in 1..(s - 1)

ASSUME TreesAssumption ==
  \A p \in Params : \A t \in Trees(p.solver_count) : IsTree(p.solver_count, t)

VARIABLES
  parent,                  \* parent_[s], 0 for the root
  syncs,                   \* the workers in the order of Run's vector
  queue,                   \* queue_[s]: senders, the parent's or a child's
  solver,                  \* solver[s]: where its thread is
  data, diff,              \* data_[s] and diff_[s]
  parent_grads,            \* parent_grads_[s]
  interrupted,             \* threads that StopInternalThread has interrupted
  got_sighup, got_sigint,
  signals,                 \* signals still to come, each once
  requested_early_exit,
  model, state,            \* the files of a snapshot, by iteration: the updates in them
  initial_iter             \* initial_iter_: the iteration that training resumes from

tree == <<parent, syncs>>
sync == <<tree, queue, data, diff, parent_grads>>
files == <<model, state, initial_iter>>
control == <<interrupted, got_sighup, got_sigint, signals, requested_early_exit, files>>
vars == <<param, reader, sync, control, solver>>

------------------------------------------------------------------------------
\* children_, in the order in which they were made.
Ordered(q) == \A i, j \in DOMAIN q : i < j => q[i] < q[j]
children(s) ==
  LET C == {c \in Solver : parent[c] = s}
  IN  CHOOSE q \in [1..Cardinality(C) -> C] : Ordered(q)

\* A file that is not there, and one whose writing has begun.
Absent == -2
Torn == -1

\* The files of iteration k, at any time: the model is written before the state.
Iter == 0..param.max_iter
Sound(k) ==
  /\ model[k] \in {Absent, Torn, k} /\ state[k] \in {Absent, Torn, k}
  /\ state[k] # Absent => model[k] # Absent

\* Restore reads a state and the model that it names; training resumes from whole files.
\* An absent file ends the process.  One that is cut off mostly does, but a model cut between
\* two layers reads as one with fewer layers and would pass: the inputs leave that out.
Restore(k) == k = 0 \/ (state[k] = k /\ model[k] = k)

\* An earlier process may have left files of the iterations in left.
FilesInit ==
  /\ model \in [Iter -> {Absent, Torn} \cup Iter] /\ state \in [Iter -> {Absent, Torn} \cup Iter]
  /\ \A k \in Iter : IF k \in param.left THEN Sound(k) ELSE model[k] = Absent /\ state[k] = Absent
  /\ initial_iter \in param.resume /\ Restore(initial_iter)

SyncInit ==
  /\ param \in Params /\ Init /\ FilesInit
  /\ \E t \in Trees(param.solver_count) : parent = t.parent /\ syncs = t.syncs
  /\ queue = [s \in Solver |-> <<>>]
  /\ solver = [s \in Solver |-> 
       [pc |-> "step", iter |-> IF s = 1 THEN initial_iter ELSE 0, i |-> 0, weights |-> 0,
        from |-> "step", after |-> "step", flag |-> FALSE]]
  /\ data = [s \in Solver |-> IF s = 1 THEN initial_iter ELSE 0]
  /\ diff = [s \in Solver |-> EmptyBag] /\ parent_grads = [s \in Solver |-> EmptyBag]
  /\ interrupted = {} /\ got_sighup = FALSE /\ got_sigint = FALSE
  /\ signals = param.signals /\ requested_early_exit = FALSE

------------------------------------------------------------------------------
root == 1
At(s, pc) == solver[s].pc = pc
Go(s, pc) == solver' = [solver EXCEPT ![s].pc = pc]
GoWith(s, pc, i) == solver' = [solver EXCEPT ![s].pc = pc, ![s].i = i]

\* The root asks for a request, and goes on where it asked.
GetRequestedAction(from) == solver' = [solver EXCEPT ![root].pc = "check", ![root].from = from]

\* What happens every interval iterations, if the interval is set.
Due(interval) == interval # 0 /\ solver[root].iter % interval = 0

\* Where Step ends: a worker counts its iterations from 0, whatever the root resumes from.
stop_iter(s) == IF s = root THEN param.max_iter ELSE param.max_iter - initial_iter

\* The head of the loop in Step; only the root tests, and after the loop it goes on
\* with Solve, while a worker's thread ends.
Step(s) ==
  /\ At(s, "step") /\ ready = Solver
  /\ \/ /\ solver[s].iter >= stop_iter(s)
        /\ Go(s, IF s = root THEN "after_train" ELSE "ended")
     \/ /\ solver[s].iter < stop_iter(s) /\ s = root /\ Due(param.test_interval)
        /\ GetRequestedAction("test")
     \/ /\ solver[s].iter < stop_iter(s) /\ ~(s = root /\ Due(param.test_interval))
        /\ Go(s, "on_start")
  /\ UNCHANGED <<param, reader, sync, control>>

\* on_start: wait for the parent's weights, then give them to the children, the last
\* child first.
Wait(s) ==
  /\ At(s, "on_start")
  /\ IF parent[s] = 0 THEN UNCHANGED queue
     ELSE queue[s] # <<>> /\ queue' = [queue EXCEPT ![s] = Tail(@)]
  /\ GoWith(s, "update_children", Len(children(s)))
  /\ UNCHANGED <<param, reader, tree, data, diff, parent_grads, control>>

UpdateChild(s) ==
  /\ At(s, "update_children") /\ solver[s].i > 0
  /\ LET c == children(s)[solver[s].i]
     IN  /\ data' = [data EXCEPT ![c] = data[s]]
         /\ queue' = [queue EXCEPT ![c] = Append(@, s)]
  /\ GoWith(s, "update_children", solver[s].i - 1)
  /\ UNCHANGED <<param, reader, tree, diff, parent_grads, control>>

\* ForwardBackward: iter_size passes over batches, which add up in diff.
ClearParamDiffs(s) ==
  /\ At(s, "update_children") /\ solver[s].i = 0
  /\ diff' = [diff EXCEPT ![s] = EmptyBag]
  /\ Go(s, "forward")
  /\ UNCHANGED <<param, reader, tree, queue, data, parent_grads, control>>

ForwardPass(s) ==
  /\ At(s, "forward") /\ Forward(s)
  /\ solver' = [solver EXCEPT ![s].pc = "backward", ![s].weights = data[s]]
  /\ UNCHANGED <<sync, control>>

\* A contribution tells the solver, its records and the weights of both passes.
Backward(s) ==
  /\ At(s, "backward")
  /\ diff' = [diff EXCEPT ![s] = @ (+) SetToBag({<<s, top[s], solver[s].weights, data[s]>>})]
  /\ IF solver[s].i + 1 < param.iter_size THEN GoWith(s, "forward", solver[s].i + 1)
     ELSE GoWith(s, "on_gradients_ready", Len(children(s)))
  /\ UNCHANGED <<param, reader, tree, queue, data, parent_grads, control>>

\* on_gradients_ready: add what the children sent, in the order of arrival, and send
\* the sum to the parent.
SumChild(s) ==
  /\ At(s, "on_gradients_ready") /\ solver[s].i > 0 /\ queue[s] # <<>>
  /\ diff' = [diff EXCEPT ![s] = @ (+) parent_grads[Head(queue[s])]]
  /\ queue' = [queue EXCEPT ![s] = Tail(@)]
  /\ GoWith(s, "on_gradients_ready", solver[s].i - 1)
  /\ UNCHANGED <<param, reader, tree, data, parent_grads, control>>

SendGradients_Early(s) ==
  /\ At(s, "on_gradients_ready") /\ solver[s].i <= 1
  /\ IF parent[s] = 0 THEN UNCHANGED <<queue, parent_grads>>
     ELSE /\ parent_grads' = [parent_grads EXCEPT ![s] = diff[s]]
          /\ queue' = [queue EXCEPT ![parent[s]] = Append(@, s)]
  /\ Go(s, "apply_update")
  /\ UNCHANGED <<param, reader, tree, data, diff, control>>

SendGradients(s) ==
  /\ At(s, "on_gradients_ready") /\ solver[s].i = 0
  /\ IF parent[s] = 0 THEN UNCHANGED <<queue, parent_grads>>
     ELSE /\ parent_grads' = [parent_grads EXCEPT ![s] = diff[s]]
          /\ queue' = [queue EXCEPT ![parent[s]] = Append(@, s)]
  /\ Go(s, "apply_update")
  /\ UNCHANGED <<param, reader, tree, data, diff, control>>

\* The root's ApplyUpdate; a worker's does nothing, and nobody sends it signals.
ApplyUpdate(s) ==
  /\ At(s, "apply_update")
  /\ data' = IF s = root THEN [data EXCEPT ![s] = @ + 1] ELSE data
  /\ solver' = [solver EXCEPT ![s].iter = @ + 1, ![s].from = "update",
                              ![s].pc = IF s = root THEN "check" ELSE "step"]
  /\ UNCHANGED <<param, reader, tree, queue, diff, parent_grads, control>>

------------------------------------------------------------------------------
\* A signal sets its flag.  Only the root looks at the flags, and only where it checks them:
\* a signal that comes earlier is like one that comes when the check begins.
handle_signal ==
  /\ solver[root].pc \in {"check", "clear_sighup", "check_sigint", "clear_sigint"}
  /\ \E signal \in signals :
       /\ signals' = signals \ {signal}
       /\ got_sighup' = (got_sighup \/ signal = "SIGHUP")
       /\ got_sigint' = (got_sigint \/ signal = "SIGINT")
  /\ UNCHANGED <<param, reader, sync, solver, interrupted, requested_early_exit, files>>

\* What the root does with a request, by where it asked.  SIGHUP takes a snapshot and
\* SIGINT stops.  While testing it asks until there are no more requests.
AfterRequest(from, request, stopping) ==
  CASE from = "update" -> IF request = "STOP" THEN "after_train" ELSE "step"
    [] from # "update" /\ request # "NONE" -> "check"
    [] from = "test" /\ request = "NONE" -> IF stopping THEN "after_train" ELSE "on_start"
    [] OTHER -> "stop"

\* Snapshot, and after it on to pc.
TakeSnapshot(pc) == [solver[root] EXCEPT !.pc = "snapshot", !.i = 0, !.after = pc, !.flag = FALSE]

Handle(request) ==
  LET from == solver[root].from
      stopping == requested_early_exit \/ request = "STOP"
      pc == AfterRequest(from, request, stopping)
  IN  /\ requested_early_exit' = stopping
      /\ solver' = [solver EXCEPT ![root] =
           IF request = "SNAPSHOT" \/ (from = "update" /\ Due(param.snapshot))
           THEN TakeSnapshot(pc)
           ELSE [@ EXCEPT !.pc = pc, !.flag = FALSE]]

\* CheckForSignals: each flag is read, and cleared after that.
GotSIGHUP ==
  \/ /\ At(root, "check")
     /\ solver' = [solver EXCEPT ![root].pc = "clear_sighup", ![root].flag = got_sighup]
     /\ UNCHANGED <<got_sighup, requested_early_exit>>
  \/ /\ At(root, "clear_sighup") /\ got_sighup' = FALSE
     /\ IF solver[root].flag THEN Handle("SNAPSHOT")
        ELSE Go(root, "check_sigint") /\ UNCHANGED requested_early_exit

GotSIGINT ==
  \/ /\ At(root, "check_sigint")
     /\ solver' = [solver EXCEPT ![root].pc = "clear_sigint", ![root].flag = got_sigint]
     /\ UNCHANGED <<got_sigint, requested_early_exit>>
  \/ /\ At(root, "clear_sigint") /\ got_sigint' = FALSE
     /\ Handle(IF solver[root].flag THEN "STOP" ELSE "NONE")

CheckForSignals ==
  /\ \/ GotSIGHUP /\ UNCHANGED got_sigint
     \/ GotSIGINT /\ UNCHANGED got_sighup
  /\ UNCHANGED <<param, reader, sync, interrupted, signals, files>>

------------------------------------------------------------------------------
\* Snapshot: the model file and then the state file, each opened, which empties it, and
\* then written.
Snapshot_StateFirst ==
  /\ At(root, "snapshot")
  /\ LET i == solver[root].i
         k == solver[root].iter
     IN  /\ state' = IF i < 2 THEN [state EXCEPT ![k] = IF i = 0 THEN Torn ELSE data[root]] ELSE state
         /\ model' = IF i < 2 THEN model ELSE [model EXCEPT ![k] = IF i = 2 THEN Torn ELSE data[root]]
         /\ IF i < 3 THEN GoWith(root, "snapshot", i + 1) ELSE Go(root, solver[root].after)
  /\ UNCHANGED <<param, reader, sync, interrupted, got_sighup, got_sigint, signals,
                 requested_early_exit, initial_iter>>

Snapshot ==
  /\ At(root, "snapshot")
  /\ LET i == solver[root].i
         k == solver[root].iter
     IN  /\ model' = IF i < 2 THEN [model EXCEPT ![k] = IF i = 0 THEN Torn ELSE data[root]] ELSE model
         /\ state' = IF i < 2 THEN state ELSE [state EXCEPT ![k] = IF i = 2 THEN Torn ELSE data[root]]
         /\ IF i < 3 THEN GoWith(root, "snapshot", i + 1) ELSE Go(root, solver[root].after)
  /\ UNCHANGED <<param, reader, sync, interrupted, got_sighup, got_sigint, signals,
                 requested_early_exit, initial_iter>>

\* Solve after the loop of Step: a last snapshot if there is none of this iteration.
AfterTrain ==
  /\ At(root, "after_train")
  /\ LET pc == IF requested_early_exit THEN "stop" ELSE "display"
     IN  solver' = [solver EXCEPT ![root] =
           IF param.snapshot_after_train /\ ~Due(param.snapshot)
           THEN TakeSnapshot(pc) ELSE [@ EXCEPT !.pc = pc]]
  /\ UNCHANGED <<param, reader, sync, control>>

\* The end of Solve: a forward pass to display the loss, and a last test.
AfterDisplay ==
  IF Due(param.test_interval) THEN GetRequestedAction("final") ELSE Go(root, "stop")

Display ==
  /\ At(root, "display")
  /\ IF Due(param.display) THEN Forward(root) ELSE UNCHANGED <<param, reader>>
  /\ AfterDisplay
  /\ UNCHANGED <<sync, control>>

\* The end of Run: StopInternalThread for one worker after the other.
StopInternalThread ==
  LET i == solver[root].i
  IN  /\ \/ /\ At(root, "stop") /\ GoWith(root, "interrupt", 1) /\ UNCHANGED interrupted
         \/ /\ At(root, "interrupt") /\ i <= Len(syncs)
            /\ interrupted' = interrupted \cup {syncs[i]}
            /\ Go(root, "join")
         \/ /\ At(root, "join") /\ At(syncs[i], "ended")
            /\ GoWith(root, "interrupt", i + 1) /\ UNCHANGED interrupted
         \/ /\ At(root, "interrupt") /\ i > Len(syncs)
            /\ Go(root, "ended") /\ UNCHANGED interrupted
      /\ UNCHANGED <<param, reader, sync, got_sighup, got_sigint, signals,
                     requested_early_exit, files>>

\* An interrupted thread ends where it would wait on a queue.
Interrupted(s) ==
  /\ s \in interrupted
  /\ \/ At(s, "on_start") /\ queue[s] = <<>>
     \/ At(s, "forward") /\ prefetch_full[s] = <<>>
     \/ At(s, "on_gradients_ready") /\ solver[s].i > 0 /\ queue[s] = <<>>
  /\ Go(s, "ended")
  /\ UNCHANGED <<param, reader, sync, control>>

------------------------------------------------------------------------------
\* The threads: a solver's, the reader's, and that of a data layer, whose work is the
\* solver's own when there are no prefetch threads.
Solving(s) ==
  \/ Step(s) \/ Wait(s) \/ UpdateChild(s) \/ ClearParamDiffs(s) \/ ForwardPass(s)
  \/ Backward(s) \/ SumChild(s) \/ SendGradients(s) \/ ApplyUpdate(s) \/ Interrupted(s)

Finishing == CheckForSignals \/ Snapshot \/ AfterTrain \/ Display \/ StopInternalThread

InForward(s) == At(s, "forward") \/ (At(s, "display") /\ Due(param.display))

GetBatch(s) ==
  \/ StartBatch(s) /\ (param.threaded \/ (InForward(s) /\ prefetch_full[s] = <<>>))
  \/ Loading(s)

Reading(A) == A /\ UNCHANGED <<sync, control, solver>>

Threads ==
  \/ Finishing \/ Reading(Body)
  \/ \E s \in Solver : Solving(s) \/ Reading(SetUp(s)) \/ Reading(GetBatch(s))

Next == Threads \/ handle_signal

Spec == SyncInit /\ [][Next]_vars

\* As long as some thread can run, one of them does.  Nothing repeats for ever, so that
\* no thread needs a promise of its own.
Fairness == WF_vars(Threads)

FairSpec == Spec /\ Fairness

------------------------------------------------------------------------------
\* The one queue of a solver carries the parent's word that weights are there and the
\* children's that gradients are; a solver never takes one for the other, and the
\* CHECK in on_start never fails (parallel.cpp:298-301, 336-341).
NeverMixedUp ==
  \A s \in Solver : queue[s] # <<>> =>
    /\ At(s, "on_start") => Head(queue[s]) = parent[s]
    /\ At(s, "on_gradients_ready") => parent[Head(queue[s])] = s

\* What the root applies in iteration k is the gradient of every solver, once for each of
\* its passes, computed from first to last with the weights of k updates, and together
\* these are the next records of the database since the process began, each once and dealt
\* out in turn, whether training resumes from a snapshot or not
\* (parallel.cpp:296-380, solver.cpp:199-212, 227-279, data_reader.cpp:73-117,
\* data_layer.cpp:97-130, base_data_layer.cpp:79-148).
UpdateComplete ==
  LET k == solver[root].iter
      Record(f, i, s) == (f * BatchSize + i - 1) * param.solver_count + s
      Given(s, f) == [i \in 1..BatchSize |-> Record(f, i, s)]
      Passes == ((k - initial_iter) * param.iter_size)..((k - initial_iter + 1) * param.iter_size - 1)
  IN  At(root, "apply_update") =>
        diff[root] = SetToBag({<<s, Given(s, f), k, k>> : s \in Solver, f \in Passes})

\* Whenever the process is killed, the files it leaves are sound: the model of iteration
\* k, if it is whole, has exactly k updates, and so has the history in the state; and a state
\* never stands without its model, which can at most be torn because the same iteration was
\* being saved again (solver.cpp:281-289, 316-321, 437-452, 473-476, 497-506,
\* sgd_solver.cpp:293-310, 339-356).
SnapshotTrue == \A k \in Iter : Sound(k)

\* Training ends, and Run gets past joining its threads, with or without a signal that
\* stops it: no solver is left waiting for a parent, a child or a batch, set-up solver by
\* solver included (parallel.cpp:419-437, solver.cpp:213-349, data_reader.cpp:73-104).
SolversEnd == <>(\A s \in Solver : At(s, "ended"))
==============================================================================
