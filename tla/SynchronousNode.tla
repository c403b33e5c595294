-------------------------- MODULE SynchronousNode ---------------------------
(***************************************************************************)
(* Synchronous training on a tree of nodes: every node runs a solver       *)
(* thread (MultiSolver with the callbacks of SynchronousNode::Impl) and a  *)
(* comm thread (SynchronousSync), which share two BlobSyncInfo objects,    *)
(* two BlobComms objects, the layer states and the net's blobs.            *)
(*                                                                         *)
(* Blobs are abstracted to what the properties tell apart: params is the   *)
(* number of updates a part has seen, diff the nodes whose gradient it     *)
(* holds and how often.  Locks held for one step only are implicit; the    *)
(* keychain locks that span the backward passes are Locked.                *)
(***************************************************************************)
EXTENDS CommsState, TreeCluster

CONSTANTS MaxIter,     \* max_iter of the solver
          LocalIters,  \* iter_size of each node's solver
          SnapshotPer, \* snapshot of the root's solver, 0 for none
          Overlap,     \* whether both threads may be inside down_sync together
          Eager        \* whether a send may complete before it is received

ASSUME SynchronousAssumption ==
  /\ Layer = 1 .. Cardinality(Layer) /\ Part \subseteq Nat
  /\ MaxIter \in Nat \ {0, 1} /\ SnapshotPer \in Nat /\ {Overlap, Eager} \subseteq BOOLEAN
  /\ LocalIters \in [Node -> Nat \ {0}]

VARIABLES
  solver,              \* where each solver thread is
  comm,                \* where each comm thread is
  call,                \* each thread's call of received(), past the insertion
  up_sync, down_sync,  \* parameters from the parent; gradients of the subtree
  comms,               \* comms_up and comms_down of each node
  layers,              \* the LayerState of each layer
  params, diff,        \* the blobs
  layers_to_update,    \* the root's queue of synced layers
  total_iters, children_iter_size,
  chan                 \* the messages under way, in order, for each edge

nodeVars == <<solver, comm, call>>
syncVars == <<up_sync, down_sync>>
blobVars == <<params, diff>>
iterVars == <<total_iters, children_iter_size>>
vars == <<nodeVars, syncVars, comms, layers, blobVars, layers_to_update, iterVars, chan>>

Top == Cardinality(Layer)
Synced == {l \in Layer : needs_syncing(l)}
Edge == {e \in Node \X Node : e[1] \in children(e[2]) \/ e[2] \in children(e[1])}
Dir == {"up", "down"}
ThreadId == {"solver", "comm"}

NoGradient == [m \in Node |-> 0]
\* Counts stop at 2, which stands for more than once.
Added(f, g) == [m \in Node |-> IF f[m] + g[m] > 2 THEN 2 ELSE f[m] + g[m]]

\* The places of a comm thread outside handlers.
Polling == [pc |-> "poll"]
PushingAll(l) == [pc |-> "push_all", layer |-> l]
SendingIters == [pc |-> "send_iters"]

NoCall == [pc |-> "idle"]

Init ==
  /\ solver = [n \in Node |-> [pc |-> "on_start", iter |-> 1, layer |-> 1,
                               parts |-> <<>>, version |-> 0, to_update |-> <<>>]]
  /\ comm = [n \in Node |-> [pc |-> "off"]]
  /\ call = [n \in Node |-> [t \in ThreadId |-> NoCall]]
  /\ up_sync = [n \in Node |-> NewSyncInfo({parent(n)})]
  /\ down_sync = [n \in Node |-> NewSyncInfo({n} \cup children(n))]
  /\ comms = [n \in Node |-> [d \in Dir |-> NewComms]]
  /\ layers = [n \in Node |-> [l \in Layer |-> [state |-> "updating", version |-> 1]]]
  /\ params = [n \in Node |-> [p \in Part |-> IF is_root(n) THEN 1 ELSE 0]]
  /\ diff = [n \in Node |-> [p \in Part |-> NoGradient]]
  /\ layers_to_update = <<>>
  /\ total_iters = LocalIters
  /\ children_iter_size = [n \in Node |-> [m \in children(n) |-> 0]]
  /\ chan = [e \in Edge |-> <<>>]

-----------------------------------------------------------------------------
(***************************************************************************)
(* Sending.  A thread that calls send() stays in it until the part is      *)
(* posted.                                                                 *)
(***************************************************************************)
Busy(n, t) == \E d \in Dir : InSend(comms[n][d], t)

\* The solver locks keychain[l] in the first backward pass of an iteration and
\* unlocks it in the last one: with one pass it holds the layer it is at, with
\* several also the layers below, which the last pass has not reached yet.
Locked(n, l) ==
  \/ solver[n].pc = "backward" /\ l = solver[n].layer
  \/ /\ LocalIters[n] > 1
     /\ solver[n].pc \in {"backward", "ready", "updated"} /\ l < solver[n].layer

\* The mutexes of the keychain are recursive.
MayLock(n, t, l) == t = "solver" \/ ~Locked(n, l)

Receivers(n, d) == IF d = "up" THEN {parent(n)} ELSE children(n)

Transmit(n, d, msg) ==
  chan' = [e \in Edge |->
             IF e[1] = n /\ e[2] \in Receivers(n, d) THEN Append(chan[e], msg) ELSE chan[e]]

Payload(n, d, p) == IF d = "up" THEN diff[n][p] ELSE params[n][p]

Post(n, d) ==
  LET c == comms[n][d]
  IN  /\ c.phase = "picked"
      /\ MayLock(n, c.by, LayerOf[c.part])
      /\ \E v \in Labels(c) :
           Transmit(n, d, [kind |-> "blob", part |-> c.part, version |-> v,
                           data |-> Payload(n, d, c.part)])
      /\ comms' = [comms EXCEPT ![n][d] = posted(@)]
      /\ UNCHANGED <<nodeVars, syncVars, layers, blobVars, layers_to_update, iterVars>>

-----------------------------------------------------------------------------
(***************************************************************************)
(* BlobSyncInfo::received and the handlers it calls.                       *)
(***************************************************************************)
Sync(n, d) == IF d = "up" THEN up_sync[n] ELSE down_sync[n]

MayEnter(n, t) == Overlap \/ \A u \in ThreadId \ {t} : call[n][u].pc = "idle"

Insert(n, t, d, r, p, v) ==
  /\ MayEnter(n, t)
  /\ call' = [call EXCEPT ![n][t] =
                IF Accepted(Sync(n, d), r, p, v)
                THEN [pc |-> "part", dir |-> d, part |-> p] ELSE NoCall]
  /\ up_sync' = IF d = "up" THEN [up_sync EXCEPT ![n] = received(@, r, p, v)] ELSE up_sync
  /\ down_sync' = IF d = "down" THEN [down_sync EXCEPT ![n] = received(@, r, p, v)]
                  ELSE down_sync

PassOn(n, d, p, v, t) == comms' = [comms EXCEPT ![n][d] = send(push_part(@, p, v), t)]

ClearParamDiffs_Never(d, l) == d

ClearParamDiffs(d, l) == [p \in Part |-> IF LayerOf[p] = l THEN NoGradient ELSE d[p]]

FirstPart(p) == p = Head(all_parts[LayerOf[p]])

\* synced_gradients(layer, blob, part, version)
SyncedGradientsPart(n, t, p) ==
  /\ IF is_root(n) THEN UNCHANGED comms
     ELSE PassOn(n, "up", p, down_sync[n].version[p], t)
  /\ UNCHANGED diff

\* synced_parameters(layer, blob, part, version)
SyncedParametersPart(n, t, p) ==
  /\ MayLock(n, t, LayerOf[p])
  /\ diff' = IF FirstPart(p)
             THEN [diff EXCEPT ![n] = ClearParamDiffs(@, LayerOf[p])] ELSE diff
  /\ IF is_leaf(n) THEN UNCHANGED comms
     ELSE PassOn(n, "down", p, up_sync[n].version[p], t)

\* The part is checked and reported; below the root, a report of a whole layer's
\* gradients only wakes the solver up, and the call is over.
CheckPart(n, t) ==
  /\ call[n][t].pc = "part"
  /\ LET c == call[n][t]
     IN  IF part_synced(Sync(n, c.dir), c.part)
         THEN /\ IF c.dir = "up" THEN SyncedParametersPart(n, t, c.part)
                                 ELSE SyncedGradientsPart(n, t, c.part)
              /\ call' = [call EXCEPT ![n][t] =
                            IF c.dir = "down" /\ ~is_root(n) THEN NoCall
                            ELSE [@ EXCEPT !.pc = "layer"]]
         ELSE /\ call' = [call EXCEPT ![n][t] = NoCall]
              /\ UNCHANGED <<comms, diff>>
  /\ UNCHANGED <<solver, comm, syncVars, layers, params, layers_to_update, iterVars, chan>>

\* synced_gradients(layer, version), at the root
SyncedGradientsLayer(n, l) ==
  /\ layers_to_update' = Append(layers_to_update, <<l, down_sync[n].current_versions[l]>>)
  /\ UNCHANGED layers

\* synced_parameters(layer, version)
SyncedParametersLayer(n, l) ==
  /\ layers' = [layers EXCEPT ![n][l] =
                  [state |-> "calculating", version |-> up_sync[n].current_versions[l]]]
  /\ UNCHANGED layers_to_update

CheckLayer(n, t) ==
  /\ call[n][t].pc = "layer"
  /\ ~Busy(n, t)
  /\ LET c == call[n][t]
         l == LayerOf[c.part]
     IN  IF is_synced(Sync(n, c.dir), l)
         THEN IF c.dir = "up" THEN SyncedParametersLayer(n, l)
                              ELSE SyncedGradientsLayer(n, l)
         ELSE UNCHANGED <<layers, layers_to_update>>
  /\ call' = [call EXCEPT ![n][t] = NoCall]
  /\ UNCHANGED <<solver, comm, syncVars, comms, blobVars, iterVars, chan>>

-----------------------------------------------------------------------------
(***************************************************************************)
(* The solver thread.                                                      *)
(***************************************************************************)
Goto(n, rec) == solver' = [solver EXCEPT ![n] = rec @@ @]

\* The solver thread is not inside send(), received() or apply_updates().
Solving(n, pc) ==
  /\ solver[n].pc = pc /\ solver[n].to_update = <<>>
  /\ call[n]["solver"].pc = "idle" /\ ~Busy(n, "solver")

LayerReady_NoWait(n, l) == TRUE

LayerReady(n, l) ==
  needs_syncing(l) =>
    layers[n][l] = [state |-> "calculating", version |-> solver[n].iter]

\* apply_updates() swaps the queue out first; only the root's is ever filled.
Swap(n, rec) ==
  /\ Goto(n, [to_update |-> IF is_root(n) THEN layers_to_update ELSE <<>>] @@ rec)
  /\ layers_to_update' = IF is_root(n) THEN <<>> ELSE layers_to_update

\* on_start(layer) up to the waiting in prepare_for_calculation.
StartLayer(n, l) == Swap(n, [pc |-> "wait_layer", layer |-> l])

SnapshotDue(n) == is_root(n) /\ SnapshotPer # 0 /\ solver[n].iter % SnapshotPer = 0

\* The start of InternalThreadEntry: a leaf opens the iteration-size handshake.
CommEntry_Everyone(n) == IF is_root(n) THEN Polling ELSE SendingIters

CommEntry(n) ==
  IF ~is_leaf(n) THEN Polling ELSE IF is_root(n) THEN PushingAll(1) ELSE SendingIters

\* on_start(): starts the comm thread once, then check_snapshot().
OnStart(n) ==
  /\ Solving(n, "on_start")
  /\ comm' = IF comm[n].pc = "off" THEN [comm EXCEPT ![n] = CommEntry(n)] ELSE comm
  /\ IF SnapshotDue(n) THEN Goto(n, [pc |-> "snapshot"]) /\ UNCHANGED layers_to_update
                       ELSE StartLayer(n, 1)
  /\ UNCHANGED <<call, syncVars, comms, layers, blobVars, iterVars, chan>>

\* Snapshot(), in check_snapshot and at the end of run(), after wait_till_updated.
Snapshotting(n) ==
  /\ Solving(n, "snapshot") \/ Solving(n, "final")
  /\ \A l \in Layer : LayerReady(n, l)

Snapshot(n) ==
  /\ Snapshotting(n)
  /\ IF solver[n].pc = "snapshot" THEN StartLayer(n, 1)
     ELSE Goto(n, [pc |-> "done"]) /\ UNCHANGED layers_to_update
  /\ UNCHANGED <<comm, call, syncVars, comms, layers, blobVars, iterVars, chan>>

\* on_wake_up() in wait_till, every 10 ms or when notified.
WakeUp(n) ==
  /\ is_root(n) /\ layers_to_update # <<>>
  /\ \/ Solving(n, "wait_layer") /\ ~LayerReady(n, solver[n].layer)
     \/ \E pc \in {"snapshot", "final"} :
          Solving(n, pc) /\ \E l \in Layer : ~LayerReady(n, l)
  /\ Swap(n, [pc |-> solver[n].pc])
  /\ UNCHANGED <<comm, call, syncVars, comms, layers, blobVars, iterVars, chan>>

\* apply_updates(layer_id, version) for the next element of to_update.
Applying(n) == solver[n].to_update # <<>> /\ ~Busy(n, "solver")

Apply(n) ==
  /\ Applying(n)
  /\ LET l == Head(solver[n].to_update)[1]
         v == Head(solver[n].to_update)[2] + 1
     IN  /\ params' = [params EXCEPT ![n] =
                         [p \in Part |-> IF LayerOf[p] = l THEN @[p] + 1 ELSE @[p]]]
         /\ diff' = [diff EXCEPT ![n] = ClearParamDiffs(@, l)]
         /\ layers' = [layers EXCEPT ![n][l] = [state |-> "calculating", version |-> v]]
         /\ comms' = IF is_leaf(n) THEN comms
                     ELSE [comms EXCEPT ![n]["down"] = send(push_layer(@, l, v), "solver")]
  /\ Goto(n, [to_update |-> Tail(solver[n].to_update)])
  /\ UNCHANGED <<comm, call, syncVars, layers_to_update, iterVars, chan>>

\* prepare_for_calculation has found the layer ready: its forward pass, then
\* the next layer's on_start or, after the last one, on_backward_start.
Forward(n) ==
  /\ Solving(n, "wait_layer") /\ LayerReady(n, solver[n].layer)
  /\ IF solver[n].layer < Top THEN StartLayer(n, solver[n].layer + 1)
     ELSE Goto(n, [pc |-> "backward"]) /\ UNCHANGED layers_to_update
  /\ UNCHANGED <<comm, call, syncVars, comms, layers, blobVars, iterVars, chan>>

\* on_gradients_ready(layer): the gradient is in diff, the lock is released,
\* and prepare_update moves the layer to updating.
Backward(n) ==
  /\ Solving(n, "backward")
  /\ LET l == solver[n].layer
     IN  /\ diff' = [diff EXCEPT ![n] = [p \in Part |->
                       IF LayerOf[p] = l THEN Added(@[p], [NoGradient EXCEPT ![n] = 1])
                       ELSE @[p]]]
         /\ layers' = IF needs_syncing(l) THEN [layers EXCEPT ![n][l].state = "updating"]
                      ELSE layers
         /\ Goto(n, [pc |-> "ready", parts |-> all_parts[l], version |-> layers[n][l].version])
  /\ UNCHANGED <<comm, call, syncVars, comms, params, layers_to_update, iterVars, chan>>

\* ready_local reports the node's own parts one by one.
ReadyLocal(n) ==
  /\ Solving(n, "ready") /\ solver[n].parts # <<>>
  /\ Insert(n, "solver", "down", n, Head(solver[n].parts), solver[n].version)
  /\ Goto(n, [parts |-> Tail(solver[n].parts)])
  /\ UNCHANGED <<comm, comms, layers, blobVars, layers_to_update, iterVars, chan>>

NextIteration_OneFewer(n) ==
  LET i == solver[n].iter + 1
  IN  [iter |-> i, pc |-> IF i + 1 < MaxIter THEN "on_start"
                          ELSE IF is_root(n) THEN "final" ELSE "done"]

NextIteration(n) ==
  LET i == solver[n].iter + 1
  IN  [iter |-> i, pc |-> IF i < MaxIter THEN "on_start"
                          ELSE IF is_root(n) THEN "final" ELSE "done"]

\* The backward pass goes on with the layer below, or the iteration ends.
NextLayer(n) ==
  Goto(n, IF solver[n].layer > 1 THEN [pc |-> "backward", layer |-> solver[n].layer - 1]
                                 ELSE NextIteration(n))

\* on_gradients_ready(layer) ends with apply_updates().
AfterReady(n) ==
  /\ \/ /\ Solving(n, "ready") /\ solver[n].parts = <<>>
        /\ IF is_root(n) /\ layers_to_update # <<>>
           THEN Swap(n, [pc |-> "updated"])
           ELSE NextLayer(n) /\ UNCHANGED layers_to_update
     \/ /\ Solving(n, "updated")
        /\ NextLayer(n) /\ UNCHANGED layers_to_update
  /\ UNCHANGED <<comm, call, syncVars, comms, layers, blobVars, iterVars, chan>>

-----------------------------------------------------------------------------
(***************************************************************************)
(* The comm thread.                                                        *)
(***************************************************************************)
At(n, rec) == comm' = [comm EXCEPT ![n] = rec]

\* The comm thread is in its polling loop, not inside a handler.
Idle(n) == comm[n].pc = "poll" /\ call[n]["comm"].pc = "idle" /\ ~Busy(n, "comm")

\* push_all_params_down, layer by layer; the root's solver is still in its first iteration.
PushAll(n) ==
  /\ comm[n].pc = "push_all" /\ ~Busy(n, "comm")
  /\ LET l == comm[n].layer
         v == solver[n].iter
     IN  /\ IF needs_syncing(l)
            THEN /\ layers' = [layers EXCEPT ![n][l] = [state |-> "calculating", version |-> v]]
                 /\ comms' = IF is_leaf(n) THEN comms
                     ELSE [comms EXCEPT ![n]["down"] = send(push_layer(@, l, v), "comm")]
            ELSE UNCHANGED <<layers, comms>>
         /\ At(n, IF l < Top THEN PushingAll(l + 1) ELSE Polling)
  /\ UNCHANGED <<solver, call, syncVars, blobVars, layers_to_update, iterVars, chan>>

\* send_iter_size spins until during_sending is false.
SendIters(n) ==
  /\ comm[n].pc = "send_iters"
  /\ ~during_sending(comms[n]["up"])
  /\ comms' = [comms EXCEPT ![n]["up"] = post_iter_size(@)]
  /\ Transmit(n, "up", [kind |-> "iters", iters |-> total_iters[n]])
  /\ At(n, Polling)
  /\ UNCHANGED <<solver, call, syncVars, layers, blobVars, layers_to_update, iterVars>>

\* children_iter_size.size() == children().size()
AllKnown(n, sizes) == \A m \in children(n) : sizes[m] # 0

\* received_iter_size
ReceivedIters_LastOnly(n, m, iters) ==
  LET sizes == [children_iter_size[n] EXCEPT ![m] = iters]
  IN  /\ children_iter_size' = [children_iter_size EXCEPT ![n] = sizes]
      /\ total_iters' = [total_iters EXCEPT ![n] = LocalIters[n] + iters]
      /\ At(n, IF ~AllKnown(n, sizes) THEN Polling
               ELSE IF is_root(n) THEN PushingAll(1) ELSE SendingIters)

ReceivedIters(n, m, iters) ==
  LET sizes == [children_iter_size[n] EXCEPT ![m] = iters]
  IN  /\ children_iter_size' = [children_iter_size EXCEPT ![n] = sizes]
      /\ total_iters' = [total_iters EXCEPT ![n] = @ + iters - children_iter_size[n][m]]
      /\ At(n, IF ~AllKnown(n, sizes) THEN Polling
               ELSE IF is_root(n) THEN PushingAll(1) ELSE SendingIters)

\* A message of a parent goes to comms_up, one of a child to comms_down.
DirOf(n, m) == IF m = parent(n) THEN "up" ELSE "down"

\* handle(): an iteration size, an old blob update, or one to be decoded.
Receive(n, m) ==
  /\ Idle(n)
  /\ <<m, n>> \in Edge /\ chan[<<m, n>>] # <<>>
  /\ LET msg == Head(chan[<<m, n>>])
     IN  IF msg.kind = "iters" THEN ReceivedIters(n, m, msg.iters)
         ELSE /\ At(n, IF received_version(Sync(n, DirOf(n, m)), m, msg.part) >= msg.version
                       THEN Polling
                       ELSE [pc |-> "decode", from |-> m, msg |-> msg])
              /\ UNCHANGED iterVars
  /\ chan' = [chan EXCEPT ![<<m, n>>] = Tail(@)]
  /\ UNCHANGED <<solver, call, syncVars, comms, layers, blobVars, layers_to_update>>

\* decode(): parameters replace, gradients add up (the multipliers of Settings).
Decode(n) ==
  /\ comm[n].pc = "decode"
  /\ LET msg == comm[n].msg
     IN  /\ MayLock(n, "comm", LayerOf[msg.part])
         /\ IF DirOf(n, comm[n].from) = "up"
            THEN params' = [params EXCEPT ![n][msg.part] = msg.data] /\ UNCHANGED diff
            ELSE diff' = [diff EXCEPT ![n][msg.part] = Added(@, msg.data)] /\ UNCHANGED params
         /\ At(n, [comm[n] EXCEPT !.pc = "received"])
  /\ UNCHANGED <<solver, call, syncVars, comms, layers, layers_to_update, iterVars, chan>>

\* handle() ends with the call of received(), and the comm thread polls on
\* when that call returns.
Received(n) ==
  /\ comm[n].pc = "received"
  /\ Insert(n, "comm", DirOf(n, comm[n].from), comm[n].from,
            comm[n].msg.part, comm[n].msg.version)
  /\ At(n, Polling)
  /\ UNCHANGED <<solver, comms, layers, blobVars, layers_to_update, iterVars, chan>>

\* All the receivers have taken the message.
Taken(n, d) == \A m \in Receivers(n, d) : <<n, m>> \in Edge => chan[<<n, m>>] = <<>>

\* A send has completed: sent(), which calls send().
Sent(n, d) ==
  /\ Idle(n)
  /\ Eager \/ Taken(n, d)
  /\ comms[n][d].phase = "in_flight"
  /\ comms' = [comms EXCEPT ![n][d] = send(sent(@), "comm")]
  /\ UNCHANGED <<nodeVars, syncVars, layers, blobVars, layers_to_update, iterVars, chan>>

\* terminated() is seen true and the thread is joined.
ExitComm(n) ==
  /\ solver[n].pc = "done" /\ Idle(n)
  /\ At(n, [pc |-> "exited"])
  /\ UNCHANGED <<solver, call, syncVars, comms, layers, blobVars, layers_to_update, iterVars, chan>>

-----------------------------------------------------------------------------
SolverStep(n) ==
  \/ OnStart(n) \/ Snapshot(n) \/ WakeUp(n) \/ Apply(n)
  \/ Forward(n) \/ Backward(n) \/ ReadyLocal(n) \/ AfterReady(n)

HandlerStep(n, t) == CheckPart(n, t) \/ CheckLayer(n, t)

CommStep(n) ==
  \/ PushAll(n) \/ SendIters(n) \/ Decode(n) \/ Received(n) \/ ExitComm(n)
  \/ \E m \in Node : Receive(n, m)

Next ==
  \E n \in Node :
    \/ SolverStep(n) \/ CommStep(n)
    \/ \E t \in ThreadId : HandlerStep(n, t)
    \/ \E d \in Dir : Post(n, d) \/ Sent(n, d)

Spec == Init /\ [][Next]_vars

\* Both threads of every node run; the transport delivers, and completes a
\* send at the latest when all its receivers have taken the message.
Fairness ==
  \A n \in Node :
    /\ WF_vars(SolverStep(n)) /\ WF_vars(CommStep(n))
    /\ \A t \in ThreadId : WF_vars(HandlerStep(n, t))
    /\ \A d \in Dir : WF_vars(Post(n, d)) /\ WF_vars(Taken(n, d) /\ Sent(n, d))

FairSpec == Spec /\ Fairness

-----------------------------------------------------------------------------
(***************************************************************************)
(* What synchronous training promises.                                     *)
(***************************************************************************)
\* The root updates a layer with every node's gradient exactly once, and those
\* gradients were computed from the parameters it updates: none is lost, sent
\* twice, cleared too early or left over from the last iteration
\* (SynchronousNode.cpp:327-344, 396-415, 436-462).
EveryGradientOnce ==
  \A n \in Node : Applying(n) =>
    LET u == Head(solver[n].to_update)
    IN  \A p \in PartsOf(u[1]) :
          params[n][p] = u[2] /\ \A m \in Node : diff[n][p][m] = 1

\* From the moment a layer is ready for an iteration until its gradient is
\* handed over, its weights are exactly those of that iteration: the forward
\* and the backward pass see the same ones, although no lock is held between
\* them (SynchronousNode.cpp:417-428, 497-510).
StableWeights ==
  \A n \in Node, l \in Synced : LayerReady(n, l) =>
    \A p \in PartsOf(l) : params[n][p] = solver[n].iter

\* A message says the truth about the parameters it carries, although its label
\* is read outside the lock, per layer, and not when the part was pushed
\* (BlobComms.cpp:224-239).
TrueLabels ==
  \A e \in Edge : \A i \in DOMAIN chan[e] :
    (chan[e][i].kind = "blob" /\ e[2] \in children(e[1])) =>
      chan[e][i].version = chan[e][i].data

\* A snapshot holds all the layers in the version of the current iteration
\* (SynchronousNode.cpp:512-531, 562-564).
ConsistentSnapshot ==
  \A n \in Node : Snapshotting(n) =>
    \A l \in Synced : \A p \in PartsOf(l) : params[n][p] = solver[n].iter

\* Updates are normalised by the iteration sizes of the whole tree: before any
\* node computes a gradient, the root has heard of all of them, through inner
\* nodes that add up their subtrees first (SynchronousNode.cpp:375-394).
NormalisedByAll ==
  (\E n \in Node, p \in Part : diff[n][p] # NoGradient) =>
    total_iters[0] = FoldFunction(+, 0, LocalIters)

\* send_iter_size never waits: it would spin in the only thread that could end
\* the send it waits for (BlobComms.cpp:385-393).
NoSpin ==
  \A n \in Node : comm[n].pc = "send_iters" => ~during_sending(comms[n]["up"])

\* Training from scratch updates every part max_iter - 1 times, once for each value that
\* iter takes from 1 on, whatever was queued, merged or passed on
\* (SynchronousNode.cpp:309-310, 436-475, solver.cpp:277-279).
UpdatesMade == solver[0].pc = "done" => \A p \in Part : params[0][p] = MaxIter

\* Every node gets through its iterations, and the root through its last
\* wait_till_updated, unless a node below it has ended its comm thread with parts of
\* its last gradients still queued: run() joins the thread as soon as its solver
\* returns.  Nothing else can keep a node waiting for ever
\* (SynchronousNode.cpp:73-93, 497-510, 558-568).
Stranded(n) == comm[n].pc = "exited" /\ comms[n]["up"].to_send # <<>>

TrainingEnds ==
  <>(/\ \A n \in Node : solver[n].iter = MaxIter
     /\ solver[0].pc = "done" \/ \E n \in Node : Stranded(n))

-----------------------------------------------------------------------------
(***************************************************************************)
(* The cluster implements BulkSync.  A node has a version of a layer when  *)
(* all its parts have it; a subtree's gradient counts as handed up when    *)
(* the parent has recorded all its parts.                                  *)
(***************************************************************************)
MinOver(l, f(_)) == CHOOSE v \in {f(p) : p \in PartsOf(l)} : \A p \in PartsOf(l) : v <= f(p)

BackwardDone(n, l) ==
  solver[n].pc \in {"backward", "ready", "updated"} /\
  \/ l > solver[n].layer
  \/ l = solver[n].layer /\ solver[n].pc # "backward"

ver == [n \in Node |-> [l \in Synced |-> MinOver(l, LAMBDA p : params[n][p])]]
own == [n \in Node |-> [l \in Synced |->
          IF BackwardDone(n, l) THEN solver[n].iter ELSE solver[n].iter - 1]]
up == [n \in Node |-> [l \in Synced |->
         IF is_root(n) THEN 0
         ELSE MinOver(l, LAMBDA p : received_version(down_sync[parent(n)], n, p))]]

Bulk == INSTANCE BulkSync WITH Layer <- Synced

\* The detailed system does only what BulkSync allows.
Implements == Bulk!Spec
=============================================================================
