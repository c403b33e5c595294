----------------------------- MODULE RemoteData -----------------------------
(***************************************************************************)
(* Training data fetched from a data server.  Each client has one reader   *)
(* thread, which asks for a batch, puts the answer into a cache and asks   *)
(* again, and data layers that take batches out.  A cache either passes    *)
(* batches on (SimpleDataCache) or fills once and is then drawn from       *)
(* (ReusingShufflingDataCache).  The server's own data layer yields batch  *)
(* after batch, as module DataReader shows; requests and answers travel on *)
(* a channel that neither loses nor repeats, as GuaranteedComm provides.   *)
(***************************************************************************)
EXTENDS Naturals, Sequences, FiniteSets

CONSTANTS Client, Layer,  \* clients and data layers
          Configs,        \* the possible parameters of the clients: policy, cache_size,
                          \* whether they have a shape, and the layers of each client
          MaxGets         \* the bound on batches a layer takes

ASSUME RemoteAssumption ==
  /\ IsFiniteSet(Layer) /\ MaxGets \in Nat
  /\ Configs \subseteq [Client -> [policy : {"PULL_CONTINOUSLY", "USE_CACHE_WHEN_FULL"},
                                  cache_size : Nat, shape : BOOLEAN, layers : SUBSET Layer]]
  /\ \A f \in Configs :
       /\ \A c \in Client : f[c].policy = "USE_CACHE_WHEN_FULL" => f[c].cache_size > 0
       /\ \A c, d \in Client : c # d => f[c].layers \cap f[d].layers = {}

VARIABLES
  config,                  \* param of each client
  served,                  \* batches the server has handed out
  requests, replies,       \* the channel of each client
  thread,                  \* the reader thread: step, sizes added up, message, element
  data,                    \* data[c]: the batches in the elements made so far
  cached, waiting, free,   \* the queues of elements
  slots, read_all,         \* cache of the reusing policy, and whether it is full
  layer,                   \* layer[l]: step and element of a thread in get
  got                      \* got[l]: the batches it has taken

net == <<served, requests, replies>>
queues == <<cached, waiting, free>>
vars == <<config, net, thread, data, queues, slots, read_all, layer, got>>

Layers(c) == config[c].layers
Pull(c) == config[c].policy = "PULL_CONTINOUSLY"
Unshared(c) == config[c].cache_size = 0

\* create_cache: new elements behind those there are, cache_size of them free, or one
\* of them waiting for a layer.
NewIds(c) == [i \in 1..(IF Unshared(c) THEN 1 ELSE config[c].cache_size) |-> Len(data[c]) + i]

create_cache_Free(c) ==
  /\ data' = [data EXCEPT ![c] = @ \o [i \in DOMAIN NewIds(c) |-> 0]]
  /\ free' = [free EXCEPT ![c] = @ \o NewIds(c)] /\ UNCHANGED waiting

create_cache(c) ==
  /\ data' = [data EXCEPT ![c] = @ \o [i \in DOMAIN NewIds(c) |-> 0]]
  /\ IF Unshared(c)
       THEN waiting' = [waiting EXCEPT ![c] = @ \o NewIds(c)] /\ UNCHANGED free
       ELSE free' = [free EXCEPT ![c] = @ \o NewIds(c)] /\ UNCHANGED waiting

Made(f, c) == IF f[c].policy # "PULL_CONTINOUSLY" \/ ~f[c].shape THEN 0
              ELSE IF f[c].cache_size = 0 THEN 1 ELSE f[c].cache_size

\* The constructors: with a shape in the parameters the cache is made at once.
Init ==
  /\ config \in Configs
  /\ served = 0 /\ requests = [c \in Client |-> 0] /\ replies = [c \in Client |-> <<>>]
  /\ thread = [c \in Client |-> [at |-> "start", sum |-> 0, msg |-> 0, elem |-> 0]]
  /\ data = [c \in Client |-> [i \in 1..Made(config, c) |-> 0]]
  /\ cached = [c \in Client |-> <<>>]
  /\ waiting = [c \in Client |->
                  IF Unshared(c) THEN [i \in 1..Made(config, c) |-> i] ELSE <<>>]
  /\ free = [c \in Client |->
                  IF Unshared(c) THEN <<>> ELSE [i \in 1..Made(config, c) |-> i]]
  /\ slots = [c \in Client |-> <<>>] /\ read_all = [c \in Client |-> FALSE]
  /\ layer = [l \in Layer |-> [at |-> "idle", elem |-> 0]] /\ got = [l \in Layer |-> <<>>]

------------------------------------------------------------------------------
send_req(c) == requests' = [requests EXCEPT ![c] = @ + 1]

\* InternalThreadEntry: the first request; then poll_one runs received.
Start(c) ==
  /\ thread[c].at = "start" /\ Layers(c) # {}
  /\ send_req(c)
  /\ thread' = [thread EXCEPT ![c].at = "poll"]
  /\ UNCHANGED <<config, served, replies, data, queues, slots, read_all, layer, got>>

\* DataServer::received: run the data layer and send its batch.
Serve(c) ==
  /\ requests[c] > 0
  /\ requests' = [requests EXCEPT ![c] = @ - 1]
  /\ served' = served + 1
  /\ replies' = [replies EXCEPT ![c] = Append(@, served + 1)]
  /\ UNCHANGED <<config, thread, data, queues, slots, read_all, layer, got>>

received(c) ==
  /\ thread[c].at = "poll" /\ replies[c] # <<>>
  /\ replies' = [replies EXCEPT ![c] = Tail(@)]
  /\ thread' = [thread EXCEPT ![c].msg = Head(replies[c]), ![c].sum = 0,
                              ![c].at = IF Pull(c) THEN "cached" ELSE "copy"]
  /\ UNCHANGED <<config, served, requests, data, queues, slots, read_all, layer, got>>

------------------------------------------------------------------------------
\* SimpleDataCache::add_data.  The three sizes are read one after the other, each under
\* the lock of its queue.
Size(c, at, q, next) ==
  /\ thread[c].at = at
  /\ thread' = [thread EXCEPT ![c].sum = @ + Len(q[c]), ![c].at = next]
  /\ UNCHANGED <<config, net, data, queues, slots, read_all, layer, got>>

Sizes(c) ==
  \/ Size(c, "cached", cached, "free")
  \/ Size(c, "free", free, "waiting")
  \/ Size(c, "waiting", waiting, "create")

CreateIfNone_NoneFree(c) ==
  /\ thread[c].at = "create"
  /\ IF free[c] = <<>> THEN create_cache(c) ELSE UNCHANGED <<data, waiting, free>>
  /\ thread' = [thread EXCEPT ![c].at = "pop"]
  /\ UNCHANGED <<config, net, cached, slots, read_all, layer, got>>

CreateIfNone(c) ==
  /\ thread[c].at = "create"
  /\ IF thread[c].sum = 0 THEN create_cache(c) ELSE UNCHANGED <<data, waiting, free>>
  /\ thread' = [thread EXCEPT ![c].at = "pop"]
  /\ UNCHANGED <<config, net, cached, slots, read_all, layer, got>>

PopFree(c) ==
  /\ thread[c].at = "pop" /\ free[c] # <<>>
  /\ thread' = [thread EXCEPT ![c].elem = Head(free[c]), ![c].at = "fill"]
  /\ free' = [free EXCEPT ![c] = Tail(@)]
  /\ UNCHANGED <<config, net, data, cached, waiting, slots, read_all, layer, got>>

\* Copy the message into the element, publish it, ask for the next.
Fill(c) ==
  /\ thread[c].at = "fill"
  /\ data' = [data EXCEPT ![c][thread[c].elem] = thread[c].msg]
  /\ cached' = [cached EXCEPT ![c] = Append(@, thread[c].elem)]
  /\ send_req(c)
  /\ thread' = [thread EXCEPT ![c].at = "poll", ![c].msg = 0]
  /\ UNCHANGED <<config, served, replies, waiting, free, slots, read_all, layer, got>>

\* ReusingShufflingDataCache::add_data: the items are copied outside the lock, ...
CopyItems(c) ==
  /\ thread[c].at = "copy"
  /\ slots' = [slots EXCEPT ![c] = Append(@, thread[c].msg)]
  /\ thread' = [thread EXCEPT ![c].at = "publish", ![c].msg = 0]
  /\ UNCHANGED <<config, net, data, queues, read_all, layer, got>>

\* ... then counted.  The thread asks for more or finishes.
CacheFull_Any(c) == slots[c] # <<>>

CacheFull(c) == Len(slots[c]) = config[c].cache_size

Publish(c) ==
  /\ thread[c].at = "publish"
  /\ read_all' = [read_all EXCEPT ![c] = CacheFull(c)]
  /\ IF CacheFull(c) THEN thread' = [thread EXCEPT ![c].at = "finished"] /\ UNCHANGED requests
                     ELSE thread' = [thread EXCEPT ![c].at = "poll"] /\ send_req(c)
  /\ UNCHANGED <<config, served, replies, data, queues, slots, layer, got>>

Reader(c) == Start(c) \/ received(c) \/ Sizes(c) \/ CreateIfNone(c) \/ PopFree(c) \/ Fill(c)
             \/ CopyItems(c) \/ Publish(c)

------------------------------------------------------------------------------
\* SimpleDataCache::get, for a layer l of client c.
Begin(l, c) ==
  /\ layer[l].at = "idle" /\ Len(got[l]) < MaxGets /\ Pull(c)
  /\ IF Unshared(c)
       THEN /\ waiting[c] # <<>>
            /\ layer' = [layer EXCEPT ![l] = [at |-> "hand", elem |-> Head(waiting[c])]]
            /\ waiting' = [waiting EXCEPT ![c] = Tail(@)]
       ELSE layer' = [layer EXCEPT ![l].at = "get"] /\ UNCHANGED waiting
  /\ UNCHANGED <<config, net, thread, data, cached, free, slots, read_all, got>>

HandOver(l, c) ==
  /\ layer[l].at = "hand"
  /\ free' = [free EXCEPT ![c] = Append(@, layer[l].elem)]
  /\ layer' = [layer EXCEPT ![l].at = "get"]
  /\ UNCHANGED <<config, net, thread, data, cached, waiting, slots, read_all, got>>

PopCached_GivesBack(l, c) ==
  /\ layer[l].at = "get" /\ cached[c] # <<>>
  /\ layer' = [layer EXCEPT ![l] = [at |-> "copy", elem |-> Head(cached[c])]]
  /\ cached' = [cached EXCEPT ![c] = Tail(@)]
  /\ free' = [free EXCEPT ![c] = Append(@, Head(cached[c]))]
  /\ UNCHANGED <<config, net, thread, data, waiting, slots, read_all, got>>

PopCached(l, c) ==
  /\ layer[l].at = "get" /\ cached[c] # <<>>
  /\ layer' = [layer EXCEPT ![l] = [at |-> "copy", elem |-> Head(cached[c])]]
  /\ cached' = [cached EXCEPT ![c] = Tail(@)]
  /\ UNCHANGED <<config, net, thread, data, waiting, free, slots, read_all, got>>

\* Copy the batch, then give the element back.
CopyOut(l, c) ==
  /\ layer[l].at = "copy"
  /\ got' = [got EXCEPT ![l] = Append(@, data[c][layer[l].elem])]
  /\ IF Unshared(c)
       THEN waiting' = [waiting EXCEPT ![c] = Append(@, layer[l].elem)] /\ UNCHANGED free
       ELSE free' = [free EXCEPT ![c] = Append(@, layer[l].elem)] /\ UNCHANGED waiting
  /\ layer' = [layer EXCEPT ![l].at = "idle"]
  /\ UNCHANGED <<config, net, thread, data, cached, slots, read_all>>

\* ReusingShufflingDataCache::get draws items of any batch once all are there.  0 stands
\* for an item that was never written.
Drawn(c, i) == IF i \in DOMAIN slots[c] THEN slots[c][i] ELSE 0

Draw(l, c) ==
  /\ Len(got[l]) < MaxGets /\ ~Pull(c) /\ read_all[c]
  /\ \E i \in 1..config[c].cache_size : got' = [got EXCEPT ![l] = Append(@, Drawn(c, i))]
  /\ UNCHANGED <<config, net, thread, data, queues, slots, read_all, layer>>

Get(l, c) == Begin(l, c) \/ HandOver(l, c) \/ PopCached(l, c) \/ CopyOut(l, c) \/ Draw(l, c)

Next ==
  \/ \E c \in Client : Serve(c) \/ Reader(c)
  \/ \E c \in Client : \E l \in Layers(c) : Get(l, c)

Spec == Init /\ [][Next]_vars

\* The server answers, reader threads run, and so does every layer that can go on.
Fairness ==
  /\ \A c \in Client : WF_vars(Serve(c)) /\ WF_vars(Reader(c))
  /\ \A c \in Client, l \in Layer : WF_vars(l \in Layers(c) /\ Get(l, c))

FairSpec == Spec /\ Fairness

------------------------------------------------------------------------------
\* Where batches are: on the way to a client, in its reader thread's hands, in a cached
\* element, in a layer's hands, or used (kept in a slot, for the reusing policy).
At(place, owner, q) == {<<place, owner, i, q[i]>> : i \in DOMAIN q}
Batches(c, q) == [i \in DOMAIN q |-> data[c][q[i]]]

Places(c) ==
  At("reply", c, replies[c]) \cup At("cached", c, Batches(c, cached[c]))
  \cup At("slot", c, slots[c])
  \cup (IF thread[c].msg = 0 THEN {} ELSE At("thread", c, <<thread[c].msg>>))
  \cup (UNION {At("held", l, Batches(c, <<layer[l].elem>>)) :
                 l \in {k \in Layers(c) : layer[k].at = "copy"}})
  \cup (IF Pull(c) THEN UNION {At("used", l, got[l]) : l \in Layers(c)} ELSE {})

\* Every batch the server has handed out is in exactly one place of one client: none is
\* lost in a queue, overwritten before it is used or used twice, although the elements go
\* round and the cache may be made again while layers hold some of them
\* (remote_data_layer.cpp:110-149, 222-261, DataServer.cpp:55-74).
EachBatchOnce ==
  LET all == UNION {Places(c) : c \in Client}
  IN  {p[4] : p \in all} = 1..served /\ Cardinality(all) = served

\* A layer sees batches in the order in which the server made them, unless it draws
\* from a full cache; then it never sees an item that was not received
\* (remote_data_layer.cpp:151-177, 227-238, 248).
InOrder ==
  \A c \in Client : \A l \in Layers(c) :
    /\ \A i \in DOMAIN got[l] : got[l][i] # 0
    /\ Pull(c) => \A i, j \in DOMAIN got[l] : i < j => got[l][i] < got[l][j]

\* Elements are made again only when the layers hold all there are, so that the memory
\* of a client stays within its cache and one element per layer
\* (remote_data_layer.cpp:223-225).
ElementsBounded ==
  \A c \in Client : Len(data[c]) <= Cardinality(Layers(c)) + Len(NewIds(c))

\* Every get returns: the reader thread, which stops polling while it waits for a free
\* element, and the layers, which wait for a cached one, never wait for each other
\* (remote_data_layer.cpp:227, 242-248, 318-330).
EveryGetReturns == <>(\A c \in Client : \A l \in Layers(c) : Len(got[l]) = MaxGets)
==============================================================================
