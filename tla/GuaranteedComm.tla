--------------------------- MODULE GuaranteedComm ---------------------------
(***************************************************************************)
(* Guaranteed communication over UDP: a server and its clients, each with  *)
(* an external thread (the user: async_send and polling for items) and an  *)
(* internal thread (sockets, acknowledgements, resends, membership).  The  *)
(* network loses, repeats and reorders datagrams.  An internal thread owns *)
(* all of its process but the queues and buffer pools, which have locks of *)
(* their own, so one pass of its loop is one step: a handler, resends,     *)
(* send_msg.                                                               *)
(***************************************************************************)
EXTENDS Naturals, Sequences, FiniteSets

CONSTANTS Client,      \* the addresses of client processes
          Server,
          All,         \* the server's own id, for a broadcast
          Load,        \* the loads an instance is checked under, see load
          MaxUid,      \* the bound on messages of one process
          NumBuffers,  \* MAX_BUFFERS, per pool
          MaxUnacked   \* MAX_UNACKED

Proc == Client \cup {Server}
Link == ({Server} \X Client) \cup (Client \X {Server})
Pool == Link \cup {<<Server, All>>}
Uid == 1..MaxUid

ASSUME GuaranteedAssumption ==
  /\ Server \notin Client /\ All \notin Proc /\ IsFiniteSet(Client)
  /\ Load \subseteq [posts : [Proc -> 0..MaxUid], pools : SUBSET Pool,
                     start : SUBSET Client, leave : SUBSET Client, losses : Nat, sessions : Nat]
  /\ {MaxUid, NumBuffers, MaxUnacked} \subseteq Nat

VARIABLES
  up,          \* up[p]: "new", "up" or "dead"
  uids,        \* uids[p]: how many uids generate_uid has given out
  buffers,     \* buffers[l][i]: the uid of the message in buffer i of pool l
  node,        \* node[p]: what the internal thread of p holds
  net,         \* the datagrams under way
  received,    \* received[k]: received_msgs of the receiver of link k
  recv_queue,  \* recv_queue[p]: the items ever queued for the user of p
  losses,      \* how many datagrams were lost
  load,        \* the bounds: messages, destinations, clients, losses, sessions
  posted       \* posted[k]: the messages users ever sent over link k (history)

vars == <<up, uids, buffers, node, net, received, recv_queue, losses, load,
          posted>>

Msg(k, u) == [kind |-> "msg", link |-> k, uid |-> u]
Ack(k, u) == [kind |-> "ack", link |-> k, uid |-> u]
Connect(c) == [kind |-> "connect", link |-> <<c, Server>>, uid |-> 0]
Item(kind, from, u) == [kind |-> kind, from |-> from, uid |-> u]

\* A datagram in the socket's send queue, with the address of its buffer only; a
\* first transmission also holds the buffer.
Datagrams ==
  {d \in [pool : Pool, buf : 1..NumBuffers, to : Proc, first : BOOLEAN] :
     <<d.pool[1], d.to>> \in Link}
Datagram(b, to, first) == [pool |-> b[1], buf |-> b[2], to |-> to, first |-> first]

NewNode(p) ==
  [queue |-> <<>>,                         \* send_queue: pairs of pool and uid
   peers |-> IF p = Server THEN {} ELSE {Server},
   sending |-> FALSE,
   pushed |-> [q \in Proc |-> {}],         \* sent_buffers of the resender to q
   unacked |-> [q \in Proc |-> {}],        \* its all_pushed
   out |-> {}]                             \* the socket's send queue

Init ==
  /\ up = [p \in Proc |-> IF p = Server THEN "up" ELSE "new"]
  /\ uids = [p \in Proc |-> 0]
  /\ buffers = [l \in Pool |-> [i \in 1..NumBuffers |-> 0]]
  /\ node = [p \in Proc |-> NewNode(p)]
  /\ net = {} /\ losses = 0
  /\ received = [k \in Link |-> {}] /\ posted = received
  /\ recv_queue = [p \in Proc |-> <<>>]
  /\ load \in Load

------------------------------------------------------------------------------
(* Buffers and the user's thread                                           *)

\* A buffer is off the free list while a shared pointer to it exists: in the send
\* queue, in a first transmission or in a resender.
Held(s, l, i) ==
  LET u == buffers[l][i]
  IN  \/ \E j \in DOMAIN s.queue : s.queue[j] = <<l, u>>
      \/ \E q \in Proc : Datagram(<<l, i>>, q, TRUE) \in s.out \/ u \in s.unacked[q]

\* The buffers with message u of process p.
Where(p, u) == {b \in Pool \X (1..NumBuffers) : b[1][1] = p /\ buffers[b[1]][b[2]] = u}

\* The clients whose waypoint the user has been given.  The user polls the items in
\* their order, whenever it likes, and may hold a waypoint longer than it lives.
Known == {c \in Client : \E i \in DOMAIN recv_queue[Server] :
                           recv_queue[Server][i] = Item("accepted", c, 0)}

generate_uid(p) == uids[p] + 1

\* async_send by the user of p, to the server, to a client or to all clients.
async_send(p, l) ==
  /\ l[1] = p /\ uids[p] < load.posts[p] /\ l \in load.pools
  /\ up[p] = "up"
  /\ l[2] \in {Server, All} \cup Known
  /\ \E i \in 1..NumBuffers :
       /\ ~Held(node[p], l, i)
       /\ buffers' = [buffers EXCEPT ![l][i] = generate_uid(p)]
  /\ uids' = [uids EXCEPT ![p] = @ + 1]
  /\ node' = [node EXCEPT ![p].queue = Append(@, <<l, generate_uid(p)>>)]
  /\ posted' = [k \in Link |-> IF l = k \/ l = <<k[1], All>>
                               THEN posted[k] \cup {generate_uid(p)} ELSE posted[k]]
  /\ UNCHANGED <<up, net, losses, received, recv_queue, load>>

------------------------------------------------------------------------------
(* The internal thread                                                     *)

\* What the resenders to Q may send again: messages whose buffer is still held,
\* be it for another client.
Due(p, s, Q) ==
  {d \in [pool : Pool, buf : 1..NumBuffers, to : Q \cap s.peers, first : {FALSE}] :
     /\ d.pool[1] = p /\ Held(s, d.pool, d.buf)
     /\ buffers[d.pool][d.buf] \in s.pushed[d.to]}

\* Those for which the time has come: none, one or all in a pass.
Choices(p, s, Q) == LET due == Due(p, s, Q) IN {{}, due} \cup {{d} : d \in due}

resend_some(s, D) == [s EXCEPT !.out = @ \cup D]

\* clients.begin(): some fixed order of the clients.
First(Q) == CHOOSE q \in Q : TRUE

send_msg(p, s) ==
  IF \/ s.sending \/ s.peers = {} \/ s.queue = <<>>
     \/ Cardinality(s.unacked[First(s.peers)]) > MaxUnacked
  THEN s
  ELSE LET l == Head(s.queue)[1]
           u == Head(s.queue)[2]
           to == IF l[2] = All THEN s.peers ELSE {l[2]} \cap s.peers
           Push(f) == [q \in Proc |-> IF q \in to THEN f[q] \cup {u} ELSE f[q]]
       IN  [s EXCEPT !.queue = Tail(@),
                     !.sending = l[2] \in {Server, All},
                     !.out = @ \cup {Datagram(x[1], x[2], TRUE) : x \in Where(p, u) \X to},
                     !.pushed = Push(@),
                     !.unacked = Push(@)]

Becomes(p, s) == node' = [node EXCEPT ![p] = s]

\* The network loses datagrams; what gets through may come late and repeatedly.
Transmit(m, lost) ==
  IF lost THEN losses < load.losses /\ losses' = losses + 1 /\ net' = net
          ELSE net' = net \cup {m} /\ losses' = losses

send_ack_Once(k, u, lost) ==
  IF u \in received[k] THEN UNCHANGED <<net, losses>> ELSE Transmit(Ack(k, u), lost)
send_ack(k, u, lost) == Transmit(Ack(k, u), lost)

already_received_Never(k, u) == FALSE
already_received(k, u) == u \in received[k]

\* An item for the user of p.
push_Front(p, item) == recv_queue' = [recv_queue EXCEPT ![p] = <<item>> \o @]
push(p, item) == recv_queue' = [recv_queue EXCEPT ![p] = Append(@, item)]

\* Resender::ack.
ack_All(s, q, u) == [s EXCEPT !.unacked = [r \in Proc |-> @[r] \ {u}]]
ack(s, q, u) == [s EXCEPT !.unacked[q] = @ \ {u}]

\* received(), for a message: acknowledge it, queue it unless it is known.
received_msg(k, u, lost) ==
  LET q == k[1]
      p == k[2]
      s == node[p]
  IN  /\ Msg(k, u) \in net /\ q \in s.peers /\ up[p] = "up"
      /\ send_ack(k, u, lost)
      /\ IF already_received(k, u)
         THEN UNCHANGED <<received, recv_queue>>
         ELSE /\ received' = [received EXCEPT ![k] = @ \cup {u}]
              /\ push(p, Item("recv", q, u))
      /\ \E D \in Choices(p, s, {q}) :
           Becomes(p, send_msg(p, send_msg(p, resend_some(s, D))))
      /\ UNCHANGED <<up, uids, buffers, load, posted>>

\* received(), for an acknowledgement.
received_ack(k, u) ==
  LET p == k[1]
      q == k[2]
      s == ack(node[p], q, u)
  IN  /\ Ack(k, u) \in net /\ q \in s.peers /\ up[p] = "up"
      /\ \E D \in Choices(p, s, {q}) :
           Becomes(p, send_msg(p, send_msg(p, resend_some(s, D))))
      /\ UNCHANGED <<up, uids, buffers, net, losses, received, recv_queue, load, posted>>

\* The socket has taken a datagram: sent() of the queue and its callback.  The
\* buffer is read now.  A broadcast ends with its last copy.
sent(p, d, lost) ==
  LET rest == node[p].out \ {d}
      over == /\ d.first /\ d.pool[2] \in {Server, All}
              /\ ~\E e \in rest : e.first /\ e.pool = d.pool /\ e.buf = d.buf
      s == [node[p] EXCEPT !.out = rest, !.sending = @ /\ ~over]
  IN  /\ d \in node[p].out
      /\ Transmit(Msg(<<p, d.to>>, buffers[d.pool][d.buf]), lost)
      /\ \E D \in Choices(p, s, IF p = Server /\ d.first THEN {} ELSE {d.to}) :
           Becomes(p, send_msg(p, resend_some(s, D)))
      /\ UNCHANGED <<up, uids, buffers, received, recv_queue, load, posted>>

\* tick(): resends to everybody.
tick(p, D) ==
  /\ D \in Choices(p, node[p], node[p].peers)
  /\ Becomes(p, send_msg(p, resend_some(node[p], D)))
  /\ UNCHANGED <<up, uids, buffers, net, losses, received, recv_queue, load, posted>>

------------------------------------------------------------------------------
(* Membership                                                              *)

\* A client process starts and sends Connect, once.
Start(c, lost) ==
  /\ up[c] = "new" /\ c \in load.start
  /\ up' = [up EXCEPT ![c] = "up"]
  /\ Transmit(Connect(c), lost)
  /\ UNCHANGED <<uids, buffers, node, received, recv_queue, load, posted>>

\* A client process ends: an exception in its internal thread, or a crash.
Die(c) ==
  /\ up[c] = "up" /\ c \in load.leave
  /\ up' = [up EXCEPT ![c] = "dead"]
  /\ node' = [node EXCEPT ![c] = NewNode(c)]
  /\ net' = {m \in net : c # IF m.kind = "ack" THEN m.link[1] ELSE m.link[2]}
  /\ UNCHANGED <<uids, buffers, losses, received, recv_queue, load, posted>>

Sessions(c) ==
  Cardinality({i \in DOMAIN recv_queue[Server] : recv_queue[Server][i] = Item("accepted", c, 0)})

\* handle_connect and accepted: a new client endpoint with a new resender and
\* nothing received.  A repeated Connect of a client that is there is ignored.
handle_connect(c) ==
  LET s == [node[Server] EXCEPT !.peers = @ \cup {c}, !.pushed[c] = {}, !.unacked[c] = {}]
  IN  /\ Connect(c) \in net /\ c \notin node[Server].peers /\ Sessions(c) < load.sessions
      /\ received' = [received EXCEPT ![<<c, Server>>] = {}]
      /\ push(Server, Item("accepted", c, 0))
      /\ Becomes(Server, send_msg(Server, s))
      /\ UNCHANGED <<up, uids, buffers, net, losses, load, posted>>

\* clients.erase(c): the resender goes, datagrams in the socket's queue stay.
erase_Queued(s, c) ==
  [s EXCEPT !.peers = @ \ {c}, !.pushed[c] = {}, !.unacked[c] = {},
            !.out = {d \in @ : d.to # c}]
erase(s, c) == [s EXCEPT !.peers = @ \ {c}, !.pushed[c] = {}, !.unacked[c] = {}]

\* time_expired, handle_disconnect and disconnected: no datagram of c for too long.
time_expired(c) ==
  LET s == erase(node[Server], c)
  IN  /\ c \in node[Server].peers \cap load.leave
      /\ push(Server, Item("disconnected", c, 0))
      /\ Becomes(Server, send_msg(Server, s))
      /\ UNCHANGED <<up, uids, buffers, net, losses, received, load, posted>>

Next ==
  \/ \E p \in Proc, l \in Pool : async_send(p, l)
  \/ \E k \in Link, u \in Uid, lost \in BOOLEAN : received_msg(k, u, lost)
  \/ \E k \in Link, u \in Uid : received_ack(k, u)
  \/ \E p \in Proc, lost \in BOOLEAN : \E d \in node[p].out : sent(p, d, lost)
  \/ \E p \in Proc : \E D \in Choices(p, node[p], node[p].peers) : tick(p, D)
  \/ \E c \in Client, lost \in BOOLEAN : Start(c, lost)
  \/ \E c \in Client : Die(c) \/ handle_connect(c) \/ time_expired(c)

Spec == Init /\ [][Next]_vars

\* Internal threads run and are woken by their timer, a datagram that is sent again
\* and again gets through (losses are bounded), and a dead client expires.
Fairness ==
  /\ \A p \in Proc : WF_vars(tick(p, Due(p, node[p], node[p].peers)))
  /\ \A d \in Datagrams : WF_vars(\E lost \in BOOLEAN : sent(d.pool[1], d, lost))
  /\ \A k \in Link, u \in Uid : WF_vars(\E lost \in BOOLEAN : received_msg(k, u, lost))
  /\ \A k \in Link, u \in Uid : WF_vars(received_ack(k, u))
  /\ \A c \in Client : WF_vars(up[c] = "dead" /\ time_expired(c))

FairSpec == Spec /\ Fairness

------------------------------------------------------------------------------
\* The user is given each message at most once in a session of its sender, however
\* often the datagram is repeated or resent and although a resend reads a buffer
\* that may be in use again (guaranteed_comm.cpp:188-194, 385, 541).
OncePerSession ==
  \A p \in Proc : \A i, j \in DOMAIN recv_queue[p] :
    LET item == recv_queue[p][i]
    IN  i < j /\ item.kind = "recv" /\ item = recv_queue[p][j] =>
          \E h \in i..j : recv_queue[p][h] = Item("accepted", item.from, 0)

\* When the server's user is handed a message, the client it came from has been
\* announced and not withdrawn: the external waypoint dereferences clients[id]
\* without a test (guaranteed_comm.cpp:706-708).
SenderKnown ==
  LET q == recv_queue[Server]
  IN  \A i \in DOMAIN q : q[i].kind = "recv" =>
        \E h \in 1..i : /\ q[h] = Item("accepted", q[i].from, 0)
                         /\ \A j \in h..i : q[j] # Item("disconnected", q[i].from, 0)

\* A process that waits for the end of a transmission has one under way: sending
\* is never left set, also when clients vanish in the middle of a broadcast
\* (guaranteed_comm.cpp:501-503, 507, 519; udp_configuration.cpp:486).
SendingEnds ==
  \A p \in Proc : node[p].sending =>
    \E d \in node[p].out : d.first /\ d.pool[2] \in {Server, All}

\* Guaranteed communication implements the channel: nothing is given to a user
\* that was not posted to it, and a resender forgets a message only when the peer's
\* user has it or the client is gone (guaranteed_comm.cpp:232-239, 377-393, 531-562).
Given(k) ==
  {u \in Uid : \E i \in DOMAIN recv_queue[k[2]] : recv_queue[k[2]][i] = Item("recv", k[1], u)}

Channel == INSTANCE GuaranteedChannel WITH
  open <- [k \in Link |-> IF k[1] = Server THEN k[2] \in node[Server].peers ELSE up[k[1]] = "up"],
  kept <- [k \in Link |-> node[k[1]].unacked[k[2]]],
  here <- received,
  given <- [k \in Link |-> Given(k)]

ImplementsChannel == Channel!Spec

\* Between a server and a client that stays, whatever happens to other clients, every
\* message that is queued is given to the user and then let go of, so the window
\* never stays closed (guaranteed_comm.cpp:367, 506-528).
Stays(c) == up[c] = "up" /\ c \in node[Server].peers

Queued(k, u) ==
  \/ u \in node[k[1]].unacked[k[2]]
  \/ \E j \in DOMAIN node[k[1]].queue : node[k[1]].queue[j] \in {<<k, u>>, <<<<k[1], All>>, u>>}

EveryMessageArrives ==
  \A c \in Client : <>[]Stays(c) =>
    \A k \in {<<Server, c>>, <<c, Server>>}, u \in Uid :
      Stays(c) /\ Queued(k, u) ~> u \in Given(k) /\ ~Queued(k, u)
==============================================================================
