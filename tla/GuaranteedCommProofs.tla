------------------------ MODULE GuaranteedCommProofs ------------------------
(***************************************************************************)
(* For every number of clients, buffers, messages, losses and sessions: no *)
(* message is given twice in a session, none from a client that was not    *)
(* announced, no process waits for a transmission that is not under way,   *)
(* and guaranteed communication implements the channel.                    *)
(***************************************************************************)
EXTENDS GuaranteedComm, SequenceTheorems, TLAPS

NodeRecord ==
  [queue   : Seq(Pool \X Nat),
   peers   : SUBSET Proc,
   sending : BOOLEAN,
   pushed  : [Proc -> SUBSET Nat],
   unacked : [Proc -> SUBSET Nat],
   out     : SUBSET [pool : Pool, buf : 1..NumBuffers, to : Proc, first : BOOLEAN]]

ItemRecord == [kind : {"recv", "accepted", "disconnected"}, from : Proc, uid : Nat]

TypeOK ==
  /\ up \in [Proc -> {"new", "up", "dead"}]
  /\ uids \in [Proc -> Nat]
  /\ buffers \in [Pool -> [1..NumBuffers -> Nat]]
  /\ node \in [Proc -> NodeRecord]
  /\ received \in [Link -> SUBSET Uid]
  /\ posted \in [Link -> SUBSET Uid]
  /\ recv_queue \in [Proc -> Seq(ItemRecord)]
  /\ load \in Load

\* Pool l feeds link k.
Feeds(l, k) == l = k \/ l = <<k[1], All>>

\* A message is posted to the links that its buffer's pool feeds, and to no other.
BuffersPosted ==
  /\ \A k \in Link : \A u \in posted[k] : u <= uids[k[1]]
  /\ \A l \in Pool, i \in 1..NumBuffers : buffers[l][i] <= uids[l[1]]
  /\ \A l \in Pool, i \in 1..NumBuffers, k \in Link :
       k[1] = l[1] /\ buffers[l][i] # 0 => (Feeds(l, k) <=> buffers[l][i] \in posted[k])

\* A message in the send queue of p still has its buffer.
EntryKept(p, e) ==
  /\ e[1][1] = p /\ e[2] # 0
  /\ \E i \in 1..NumBuffers : buffers[e[1]][i] = e[2]

\* A datagram in the socket's queue of p reads a buffer of a pool that feeds its link.
DatagramFed(p, d) ==
  /\ <<p, d.to>> \in Link /\ d.pool[1] = p /\ Feeds(d.pool, <<p, d.to>>)
  /\ buffers[d.pool][d.buf] # 0

\* A process that waits for the end of a transmission has one under way.
Ends(s) == s.sending => \E d \in s.out : d.first /\ d.pool[2] \in {Server, All}

\* What the internal thread of p may hold.
NodeKept(p, s) ==
  /\ s \in NodeRecord
  /\ IF p = Server THEN s.peers \subseteq Client ELSE s.peers = {Server}
  /\ \A q \in Proc \ s.peers : s.unacked[q] = {}
  /\ \A j \in DOMAIN s.queue : EntryKept(p, s.queue[j])
  /\ \A q \in Proc : \A u \in s.pushed[q] \cup s.unacked[q] :
       <<p, q>> \in Link /\ u \in posted[<<p, q>>]
  /\ \A d \in s.out : DatagramFed(p, d)
  /\ Ends(s)

\* A message under way was posted, and one that is acknowledged has been given.
MessageTrue(m) ==
  /\ m.kind \in {"msg", "ack", "connect"}
  /\ m.kind = "msg" => m.link \in Link /\ m.uid \in posted[m.link]
  /\ m.kind = "ack" => m.link \in Link /\ m.uid \in Given(m.link)

NetTrue == \A m \in net : MessageTrue(m)

\* A message that was given is known as received, unless its sender has a new session.
GivenKnown ==
  \A p \in Proc : \A i \in DOMAIN recv_queue[p] :
    LET item == recv_queue[p][i]
    IN  item.kind = "recv" =>
          /\ <<item.from, p>> \in Link
          /\ \/ item.uid \in received[<<item.from, p>>]
             \/ \E h \in i..Len(recv_queue[p]) : recv_queue[p][h] = Item("accepted", item.from, 0)

\* The server's user has heard of every client that is connected, and not of its end.
Announced(c) ==
  LET q == recv_queue[Server]
  IN  \E h \in DOMAIN q : /\ q[h] = Item("accepted", c, 0)
                          /\ \A j \in h..Len(q) : q[j] # Item("disconnected", c, 0)

\* The inductive invariant.
IInv ==
  /\ TypeOK
  /\ BuffersPosted
  /\ \A p \in Proc : NodeKept(p, node[p])
  /\ NetTrue
  /\ \A k \in Link : received[k] \subseteq Given(k)
  /\ GivenKnown
  /\ OncePerSession
  /\ \A c \in node[Server].peers : Announced(c)
  /\ SenderKnown

------------------------------------------------------------------------------
\* The addresses and the pools.
LEMMA Addresses ==
  /\ \A k \in Link : k \in Pool /\ k[1] \in Proc /\ k[2] \in Proc /\ k = <<k[1], k[2]>>
  /\ \A l \in Pool : l = <<l[1], l[2]>> /\ l[1] \in Proc /\ l[2] \in Proc \cup {All}
  /\ \A l \in Pool : l[2] = All => l[1] = Server /\ l = <<Server, All>>
  /\ \A l \in Pool : l[2] # All => l \in Link
  /\ \A l \in Pool : l[2] = Server => l[1] \in Client
  /\ \A c \in Client : <<Server, c>> \in Link /\ <<c, Server>> \in Link
  /\ Server \in Proc /\ Server # All /\ Server \notin Client
  /\ \A p \in Proc : p # Server => p \in Client
  BY GuaranteedAssumption DEF Link, Pool, Proc

\* The buffer of a queued message is among those that Where() finds.
LEMMA EntryFound ==
  ASSUME NEW p, NEW e \in Pool \X Nat, EntryKept(p, e)
  PROVE  \E b \in Where(p, e[2]) : b[1] = e[1]
<1>1. PICK i \in 1..NumBuffers : buffers[e[1]][i] = e[2]
  BY Zenon DEF EntryKept
<1>2. <<e[1], i>> \in Where(p, e[2])
  BY Zenon, <1>1 DEF Where, EntryKept
<1>3. QED
  BY Zenon, <1>2

\* send_msg() takes the first message of the queue, if it may: the transmission has a
\* datagram, and resenders get the message for the links it was posted to
\* (guaranteed_comm.cpp:501-528).
LEMMA SendMsg ==
  ASSUME TypeOK, BuffersPosted, NEW p \in Proc, NEW s \in NodeRecord, NodeKept(p, s)
  PROVE  /\ NodeKept(p, send_msg(p, s))
         /\ send_msg(p, s).peers = s.peers
         /\ \A q \in Proc : s.unacked[q] \subseteq send_msg(p, s).unacked[q]
<1> DEFINE n == send_msg(p, s)
<1>1. CASE n = s
  BY Zenon, <1>1
<1>2. CASE n # s
  <2>1. s.queue # <<>> /\ s.peers # {} /\ s.queue \in Seq(Pool \X Nat)
    BY Zenon, <1>2 DEF send_msg, NodeRecord
  <2>2. PICK e \in Pool \X Nat : e = Head(s.queue) /\ EntryKept(p, e)
    <3>1. 1 \in DOMAIN s.queue /\ Head(s.queue) = s.queue[1] /\ Head(s.queue) \in Pool \X Nat
      BY <2>1
    <3>2. QED
      BY <3>1 DEF NodeKept
  <2>3. PICK l \in Pool, u \in Nat : l = e[1] /\ u = e[2] /\ l[1] = p /\ u # 0
    BY Zenon, <2>2 DEF EntryKept
  <2>4. PICK to : to = IF l[2] = All THEN s.peers ELSE {l[2]} \cap s.peers
    BY Zenon
  <2>5. n = [s EXCEPT !.queue = Tail(@),
                      !.sending = l[2] \in {Server, All},
                      !.out = @ \cup {Datagram(x[1], x[2], TRUE) : x \in Where(p, u) \X to},
                      !.pushed = [q \in Proc |-> IF q \in to THEN @[q] \cup {u} ELSE @[q]],
                      !.unacked = [q \in Proc |-> IF q \in to THEN @[q] \cup {u} ELSE @[q]]]
    BY Zenon, <1>2, <2>2, <2>3, <2>4 DEF send_msg
  <2> HIDE DEF n
  <2>6. \A q \in to : q \in s.peers /\ <<p, q>> \in Link /\ Feeds(l, <<p, q>>)
    <3> SUFFICES ASSUME NEW q \in to PROVE q \in s.peers /\ <<p, q>> \in Link /\ Feeds(l, <<p, q>>)
      BY Zenon
    <3>1. q \in s.peers /\ (l[2] = All \/ l[2] = q)
      BY Zenon, <2>4
    <3>2. <<p, q>> \in Link
      <4>1. CASE p = Server
        BY Zenon, <3>1, <4>1, Addresses DEF NodeKept
      <4>2. CASE p # Server
        <5>1. p \in Client /\ q = Server
          BY <3>1, <4>2, Addresses DEF NodeKept
        <5>2. QED
          BY Zenon, <5>1, Addresses
      <4>3. QED
        BY Zenon, <4>1, <4>2
    <3>3. l = <<p, l[2]>>
      BY Zenon, <2>3, Addresses
    <3>4. QED
      BY Zenon, <3>1, <3>2, <3>3 DEF Feeds
  <2>7. \A b \in Where(p, u) : b[1] \in Pool /\ b[2] \in 1..NumBuffers /\ b[1][1] = p
                               /\ buffers[b[1]][b[2]] = u /\ b = <<b[1], b[2]>>
    BY DEF Where
  <2>8. \A q \in to : u \in posted[<<p, q>>]
    <3>1. PICK b \in Where(p, u) : b[1] = l
      BY <2>2, <2>3, EntryFound
    <3>2. QED
      BY <2>3, <2>6, <2>7, <3>1 DEF BuffersPosted
  <2>9. \A b \in Where(p, u), q \in to : Feeds(b[1], <<p, q>>)
    BY <2>3, <2>6, <2>7, <2>8 DEF BuffersPosted
  <2>10. PICK tail \in Seq(Pool \X Nat) :
           /\ tail = Tail(s.queue) /\ Len(tail) = Len(s.queue) - 1
           /\ \A j \in 1..Len(tail) : tail[j] = s.queue[j + 1]
    <3>1. PICK S : S = Pool \X Nat
      BY Zenon
    <3>2. s.queue \in Seq(S)
      BY Zenon, <2>1, <3>1
    <3>3. /\ Tail(s.queue) \in Seq(S) /\ Len(Tail(s.queue)) = Len(s.queue) - 1
          /\ \A j \in 1..Len(Tail(s.queue)) : Tail(s.queue)[j] = s.queue[j + 1]
      BY Zenon, <2>1, <3>2, HeadTailProperties
    <3>4. QED
      BY Zenon, <3>1, <3>3
  <2>11. \A j \in DOMAIN tail : EntryKept(p, tail[j])
    <3>1. \A j \in DOMAIN tail : j + 1 \in DOMAIN s.queue /\ tail[j] = s.queue[j + 1]
      BY <2>1, <2>10
    <3>2. QED
      BY Zenon, <3>1 DEF NodeKept
  <2> DEFINE new == {Datagram(x[1], x[2], TRUE) : x \in Where(p, u) \X to}
  <2>12. \A d \in new : \E b \in Where(p, u), q \in to :
           /\ d = [pool |-> b[1], buf |-> b[2], to |-> q, first |-> TRUE]
    BY Zenon DEF Datagram
  <2>13. \A b \in Where(p, u), q \in to : Datagram(b, q, TRUE) \in new
    <3> SUFFICES ASSUME NEW b \in Where(p, u), NEW q \in to PROVE Datagram(b, q, TRUE) \in new
      BY Zenon
    <3>1. <<b, q>> \in Where(p, u) \X to /\ <<b, q>>[1] = b /\ <<b, q>>[2] = q
      BY Zenon
    <3>2. QED
      BY Zenon, <3>1
  <2> HIDE DEF new
  <2>14. \A d \in new : /\ d \in [pool : Pool, buf : 1..NumBuffers, to : Proc, first : BOOLEAN]
                        /\ DatagramFed(p, d)
    <3> SUFFICES ASSUME NEW b \in Where(p, u), NEW q \in to, NEW d,
                        d = [pool |-> b[1], buf |-> b[2], to |-> q, first |-> TRUE]
                 PROVE  /\ d \in [pool : Pool, buf : 1..NumBuffers, to : Proc, first : BOOLEAN]
                        /\ DatagramFed(p, d)
      BY Zenon, <2>12
    <3>1. q \in Proc
      BY Zenon, <2>6 DEF NodeRecord
    <3>2. QED
      BY Zenon, <2>3, <2>6, <2>7, <2>9, <3>1 DEF DatagramFed
  <2>15. PICK pp \in [Proc -> SUBSET Nat] :
           pp = [q \in Proc |-> IF q \in to THEN s.pushed[q] \cup {u} ELSE s.pushed[q]]
    BY Zenon DEF NodeRecord
  <2>16. PICK uu \in [Proc -> SUBSET Nat] :
           uu = [q \in Proc |-> IF q \in to THEN s.unacked[q] \cup {u} ELSE s.unacked[q]]
    BY Zenon DEF NodeRecord
  <2>17. PICK oo \in SUBSET [pool : Pool, buf : 1..NumBuffers, to : Proc, first : BOOLEAN] :
           oo = s.out \cup new
    BY Zenon, <2>14 DEF NodeRecord
  <2>18. PICK waits \in BOOLEAN : waits = (l[2] \in {Server, All})
    <3>1. (l[2] \in {Server, All}) \in BOOLEAN
      OBVIOUS
    <3>2. QED
      BY <3>1, Zenon
  <2>19. n = [s EXCEPT !.queue = tail, !.sending = waits, !.out = oo, !.pushed = pp, !.unacked = uu]
    BY Zenon, <2>5, <2>10, <2>15, <2>16, <2>17, <2>18 DEF NodeRecord, new
  <2>20. /\ n \in NodeRecord /\ n.peers = s.peers
         /\ n.queue = tail /\ n.sending = waits /\ n.out = oo /\ n.pushed = pp /\ n.unacked = uu
    BY Zenon, <2>19 DEF NodeRecord
  <2>21. Ends(n)
    <3> SUFFICES ASSUME l[2] \in {Server, All} PROVE \E d \in new : d.first /\ d.pool[2] \in {Server, All}
      BY Zenon, <2>17, <2>18, <2>20 DEF Ends
    <3>1. PICK b \in Where(p, u) : b[1] = l
      BY <2>2, <2>3, EntryFound
    <3>2. PICK q : q \in to
      <4>1. l[2] = Server => s.peers = {Server}
        BY Zenon, <2>3, Addresses DEF NodeKept
      <4>2. QED
        BY Zenon, <2>1, <2>4, <4>1
    <3>3. Datagram(b, q, TRUE) \in new
      BY Zenon, <2>13, <3>1, <3>2
    <3>4. QED
      BY Zenon, <3>1, <3>3 DEF Datagram
  <2>22. \A q \in Proc : \A w \in pp[q] \cup uu[q] : <<p, q>> \in Link /\ w \in posted[<<p, q>>]
    BY Zenon, <2>6, <2>8, <2>15, <2>16 DEF NodeKept
  <2>23. \A q \in Proc \ s.peers : uu[q] = {}
    BY Zenon, <2>6, <2>16 DEF NodeKept
  <2>24. \A d \in oo : DatagramFed(p, d)
    BY Zenon, <2>14, <2>17 DEF NodeKept
  <2>25. NodeKept(p, n)
    BY Zenon, <2>11, <2>20, <2>21, <2>22, <2>23, <2>24 DEF NodeKept
  <2>26. QED
    BY Zenon, <2>16, <2>20, <2>25 DEF n
<1>3. QED
  BY Zenon, <1>1, <1>2

\* Resends read buffers of pools that feed their links (guaranteed_comm.cpp:241-262).
LEMMA Resend ==
  ASSUME TypeOK, BuffersPosted, NEW p \in Proc, NEW s \in NodeRecord, NodeKept(p, s),
         NEW Q, NEW D \in Choices(p, s, Q)
  PROVE  /\ NodeKept(p, resend_some(s, D)) /\ resend_some(s, D) \in NodeRecord
         /\ resend_some(s, D).peers = s.peers
         /\ resend_some(s, D).unacked = s.unacked
<1>1. D \subseteq Due(p, s, Q)
  BY Zenon DEF Choices
<1>2. \A d \in D : /\ d \in [pool : Pool, buf : 1..NumBuffers, to : Proc, first : BOOLEAN]
                   /\ DatagramFed(p, d)
  <2> SUFFICES ASSUME NEW d \in Due(p, s, Q)
               PROVE  /\ d \in [pool : Pool, buf : 1..NumBuffers, to : Proc, first : BOOLEAN]
                      /\ DatagramFed(p, d)
    BY Zenon, <1>1
  <2>1. /\ d \in [pool : Pool, buf : 1..NumBuffers, to : Q \cap s.peers, first : {FALSE}]
        /\ d.pool[1] = p /\ buffers[d.pool][d.buf] \in s.pushed[d.to]
    BY Zenon DEF Due
  <2>2. d \in [pool : Pool, buf : 1..NumBuffers, to : Proc, first : BOOLEAN]
    BY Zenon, <2>1 DEF NodeRecord
  <2>3. <<p, d.to>> \in Link /\ buffers[d.pool][d.buf] \in posted[<<p, d.to>>]
    BY Zenon, <2>1, <2>2 DEF NodeKept
  <2>4. buffers[d.pool][d.buf] # 0
    BY <2>3 DEF TypeOK, Uid
  <2>5. Feeds(d.pool, <<p, d.to>>)
    BY Zenon, <2>1, <2>2, <2>3, <2>4 DEF BuffersPosted
  <2>6. QED
    BY Zenon, <2>1, <2>2, <2>3, <2>4, <2>5 DEF DatagramFed
<1>3. PICK oo \in SUBSET [pool : Pool, buf : 1..NumBuffers, to : Proc, first : BOOLEAN] :
        oo = s.out \cup D
  BY Zenon, <1>2 DEF NodeRecord
<1>4. PICK n : n = resend_some(s, D) /\ n = [s EXCEPT !.out = oo]
  BY Zenon, <1>3 DEF resend_some, NodeRecord
<1>5. /\ n \in NodeRecord /\ n.peers = s.peers /\ n.out = oo /\ n.queue = s.queue
      /\ n.sending = s.sending /\ n.pushed = s.pushed /\ n.unacked = s.unacked
  BY Zenon, <1>4 DEF NodeRecord
<1>6. Ends(n) /\ \A d \in oo : DatagramFed(p, d)
  BY Zenon, <1>2, <1>3, <1>5 DEF Ends, NodeKept
<1>7. NodeKept(p, n)
  BY Zenon, <1>5, <1>6 DEF NodeKept
<1>8. QED
  BY Zenon, <1>4, <1>5, <1>7

\* What a step of the internal thread of p makes of its state s: it ends with resends
\* and with send_msg(), once or twice.
After(p, s, n) ==
  /\ NodeKept(p, n) /\ n.peers = s.peers
  /\ \A q \in Proc : s.unacked[q] \subseteq n.unacked[q]

\* The end of a pass of the loop keeps what a node may hold.
LEMMA Pass ==
  ASSUME TypeOK, BuffersPosted, NEW p \in Proc, NEW s, NodeKept(p, s)
  PROVE  /\ After(p, s, send_msg(p, s))
         /\ \A Q : \A D \in Choices(p, s, Q) :
              /\ After(p, s, send_msg(p, resend_some(s, D)))
              /\ After(p, s, send_msg(p, send_msg(p, resend_some(s, D))))
<1>1. \A n : NodeKept(p, n) => n \in NodeRecord
  BY Zenon DEF NodeKept
<1>2. \A n : NodeKept(p, n) => After(p, n, send_msg(p, n))
  BY Zenon, <1>1, SendMsg DEF After
<1>3. ASSUME NEW Q, NEW D \in Choices(p, s, Q)
      PROVE  /\ After(p, s, send_msg(p, resend_some(s, D)))
             /\ After(p, s, send_msg(p, send_msg(p, resend_some(s, D))))
  <2>1. PICK n : n = resend_some(s, D) /\ After(p, s, n)
    BY Zenon, <1>1, <1>3, Resend DEF After
  <2>2. PICK m : m = send_msg(p, n) /\ After(p, n, m)
    BY Zenon, <1>2, <2>1 DEF After
  <2>3. After(p, m, send_msg(p, m))
    BY Zenon, <1>2, <2>2 DEF After
  <2>4. After(p, s, m) /\ After(p, s, send_msg(p, m))
    BY Zenon, <2>1, <2>2, <2>3 DEF After
  <2>5. QED
    BY Zenon, <2>1, <2>2, <2>4
<1>4. QED
  BY Zenon, <1>2, <1>3

\* A step of one internal thread leaves the other processes alone.
LEMMA NodeStep ==
  ASSUME TypeOK, \A q \in Proc : NodeKept(q, node[q]),
         NEW p \in Proc, NEW n, NodeKept(p, n), Becomes(p, n), UNCHANGED <<buffers, posted>>
  PROVE  /\ node' \in [Proc -> NodeRecord]
         /\ \A q \in Proc : NodeKept(q, node[q])'
         /\ node'[p] = n /\ \A q \in Proc \ {p} : node'[q] = node[q]
<1>1. n \in NodeRecord
  BY Zenon DEF NodeKept
<1>2. /\ node' \in [Proc -> NodeRecord]
      /\ node'[p] = n /\ \A q \in Proc \ {p} : node'[q] = node[q]
  BY Zenon, <1>1 DEF Becomes, TypeOK
<1>3. \A q \in Proc : NodeKept(q, node'[q])
  BY Zenon, <1>2
<1>4. ASSUME NEW q \in Proc PROVE NodeKept(q, node[q])'
  BY <1>3 DEF NodeKept, EntryKept, DatagramFed
<1>5. QED
  BY Zenon, <1>2, <1>4

\* push() adds one item behind those that are there.
LEMMA Pushed ==
  ASSUME TypeOK, NEW p \in Proc, NEW item \in ItemRecord, push(p, item)
  PROVE  /\ recv_queue' \in [Proc -> Seq(ItemRecord)]
         /\ \A q \in Proc \ {p} : recv_queue'[q] = recv_queue[q]
         /\ Len(recv_queue'[p]) = Len(recv_queue[p]) + 1
         /\ recv_queue'[p][Len(recv_queue[p]) + 1] = item
         /\ \A i \in 1..Len(recv_queue[p]) : recv_queue'[p][i] = recv_queue[p][i]
         /\ \A k \in Link : Given(k) \subseteq Given(k)'
<1>1. PICK q \in Seq(ItemRecord) : q = recv_queue[p]
  BY Zenon DEF TypeOK
<1>2. PICK r \in Seq(ItemRecord) :
        /\ r = Append(q, item) /\ Len(r) = Len(q) + 1 /\ r[Len(q) + 1] = item
        /\ \A i \in 1..Len(q) : r[i] = q[i]
  <2>1. /\ Append(q, item) \in Seq(ItemRecord) /\ Len(Append(q, item)) = Len(q) + 1
        /\ Append(q, item)[Len(q) + 1] = item
        /\ \A i \in 1..Len(q) : Append(q, item)[i] = q[i]
    BY AppendProperties
  <2>2. QED
    BY Zenon, <2>1
<1>3. recv_queue' = [recv_queue EXCEPT ![p] = r]
  BY Zenon, <1>1, <1>2 DEF push
<1>4. /\ recv_queue' \in [Proc -> Seq(ItemRecord)] /\ recv_queue'[p] = r
      /\ \A x \in Proc \ {p} : recv_queue'[x] = recv_queue[x]
  BY Zenon, <1>3 DEF TypeOK
<1>5. ASSUME NEW k \in Link, NEW u \in Given(k) PROVE u \in Given(k)'
  <2>1. PICK i \in DOMAIN recv_queue[k[2]] : recv_queue[k[2]][i] = Item("recv", k[1], u)
    BY Zenon DEF Given
  <2>2. i \in DOMAIN recv_queue'[k[2]] /\ recv_queue'[k[2]][i] = recv_queue[k[2]][i]
    <3>1. CASE k[2] = p
      <4>1. i \in 1..Len(q) /\ i \in 1..Len(r)
        BY <1>1, <1>2, <2>1, <3>1
      <4>2. i \in DOMAIN r
        BY <4>1
      <4>3. QED
        BY Zenon, <1>1, <1>2, <1>4, <3>1, <4>1, <4>2
    <3>2. CASE k[2] # p
      BY Zenon, <1>4, <2>1, <3>2, Addresses
    <3>3. QED
      BY Zenon, <3>1, <3>2
  <2>3. QED
    BY Zenon, <2>1, <2>2 DEF Given, Item
<1>6. QED
  BY Zenon, <1>1, <1>2, <1>4, <1>5

\* A message that joins those under way is as true as the others.
LEMMA NetStep ==
  ASSUME NetTrue, \A k \in Link : posted[k] \subseteq posted'[k] /\ Given(k) \subseteq Given(k)',
         \A m \in net' \ net : MessageTrue(m)'
  PROVE  NetTrue'
<1> SUFFICES ASSUME NEW m \in net PROVE MessageTrue(m)'
  BY Zenon DEF NetTrue
<1>1. MessageTrue(m)
  BY Zenon DEF NetTrue
<1>2. \A k \in Link : \A u : u \in Given(k) => u \in Given(k)'
  BY Zenon
<1>3. QED
  BY Zenon, <1>1, <1>2 DEF MessageTrue

\* A process that has just started holds nothing.
LEMMA EmptyNode ==
  ASSUME NEW p \in Proc
  PROVE  /\ NewNode(p) \in NodeRecord /\ NodeKept(p, NewNode(p))
         /\ NewNode(p).peers = IF p = Server THEN {} ELSE {Server}
<1>1. PICK none \in [Proc -> SUBSET Nat] : none = [q \in Proc |-> {}]
  BY Zenon
<1>2. PICK at \in SUBSET Proc : at = IF p = Server THEN {} ELSE {Server}
  BY Zenon, Addresses
<1>3. PICK n : n = NewNode(p) /\ n = [queue |-> <<>>, peers |-> at, sending |-> FALSE,
                                      pushed |-> none, unacked |-> none, out |-> {}]
  BY Zenon, <1>1, <1>2 DEF NewNode
<1>4. /\ n \in NodeRecord
      /\ n.queue = <<>> /\ n.peers = at /\ n.sending = FALSE
      /\ n.pushed = none /\ n.unacked = none /\ n.out = {}
  BY <1>3 DEF NodeRecord
<1>5. NodeKept(p, n)
  BY <1>1, <1>2, <1>4 DEF NodeKept, Ends
<1>6. QED
  BY Zenon, <1>2, <1>3, <1>4, <1>5

\* The empty system.
LEMMA InitIInv == Init => IInv
<1> SUFFICES ASSUME Init PROVE IInv
  BY Zenon
<1>1. \A p \in Proc : NewNode(p) \in NodeRecord /\ NodeKept(p, NewNode(p))
  BY Zenon, EmptyNode
<1>2. TypeOK
  BY <1>1 DEF Init, TypeOK
<1>3. BuffersPosted
  BY GuaranteedAssumption, Addresses DEF Init, BuffersPosted
<1>4. \A p \in Proc : NodeKept(p, node[p])
  BY Zenon, <1>1 DEF Init
<1>5. NetTrue
  BY Zenon DEF Init, NetTrue
<1>6. \A p \in Proc : recv_queue[p] = <<>>
  BY Zenon DEF Init
<1>7. GivenKnown /\ OncePerSession
  BY <1>6 DEF GivenKnown, OncePerSession
<1>8. SenderKnown
  BY <1>6, Addresses DEF SenderKnown
<1>9. \A c \in node[Server].peers : Announced(c)
  BY Zenon, Addresses DEF Init, NewNode
<1>10. \A k \in Link : received[k] \subseteq Given(k)
  BY Zenon DEF Init
<1>11. QED
  BY Zenon, <1>2, <1>3, <1>4, <1>5, <1>7, <1>8, <1>9, <1>10 DEF IInv

\* async_send() takes a buffer nobody holds, so that every queued message keeps its own
\* (guaranteed_comm.cpp:118-133, 666-681).
LEMMA SendIInv ==
  ASSUME IInv, NEW p \in Proc, NEW l \in Pool, async_send(p, l)
  PROVE  IInv'
<1>1. PICK u \in Nat : u = uids[p] + 1 /\ u \in Uid /\ u # 0
  <2>1. load.posts \in [Proc -> 0..MaxUid] /\ MaxUid \in Nat
    BY Zenon, GuaranteedAssumption DEF IInv, TypeOK
  <2>2. uids[p] \in Nat /\ load.posts[p] \in 0..MaxUid /\ uids[p] < load.posts[p]
    BY Zenon, <2>1 DEF IInv, TypeOK, async_send
  <2>3. QED
    BY <2>1, <2>2 DEF Uid
<1>2. PICK i \in 1..NumBuffers : /\ ~Held(node[p], l, i)
                                 /\ buffers' = [buffers EXCEPT ![l][i] = u]
  BY Zenon, <1>1 DEF async_send, generate_uid
<1>3. /\ buffers' \in [Pool -> [1..NumBuffers -> Nat]]
      /\ buffers'[l][i] = u
      /\ \A m \in Pool, j \in 1..NumBuffers : m # l \/ j # i => buffers'[m][j] = buffers[m][j]
  BY Zenon, <1>1, <1>2 DEF IInv, TypeOK
<1>4. /\ uids' \in [Proc -> Nat] /\ uids'[p] = u
      /\ \A q \in Proc : q # p => uids'[q] = uids[q]
  BY Zenon, <1>1 DEF IInv, TypeOK, async_send
<1>5. l[1] = p
  BY Zenon DEF async_send
<1>6. /\ posted' \in [Link -> SUBSET Uid]
      /\ \A k \in Link : Feeds(l, k) => posted'[k] = posted[k] \cup {u}
      /\ \A k \in Link : ~Feeds(l, k) => posted'[k] = posted[k]
  <2>1. posted' = [k \in Link |-> IF l = k \/ l = <<k[1], All>> THEN posted[k] \cup {u} ELSE posted[k]]
    BY Zenon, <1>1 DEF async_send, generate_uid
  <2>2. QED
    BY Zenon, <1>1, <2>1 DEF IInv, TypeOK, Feeds
<1>7. /\ up' = up /\ received' = received /\ recv_queue' = recv_queue /\ load' = load /\ net' = net
  BY Zenon DEF async_send
<1>8. \A k \in Link : Feeds(l, k) => k[1] = p
  BY <1>5 DEF Feeds
<1>9. BuffersPosted'
  <2>1. \A x \in Proc : uids[x] \in Nat /\ uids'[x] \in Nat /\ uids[x] <= uids'[x]
    <3> SUFFICES ASSUME NEW x \in Proc PROVE uids[x] \in Nat /\ uids'[x] \in Nat /\ uids[x] <= uids'[x]
      BY Zenon
    <3>1. uids[x] \in Nat /\ uids'[x] \in Nat
      BY Zenon, <1>4 DEF IInv, TypeOK
    <3>2. CASE x = p
      BY <1>1, <1>4, <3>1, <3>2
    <3>3. CASE x # p
      BY <1>4, <3>1, <3>3
    <3>4. QED
      BY Zenon, <3>1, <3>2, <3>3
  <2>2. ASSUME NEW k \in Link, NEW v \in posted'[k] PROVE v <= uids'[k[1]]
    <3>1. k[1] \in Proc /\ v \in Nat
      BY <1>6, <2>2, Addresses DEF Uid
    <3>2. CASE v \in posted[k]
      BY <2>1, <3>1, <3>2 DEF IInv, BuffersPosted
    <3>3. CASE v \notin posted[k]
      BY <1>1, <1>4, <1>6, <1>8, <2>2, <3>3
    <3>4. QED
      BY Zenon, <3>2, <3>3
  <2>3. ASSUME NEW m \in Pool, NEW j \in 1..NumBuffers PROVE buffers'[m][j] <= uids'[m[1]]
    <3>1. m[1] \in Proc /\ buffers[m][j] \in Nat /\ buffers[m][j] <= uids[m[1]]
      BY Zenon, Addresses DEF IInv, BuffersPosted, TypeOK
    <3>2. CASE m = l /\ j = i
      BY <1>1, <1>3, <1>4, <1>5, <3>2
    <3>3. CASE ~(m = l /\ j = i)
      BY <1>3, <2>1, <3>1, <3>3
    <3>4. QED
      BY Zenon, <3>2, <3>3
  <2>4. ASSUME NEW m \in Pool, NEW j \in 1..NumBuffers, NEW k \in Link,
               k[1] = m[1], buffers'[m][j] # 0
        PROVE  Feeds(m, k) <=> buffers'[m][j] \in posted'[k]
    <3>1. CASE m = l /\ j = i
      <4>1. u \notin posted[k]
        BY <1>1, <1>5, <2>4, <3>1, Addresses DEF IInv, BuffersPosted, TypeOK
      <4>2. QED
        BY Zenon, <1>3, <1>6, <3>1, <4>1
    <3>2. CASE ~(m = l /\ j = i)
      <4>1. buffers'[m][j] = buffers[m][j] /\ buffers[m][j] <= uids[m[1]] /\ buffers[m][j] \in Nat
        BY Zenon, <1>3, <3>2 DEF IInv, BuffersPosted, TypeOK
      <4>2. Feeds(l, k) => buffers[m][j] # u
        BY <1>1, <1>8, <2>4, <4>1, Addresses DEF IInv, TypeOK
      <4>3. Feeds(m, k) <=> buffers[m][j] \in posted[k]
        BY Zenon, <2>4, <4>1 DEF IInv, BuffersPosted
      <4>4. QED
        BY Zenon, <1>6, <4>1, <4>2, <4>3
    <3>3. QED
      BY Zenon, <3>1, <3>2
  <2>5. QED
    BY Zenon, <2>2, <2>3, <2>4 DEF BuffersPosted, Feeds
<1>10. \A k \in Link : posted[k] \subseteq posted'[k]
  BY Zenon, <1>6
<1>11. PICK q \in Seq(Pool \X Nat) : q = Append(node[p].queue, <<l, u>>)
         /\ Len(q) = Len(node[p].queue) + 1 /\ q[Len(q)] = <<l, u>>
         /\ \A j \in 1..Len(node[p].queue) : q[j] = node[p].queue[j]
  <2>1. PICK S : S = Pool \X Nat
    BY Zenon
  <2>2. PICK o \in Seq(S) : o = node[p].queue
    BY Zenon, <2>1 DEF IInv, TypeOK, NodeRecord
  <2>3. PICK e \in S : e = <<l, u>>
    BY Zenon, <2>1
  <2>4. /\ Append(o, e) \in Seq(S) /\ Len(Append(o, e)) = Len(o) + 1
        /\ Append(o, e)[Len(o) + 1] = e /\ \A j \in 1..Len(o) : Append(o, e)[j] = o[j]
    BY <2>2, <2>3, AppendProperties
  <2>5. QED
    BY Zenon, <2>1, <2>2, <2>3, <2>4
<1>12. PICK n : n = [node[p] EXCEPT !.queue = q] /\ node' = [node EXCEPT ![p] = n]
  BY Zenon, <1>1, <1>11 DEF async_send, generate_uid, IInv, TypeOK
<1>13. /\ n \in NodeRecord /\ n.peers = node[p].peers /\ n.out = node[p].out /\ n.queue = q
       /\ n.sending = node[p].sending /\ n.pushed = node[p].pushed /\ n.unacked = node[p].unacked
  <2>1. node[p] \in NodeRecord
    BY Zenon DEF IInv, TypeOK
  <2>2. QED
    BY Zenon, <1>11, <1>12, <2>1 DEF NodeRecord
<1>14. /\ node' \in [Proc -> NodeRecord] /\ node'[p] = n
       /\ \A x \in Proc : x # p => node'[x] = node[x]
  BY Zenon, <1>12, <1>13 DEF IInv, TypeOK
<1>15. ASSUME NEW x \in Proc, NEW d \in node[x].out PROVE DatagramFed(x, d)'
  <2>1. DatagramFed(x, d) /\ d.pool \in Pool /\ d.buf \in 1..NumBuffers
    BY DEF IInv, NodeKept, TypeOK, NodeRecord
  <2>2. buffers'[d.pool][d.buf] # 0
    BY Zenon, <1>1, <1>3, <2>1 DEF DatagramFed
  <2>3. QED
    BY Zenon, <2>1, <2>2 DEF DatagramFed, Feeds
<1>16. ASSUME NEW x \in Proc, NEW j \in DOMAIN node[x].queue, NEW e, e = node[x].queue[j]
       PROVE  EntryKept(x, e)'
  <2>1. EntryKept(x, e) /\ e \in Pool \X Nat
    <3>1. node[x].queue \in Seq(Pool \X Nat)
      BY Zenon DEF IInv, TypeOK, NodeRecord
    <3>2. QED
      BY <1>16, <3>1 DEF IInv, NodeKept
  <2>2. PICK h \in 1..NumBuffers : buffers[e[1]][h] = e[2]
    BY Zenon, <2>1 DEF EntryKept
  <2>3. e[1] # l \/ h # i
    <3> SUFFICES ASSUME e[1] = l, h = i PROVE FALSE
      BY Zenon
    <3>1. x = p /\ e = <<l, buffers[l][i]>>
      BY <1>5, <2>1, <2>2 DEF EntryKept
    <3>2. QED
      BY Zenon, <1>2, <1>16, <3>1 DEF Held
  <2>4. buffers'[e[1]][h] = e[2]
    BY Zenon, <1>3, <2>1, <2>2, <2>3
  <2>5. QED
    BY Zenon, <2>1, <2>4 DEF EntryKept
<1>17. ASSUME NEW j \in DOMAIN q, NEW e, e = q[j] PROVE EntryKept(p, e)'
  <2>1. j \in 1..Len(q) /\ node[p].queue \in Seq(Pool \X Nat)
    BY SMTT(30) DEF IInv, TypeOK, NodeRecord
  <2>2. CASE j = Len(q)
    <3>1. e = <<l, u>>
      BY Zenon, <1>11, <1>17, <2>2
    <3>2. QED
      BY Zenon, <1>1, <1>3, <1>5, <3>1 DEF EntryKept
  <2>3. CASE j # Len(q)
    <3>1. j \in DOMAIN node[p].queue /\ e = node[p].queue[j]
      BY <1>11, <1>17, <2>1, <2>3
    <3>2. QED
      BY Zenon, <1>16, <3>1
  <2>4. QED
    BY Zenon, <2>2, <2>3
<1>18. ASSUME NEW x \in Proc PROVE NodeKept(x, node[x])'
  <2>1. PICK o \in NodeRecord : o = node[x] /\ NodeKept(x, o)
    BY Zenon DEF IInv, NodeKept
  <2>2. PICK m \in NodeRecord : m = node'[x]
    BY Zenon, <1>14
  <2>3. /\ m.peers = o.peers /\ m.out = o.out /\ m.sending = o.sending
        /\ m.pushed = o.pushed /\ m.unacked = o.unacked
    BY Zenon, <1>13, <1>14, <2>1, <2>2
  <2>4. \A j \in DOMAIN m.queue : EntryKept(x, m.queue[j])'
    <3>1. CASE x = p
      BY Zenon, <1>13, <1>14, <1>17, <2>2, <3>1
    <3>2. CASE x # p
      BY Zenon, <1>14, <1>16, <2>2, <3>2
    <3>3. QED
      BY Zenon, <3>1, <3>2
  <2>5. \A y \in Proc : \A v \in m.pushed[y] \cup m.unacked[y] :
          <<x, y>> \in Link /\ v \in posted'[<<x, y>>]
    BY Zenon, <1>10, <2>1, <2>3 DEF NodeKept
  <2>6. \A d \in m.out : DatagramFed(x, d)'
    BY Zenon, <1>15, <2>1, <2>3
  <2>7. NodeKept(x, m)'
    BY Zenon, <2>1, <2>3, <2>4, <2>5, <2>6 DEF NodeKept, Ends
  <2>8. QED
    BY Zenon, <2>2, <2>7
<1>19. TypeOK'
  BY Zenon, <1>3, <1>4, <1>6, <1>7, <1>14 DEF IInv, TypeOK
<1>20. NetTrue'
  <2>1. \A k \in Link : Given(k)' = Given(k)
    BY Zenon, <1>7 DEF Given
  <2>2. QED
    BY Zenon, <1>7, <1>10, <2>1, NetStep DEF IInv
<1>21. /\ GivenKnown' /\ OncePerSession' /\ SenderKnown'
       /\ \A k \in Link : received'[k] \subseteq Given(k)'
  BY ZenonT(60), <1>7 DEF IInv, GivenKnown, OncePerSession, SenderKnown, Given
<1>22. node'[Server].peers = node[Server].peers
  BY Zenon, <1>13, <1>14, Addresses
<1>23. \A c \in node'[Server].peers : Announced(c)'
  BY Zenon, <1>7, <1>22 DEF IInv, Announced
<1>24. QED
  BY Zenon, <1>9, <1>18, <1>19, <1>20, <1>21, <1>23 DEF IInv

\* A step of an internal thread that gives its user nothing.
LEMMA QuietStep ==
  ASSUME IInv, NEW p \in Proc, NEW s, NodeKept(p, s), s.peers = node[p].peers,
         NEW n, After(p, s, n), Becomes(p, n),
         up' \in [Proc -> {"new", "up", "dead"}],
         UNCHANGED <<uids, buffers, received, recv_queue, load, posted>>,
         \A m \in net' \ net : MessageTrue(m)'
  PROVE  IInv'
<1>1. /\ node' \in [Proc -> NodeRecord] /\ \A q \in Proc : NodeKept(q, node[q])'
      /\ node'[p] = n /\ \A q \in Proc \ {p} : node'[q] = node[q]
  BY Zenon, NodeStep DEF After, IInv
<1>2. TypeOK'
  BY Zenon, <1>1 DEF IInv, TypeOK
<1>3. BuffersPosted'
  BY Zenon DEF IInv, BuffersPosted, Feeds
<1>4. \A k \in Link : Given(k)' = Given(k)
  BY Zenon DEF Given
<1>5. NetTrue'
  BY Zenon, <1>4, NetStep DEF IInv
<1>6. /\ GivenKnown' /\ OncePerSession' /\ SenderKnown'
      /\ \A k \in Link : received'[k] \subseteq Given(k)'
  BY <1>4 DEF IInv, GivenKnown, OncePerSession, SenderKnown
<1>7. node'[Server].peers = node[Server].peers
  BY Zenon, <1>1, Addresses DEF After
<1>8. \A c \in node'[Server].peers : Announced(c)'
  BY Zenon, <1>7 DEF IInv, Announced
<1>9. QED
  BY Zenon, <1>1, <1>2, <1>3, <1>5, <1>6, <1>8 DEF IInv

\* Only what is queued is acknowledged, and it is not queued again before the client
\* has a new session (guaranteed_comm.cpp:377-393, 531-562).
LEMMA MsgIInv ==
  ASSUME IInv, NEW k \in Link, NEW u \in Uid, NEW lost \in BOOLEAN, received_msg(k, u, lost)
  PROVE  IInv'
<1>1. PICK q \in Proc, p \in Proc : q = k[1] /\ p = k[2] /\ k = <<q, p>>
  BY Addresses
<1>2. PICK n : After(p, node[p], n) /\ Becomes(p, n)
  BY Zenon, <1>1, Pass DEF received_msg, IInv
<1>3. UNCHANGED <<up, uids, buffers, load, posted>> /\ q \in node[p].peers
  BY Zenon, <1>1 DEF received_msg
<1>4. net' \ net \subseteq {Ack(k, u)}
  BY Zenon DEF received_msg, send_ack, Transmit
<1>5. MessageTrue(Ack(k, u))' <=> u \in Given(k)'
  BY Zenon DEF MessageTrue, Ack
<1>6. CASE already_received(k, u)
  <2>1. UNCHANGED <<received, recv_queue>>
    BY Zenon, <1>6 DEF received_msg
  <2>2. u \in Given(k)'
    BY Zenon, <1>6, <2>1 DEF already_received, Given, IInv
  <2>3. QED
    BY Zenon, <1>2, <1>3, <1>4, <1>5, <2>1, <2>2, QuietStep DEF IInv, TypeOK
<1>7. CASE ~already_received(k, u)
  <2>1. PICK item \in ItemRecord : item = Item("recv", q, u) /\ push(p, item)
    BY <1>1, <1>7 DEF received_msg, Item, ItemRecord, Uid
  <2>2. received' = [received EXCEPT ![k] = @ \cup {u}] /\ u \notin received[k]
    BY Zenon, <1>7 DEF received_msg, already_received
  <2>3. /\ received' \in [Link -> SUBSET Uid] /\ received'[k] = received[k] \cup {u}
        /\ \A j \in Link : j # k => received'[j] = received[j]
    BY Zenon, <2>2 DEF IInv, TypeOK
  <2>4. PICK o \in Seq(ItemRecord), r \in Seq(ItemRecord) :
          /\ o = recv_queue[p] /\ r = recv_queue'[p]
          /\ Len(r) = Len(o) + 1 /\ r[Len(r)] = item
          /\ \A i \in 1..Len(o) : r[i] = o[i]
          /\ \A x \in Proc \ {p} : recv_queue'[x] = recv_queue[x]
          /\ recv_queue' \in [Proc -> Seq(ItemRecord)]
    BY <2>1, Pushed DEF IInv, TypeOK
  <2>5. /\ Len(o) \in Nat /\ DOMAIN o = 1..Len(o) /\ DOMAIN r = 1..(Len(o) + 1)
         /\ Len(r) = Len(o) + 1
    BY <2>4
  <2>6. \A j \in Link : Given(j) \subseteq Given(j)'
    BY Zenon, <2>1, Pushed DEF IInv
  <2>7. u \in Given(k)'
    BY <1>1, <2>1, <2>4 DEF Given, Item
  <2>8. \A j \in Link : received'[j] \subseteq Given(j)'
    BY Zenon, <2>3, <2>6, <2>7 DEF IInv
  <2>9. GivenKnown'
    <3> SUFFICES ASSUME NEW x \in Proc, NEW i \in DOMAIN recv_queue'[x],
                        NEW it, it = recv_queue'[x][i], it.kind = "recv"
                 PROVE  /\ <<it.from, x>> \in Link
                        /\ \/ it.uid \in received'[<<it.from, x>>]
                           \/ \E h \in i..Len(recv_queue'[x]) :
                                recv_queue'[x][h] = Item("accepted", it.from, 0)
      BY Zenon DEF GivenKnown, Item
    <3>1. CASE x # p
      <4>1. recv_queue'[x] = recv_queue[x]
        BY Zenon, <2>4, <3>1
      <4>2. /\ <<it.from, x>> \in Link
            /\ \/ it.uid \in received[<<it.from, x>>]
               \/ \E h \in i..Len(recv_queue[x]) :
                    recv_queue[x][h] = Item("accepted", it.from, 0)
        BY Zenon, <4>1 DEF IInv, GivenKnown
      <4>3. QED
        BY Zenon, <1>1, <2>3, <3>1, <4>1, <4>2
    <3>2. CASE x = p /\ i # Len(r)
      <4>1. i \in DOMAIN o /\ it = o[i]
        BY <2>4, <3>2
      <4>2. /\ <<it.from, p>> \in Link
            /\ \/ it.uid \in received[<<it.from, p>>]
               \/ \E h \in i..Len(o) : o[h] = Item("accepted", it.from, 0)
        BY Zenon, <2>4, <4>1 DEF IInv, GivenKnown
      <4>3. \A h \in i..Len(o) : h \in i..Len(r) /\ r[h] = o[h]
        BY <2>4, <4>1
      <4>4. QED
        BY Zenon, <2>3, <2>4, <3>2, <4>2, <4>3
    <3>3. CASE x = p /\ i = Len(r)
      <4>1. it.from = q /\ it.uid = u
        BY <2>1, <2>4, <3>3 DEF Item
      <4>2. QED
        BY Zenon, <1>1, <2>3, <3>3, <4>1
    <3>4. QED
      BY Zenon, <3>1, <3>2, <3>3
  <2>10. OncePerSession'
    <3> SUFFICES ASSUME NEW x \in Proc, NEW i \in DOMAIN recv_queue'[x], NEW j \in DOMAIN recv_queue'[x],
                        NEW it, it = recv_queue'[x][i], i < j, it.kind = "recv", it = recv_queue'[x][j]
                 PROVE  \E h \in i..j : recv_queue'[x][h] = Item("accepted", it.from, 0)
      BY DEF OncePerSession, Item
    <3>1. CASE x # p
      <4>1. recv_queue'[x] = recv_queue[x]
        BY Zenon, <2>4, <3>1
      <4>2. /\ i \in DOMAIN recv_queue[x] /\ it = recv_queue[x][i]
            /\ j \in DOMAIN recv_queue[x] /\ it = recv_queue[x][j]
        BY Zenon, <4>1
      <4>3. \E h \in i..j : recv_queue[x][h] = Item("accepted", it.from, 0)
        BY Zenon, <4>2 DEF IInv, OncePerSession
      <4>4. QED
        BY Zenon, <4>1, <4>3
    <3>2. CASE x = p /\ j # Len(r)
      <4>1. i \in DOMAIN o /\ it = o[i] /\ j \in DOMAIN o /\ it = o[j]
        <5>1. i \in 1..Len(o) /\ j \in 1..Len(o)
          BY <2>4, <2>5, <3>2
        <5>2. it = r[i] /\ it = r[j]
          BY Zenon, <2>4, <3>2
        <5>3. QED
          BY Zenon, <2>4, <2>5, <5>1, <5>2
      <4>2. \E h \in i..j : o[h] = Item("accepted", it.from, 0)
        BY ZenonT(60), <2>4, <4>1 DEF IInv, OncePerSession
      <4>3. \A h \in i..j : r[h] = o[h]
        BY <2>4, <4>1
      <4>4. QED
        BY Zenon, <2>4, <3>2, <4>2, <4>3
    <3>3. CASE x = p /\ j = Len(r)
      <4>1. i \in DOMAIN o /\ it = o[i] /\ it = item
        <5>1. i \in 1..Len(o)
          BY <2>4, <2>5, <3>3
        <5>2. it = r[i] /\ it = r[Len(r)]
          BY Zenon, <2>4, <3>3
        <5>3. QED
          BY Zenon, <2>4, <2>5, <5>1, <5>2
      <4>2. it.uid \notin received[<<it.from, p>>]
        BY <1>1, <2>1, <2>2, <4>1 DEF Item
      <4>3. \E h \in i..Len(o) : o[h] = Item("accepted", it.from, 0)
        BY ZenonT(60), <2>4, <4>1, <4>2 DEF IInv, GivenKnown
      <4>4. \A h \in i..Len(o) : h \in i..j /\ r[h] = o[h]
        BY <2>4, <3>3, <4>1
      <4>5. QED
        BY Zenon, <2>4, <3>3, <4>3, <4>4
    <3>4. QED
      BY Zenon, <3>1, <3>2, <3>3
  <2>11. ASSUME NEW c, Announced(c) PROVE Announced(c)'
    <3>1. CASE p # Server
      BY ZenonT(60), <2>4, <2>11, <3>1, Addresses DEF Announced
    <3>2. CASE p = Server
      <4>1. PICK h \in DOMAIN o : /\ o[h] = Item("accepted", c, 0)
                                  /\ \A j \in h..Len(o) : o[j] # Item("disconnected", c, 0)
        BY Zenon, <2>4, <2>11, <3>2 DEF Announced
      <4>2. /\ h \in DOMAIN r /\ r[h] = Item("accepted", c, 0)
            /\ \A j \in h..Len(r) : r[j] # Item("disconnected", c, 0)
        <5>1. h \in DOMAIN r /\ r[h] = Item("accepted", c, 0)
          BY <2>4, <2>5, <4>1
        <5>2. r[Len(r)] # Item("disconnected", c, 0)
          BY <2>1, <2>4 DEF Item
        <5>3. ASSUME NEW j \in h..Len(r), j # Len(r) PROVE r[j] # Item("disconnected", c, 0)
          <6>1. j \in h..Len(o) /\ r[j] = o[j]
            BY <2>4, <2>5, <4>1, <5>3
          <6>2. QED
            BY Zenon, <4>1, <6>1
        <5>4. QED
          BY Zenon, <5>1, <5>2, <5>3
      <4>3. QED
        BY Zenon, <2>4, <3>2, <4>2 DEF Announced, Item
    <3>3. QED
      BY Zenon, <3>1, <3>2
  <2>12. SenderKnown'
    <3>1. CASE p # Server
      <4>1. recv_queue'[Server] = recv_queue[Server]
        BY Zenon, <2>4, <3>1, Addresses
      <4>2. QED
        BY Zenon, <4>1 DEF IInv, SenderKnown, Item
    <3>2. CASE p = Server
      <4> SUFFICES ASSUME NEW i \in DOMAIN r, r[i].kind = "recv"
                   PROVE  \E h \in 1..i : /\ r[h] = Item("accepted", r[i].from, 0)
                                          /\ \A j \in h..i : r[j] # Item("disconnected", r[i].from, 0)
        BY Zenon, <2>4, <3>2 DEF SenderKnown, Item
      <4>1. CASE i # Len(r)
        <5>1. i \in DOMAIN o /\ \A j \in 1..i : r[j] = o[j]
          BY <2>4, <4>1
        <5>2. \E h \in 1..i : /\ o[h] = Item("accepted", o[i].from, 0)
                              /\ \A j \in h..i : o[j] # Item("disconnected", o[i].from, 0)
          BY <2>4, <3>2, <5>1 DEF IInv, SenderKnown
        <5>3. QED
          BY <5>1, <5>2
      <4>2. CASE i = Len(r)
        <5>1. Announced(q)
          BY Zenon, <1>3, <3>2 DEF IInv
        <5>2. PICK h \in DOMAIN o : /\ o[h] = Item("accepted", q, 0)
                                    /\ \A j \in h..Len(o) : o[j] # Item("disconnected", q, 0)
          BY Zenon, <2>4, <3>2, <5>1 DEF Announced
        <5>3. r[i].from = q /\ r[i] # Item("disconnected", q, 0)
          BY <2>1, <2>4, <4>2 DEF Item
        <5>4. /\ h \in 1..i /\ r[h] = Item("accepted", q, 0)
              /\ \A j \in h..i : r[j] # Item("disconnected", q, 0)
          <6>1. h \in 1..i /\ r[h] = Item("accepted", q, 0)
            BY <2>4, <2>5, <4>2, <5>2
          <6>2. ASSUME NEW j \in h..i PROVE r[j] # Item("disconnected", q, 0)
            <7>1. CASE j = i
              BY Zenon, <5>3, <7>1
            <7>2. CASE j # i
              <8>1. j \in h..Len(o) /\ j \in 1..Len(o)
                BY <2>5, <4>2, <5>2, <7>2
              <8>2. QED
                BY Zenon, <2>4, <5>2, <8>1
            <7>3. QED
              BY Zenon, <7>1, <7>2
          <6>3. QED
            BY Zenon, <6>1, <6>2
        <5>5. QED
          BY Zenon, <5>3, <5>4
      <4>3. QED
        BY Zenon, <4>1, <4>2
    <3>3. QED
      BY Zenon, <3>1, <3>2
  <2>13. /\ node' \in [Proc -> NodeRecord] /\ \A x \in Proc : NodeKept(x, node[x])'
         /\ node'[p] = n /\ \A x \in Proc \ {p} : node'[x] = node[x]
    BY Zenon, <1>2, <1>3, NodeStep DEF After, IInv
  <2>14. node'[Server].peers = node[Server].peers
    BY Zenon, <1>2, <2>13, Addresses DEF After
  <2>15. \A c \in node'[Server].peers : Announced(c)'
    BY Zenon, <2>11, <2>14 DEF IInv
  <2>16. NetTrue'
    BY Zenon, <1>3, <1>4, <1>5, <2>6, <2>7, NetStep DEF IInv
  <2>17. TypeOK' /\ BuffersPosted'
    BY <1>3, <2>3, <2>4, <2>13 DEF IInv, TypeOK, BuffersPosted, Feeds
  <2>18. QED
    BY Zenon, <2>8, <2>9, <2>10, <2>12, <2>13, <2>15, <2>16, <2>17 DEF IInv
<1>8. QED
  BY Zenon, <1>6, <1>7

\* s is what an acknowledgement of u by q leaves of the node of p.
Acked(p, q, u, s) ==
  /\ NodeKept(p, s) /\ s.peers = node[p].peers
  /\ s.unacked[q] = node[p].unacked[q] \ {u}
  /\ \A x \in Proc \ {q} : s.unacked[x] = node[p].unacked[x]

\* s is what is left of the node of p when the socket has taken a datagram.
Taken(p, s) ==
  /\ NodeKept(p, s) /\ s.peers = node[p].peers /\ s.unacked = node[p].unacked

\* An acknowledgement takes a message from one resender (guaranteed_comm.cpp:232-239).
LEMMA AckKept ==
  ASSUME TypeOK, NEW p \in Proc, NEW q \in Proc, NEW u, NodeKept(p, node[p])
  PROVE  Acked(p, q, u, ack(node[p], q, u))
<1>1. PICK s \in NodeRecord : s = node[p]
  BY Zenon DEF NodeKept
<1>2. PICK rest \in [Proc -> SUBSET Nat] :
        /\ rest = [s.unacked EXCEPT ![q] = @ \ {u}] /\ rest[q] = s.unacked[q] \ {u}
        /\ \A x \in Proc \ {q} : rest[x] = s.unacked[x]
  <2>1. PICK f \in [Proc -> SUBSET Nat] : f = s.unacked
    BY Zenon DEF NodeRecord
  <2>2. [f EXCEPT ![q] = @ \ {u}] \in [Proc -> SUBSET Nat]
    BY Zenon
  <2>3. QED
    BY Zenon, <2>1, <2>2
<1>3. PICK n : n = ack(node[p], q, u) /\ n = [s EXCEPT !.unacked = rest]
  BY Zenon, <1>1, <1>2 DEF ack, NodeRecord
<1>4. /\ n \in NodeRecord /\ n.peers = s.peers /\ n.out = s.out /\ n.queue = s.queue
      /\ n.sending = s.sending /\ n.pushed = s.pushed /\ n.unacked = rest
  BY Zenon, <1>3 DEF NodeRecord
<1>5. \A x \in Proc : rest[x] \subseteq s.unacked[x]
  BY Zenon, <1>2
<1>6. \A x \in Proc \ n.peers : n.unacked[x] = {}
  BY Zenon, <1>1, <1>4, <1>5 DEF NodeKept
<1>7. NodeKept(p, n)
  BY Zenon, <1>1, <1>4, <1>5, <1>6 DEF NodeKept, Ends
<1>8. QED
  BY <1>1, <1>2, <1>3, <1>4, <1>7 DEF Acked

\* received(), for an acknowledgement.
LEMMA AckIInv ==
  ASSUME IInv, NEW k \in Link, NEW u \in Uid, received_ack(k, u)
  PROVE  IInv'
<1>1. PICK p \in Proc, q \in Proc : p = k[1] /\ q = k[2]
  BY Zenon, Addresses
<1>2. PICK s : s = ack(node[p], q, u) /\ NodeKept(p, s) /\ s.peers = node[p].peers
  <2>1. TypeOK /\ NodeKept(p, node[p])
    BY Zenon DEF IInv
  <2>2. Acked(p, q, u, ack(node[p], q, u))
    BY Zenon, <2>1, AckKept
  <2>3. QED
    BY Zenon, <2>2 DEF Acked
<1>3. PICK n : After(p, s, n) /\ Becomes(p, n)
  BY Zenon, <1>1, <1>2, Pass DEF received_ack, IInv
<1>4. UNCHANGED <<up, uids, buffers, net, received, recv_queue, load, posted>>
  BY Zenon DEF received_ack
<1>5. QED
  BY Zenon, <1>2, <1>3, <1>4, QuietStep DEF IInv, TypeOK

\* What is left when the socket has taken datagram d: sending ends with the last copy.
LEMMA SentKept ==
  ASSUME TypeOK, NEW p \in Proc, NodeKept(p, node[p]), NEW d \in node[p].out,
         NEW over \in BOOLEAN,
         over <=> /\ d.first /\ d.pool[2] \in {Server, All}
                  /\ ~\E e \in node[p].out \ {d} : e.first /\ e.pool = d.pool /\ e.buf = d.buf
  PROVE  Taken(p, [node[p] EXCEPT !.out = node[p].out \ {d}, !.sending = @ /\ ~over])
<1>1. PICK o \in NodeRecord : o = node[p]
  BY Zenon DEF NodeKept
<1>2. PICK rest \in SUBSET [pool : Pool, buf : 1..NumBuffers, to : Proc, first : BOOLEAN] :
        rest = o.out \ {d}
  BY Zenon DEF NodeRecord
<1>3. PICK waits \in BOOLEAN : waits = (o.sending /\ ~over)
  <2>1. (o.sending /\ ~over) \in BOOLEAN
    BY Zenon
  <2>2. QED
    BY <2>1, Zenon
<1>4. PICK s : /\ s = [node[p] EXCEPT !.out = node[p].out \ {d}, !.sending = @ /\ ~over]
               /\ s = [o EXCEPT !.out = rest, !.sending = waits]
  BY Zenon, <1>1, <1>2, <1>3 DEF NodeRecord
<1>5. /\ s \in NodeRecord /\ s.peers = o.peers /\ s.out = rest /\ s.queue = o.queue
      /\ s.sending = waits /\ s.pushed = o.pushed /\ s.unacked = o.unacked
  BY Zenon, <1>4 DEF NodeRecord
<1>6. Ends(s)
  <2> SUFFICES ASSUME waits PROVE \E e \in rest : e.first /\ e.pool[2] \in {Server, All}
    BY Zenon, <1>5 DEF Ends
  <2>1. PICK e \in o.out : e.first /\ e.pool[2] \in {Server, All}
    BY Zenon, <1>1, <1>3 DEF NodeKept, Ends
  <2>2. CASE e # d
    BY Zenon, <1>2, <2>1, <2>2
  <2>3. CASE e = d
    <3>1. PICK x \in node[p].out \ {d} : x.first /\ x.pool = d.pool /\ x.buf = d.buf
      BY Zenon, <1>3, <2>1, <2>3
    <3>2. QED
      BY Zenon, <1>1, <1>2, <2>1, <2>3, <3>1
  <2>4. QED
    BY Zenon, <2>2, <2>3
<1>7. NodeKept(p, s)
  BY Zenon, <1>1, <1>2, <1>5, <1>6 DEF NodeKept
<1>8. QED
  BY Zenon, <1>1, <1>4, <1>5, <1>7 DEF Taken

\* A datagram carries a message of its link: its buffer may be in use again, by a
\* message of the same pool (guaranteed_comm.cpp:188-194, udp_configuration.cpp:486).
LEMMA SentIInv ==
  ASSUME IInv, NEW p \in Proc, NEW lost \in BOOLEAN, NEW d \in node[p].out, sent(p, d, lost)
  PROVE  IInv'
<1>1. PICK over \in BOOLEAN :
        over <=> /\ d.first /\ d.pool[2] \in {Server, All}
                 /\ ~\E e \in node[p].out \ {d} : e.first /\ e.pool = d.pool /\ e.buf = d.buf
  BY Zenon
<1>2. PICK s : /\ s = [node[p] EXCEPT !.out = node[p].out \ {d}, !.sending = @ /\ ~over]
               /\ NodeKept(p, s) /\ s.peers = node[p].peers
  <2>1. TypeOK /\ NodeKept(p, node[p])
    BY Zenon DEF IInv
  <2>2. Taken(p, [node[p] EXCEPT !.out = node[p].out \ {d}, !.sending = @ /\ ~over])
    BY Zenon, <1>1, <2>1, SentKept
  <2>3. QED
    BY Zenon, <2>2 DEF Taken
<1>3. PICK n : After(p, s, n) /\ Becomes(p, n)
  BY Zenon, <1>1, <1>2, Pass DEF sent, IInv
<1>4. UNCHANGED <<up, uids, buffers, received, recv_queue, load, posted>>
  BY Zenon DEF sent
<1>5. MessageTrue(Msg(<<p, d.to>>, buffers[d.pool][d.buf]))'
  <2>1. DatagramFed(p, d) /\ d.pool \in Pool /\ d.buf \in 1..NumBuffers
    BY DEF IInv, NodeKept, TypeOK, NodeRecord
  <2>2. buffers[d.pool][d.buf] \in posted[<<p, d.to>>]
    BY Zenon, <2>1 DEF IInv, BuffersPosted, DatagramFed
  <2>3. QED
    BY Zenon, <1>4, <2>1, <2>2 DEF MessageTrue, Msg, DatagramFed
<1>6. \A m \in net' \ net : MessageTrue(m)'
  BY Zenon, <1>4, <1>5 DEF sent, Transmit
<1>7. QED
  BY Zenon, <1>2, <1>3, <1>4, <1>6, QuietStep DEF IInv, TypeOK

\* tick().
LEMMA TickIInv ==
  ASSUME IInv, NEW p \in Proc, NEW D, tick(p, D)
  PROVE  IInv'
<1>1. PICK n : After(p, node[p], n) /\ Becomes(p, n)
  BY Zenon, Pass DEF tick, IInv
<1>2. UNCHANGED <<up, uids, buffers, net, received, recv_queue, load, posted>>
  BY Zenon DEF tick
<1>3. QED
  BY Zenon, <1>1, <1>2, QuietStep DEF IInv, TypeOK

\* A client that starts has nothing to say but Connect.
LEMMA StartIInv ==
  ASSUME IInv, NEW c \in Client, NEW lost \in BOOLEAN, Start(c, lost)
  PROVE  IInv'
<1>1. c \in Proc
  BY Zenon DEF Proc
<1>2. After(c, node[c], node[c]) /\ Becomes(c, node[c])
  BY Zenon, <1>1 DEF After, Becomes, IInv, TypeOK, Start
<1>3. UNCHANGED <<uids, buffers, received, recv_queue, load, posted>>
  BY Zenon DEF Start
<1>4. up' \in [Proc -> {"new", "up", "dead"}]
  BY Zenon DEF Start, IInv, TypeOK
<1>5. \A m \in net' \ net : MessageTrue(m)'
  BY DEF Start, Transmit, Connect, MessageTrue
<1>6. QED
  BY Zenon, <1>1, <1>2, <1>3, <1>4, <1>5, QuietStep DEF IInv

\* A client that ends loses what it holds.
LEMMA DieIInv ==
  ASSUME IInv, NEW c \in Client, Die(c)
  PROVE  IInv'
<1>1. c \in Proc /\ c # Server
  BY Zenon, GuaranteedAssumption DEF Proc
<1>2. NodeKept(c, NewNode(c)) /\ NewNode(c).peers = node[c].peers
  BY Zenon, <1>1, EmptyNode DEF IInv, NodeKept
<1>3. After(c, NewNode(c), NewNode(c)) /\ Becomes(c, NewNode(c))
  BY Zenon, <1>2 DEF After, Becomes, Die
<1>4. UNCHANGED <<uids, buffers, received, recv_queue, load, posted>>
  BY Zenon DEF Die
<1>5. up' \in [Proc -> {"new", "up", "dead"}]
  BY Zenon DEF Die, IInv, TypeOK
<1>6. net' \subseteq net
  BY Zenon DEF Die
<1>7. QED
  BY Zenon, <1>1, <1>2, <1>3, <1>4, <1>5, <1>6, QuietStep

\* An item that is no message leaves what was said of the messages as it is.
LEMMA Notice ==
  ASSUME TypeOK, OncePerSession, SenderKnown, NEW item \in ItemRecord, item.kind # "recv",
         push(Server, item)
  PROVE  OncePerSession' /\ SenderKnown'
<1>1. PICK o \in Seq(ItemRecord), r \in Seq(ItemRecord) :
        /\ o = recv_queue[Server] /\ r = recv_queue'[Server]
        /\ Len(r) = Len(o) + 1 /\ r[Len(r)] = item
        /\ \A i \in 1..Len(o) : r[i] = o[i]
        /\ \A x \in Proc \ {Server} : recv_queue'[x] = recv_queue[x]
        /\ recv_queue' \in [Proc -> Seq(ItemRecord)]
  BY Addresses, Pushed DEF TypeOK
<1>2. /\ Len(o) \in Nat /\ DOMAIN o = 1..Len(o) /\ DOMAIN r = 1..(Len(o) + 1)
      /\ Len(r) = Len(o) + 1
  BY <1>1
<1>3. \A i \in DOMAIN r : r[i].kind = "recv" => i \in 1..Len(o) /\ r[i] = o[i]
  BY <1>1, <1>2
<1>4. OncePerSession'
  <2> SUFFICES ASSUME NEW x \in Proc, NEW i \in DOMAIN recv_queue'[x], NEW j \in DOMAIN recv_queue'[x],
                      NEW it, it = recv_queue'[x][i], i < j, it.kind = "recv", it = recv_queue'[x][j]
               PROVE  \E h \in i..j : recv_queue'[x][h] = Item("accepted", it.from, 0)
    BY DEF OncePerSession, Item
  <2>1. CASE x # Server
    <3>1. recv_queue'[x] = recv_queue[x]
      BY Zenon, <1>1, <2>1
    <3>2. /\ i \in DOMAIN recv_queue[x] /\ it = recv_queue[x][i]
          /\ j \in DOMAIN recv_queue[x] /\ it = recv_queue[x][j]
      BY Zenon, <3>1
    <3>3. \E h \in i..j : recv_queue[x][h] = Item("accepted", it.from, 0)
      BY Zenon, <3>2 DEF OncePerSession
    <3>4. QED
      BY Zenon, <3>1, <3>3
  <2>2. CASE x = Server
    <3>1. i \in 1..Len(o) /\ it = o[i] /\ j \in 1..Len(o) /\ it = o[j]
      BY Zenon, <1>1, <1>3, <2>2
    <3>2. \E h \in i..j : o[h] = Item("accepted", it.from, 0)
      <4>1. /\ i \in DOMAIN recv_queue[x] /\ it = recv_queue[x][i]
            /\ j \in DOMAIN recv_queue[x] /\ it = recv_queue[x][j]
        BY Zenon, <1>1, <1>2, <2>2, <3>1
      <4>2. \E h \in i..j : recv_queue[x][h] = Item("accepted", it.from, 0)
        BY Zenon, <4>1 DEF OncePerSession
      <4>3. QED
        BY Zenon, <1>1, <2>2, <4>2
    <3>3. \A h \in i..j : r[h] = o[h]
      BY <1>1, <1>2, <3>1
    <3>4. QED
      BY Zenon, <1>1, <2>2, <3>2, <3>3
  <2>3. QED
    BY Zenon, <2>1, <2>2
<1>5. SenderKnown'
  <2> SUFFICES ASSUME NEW i \in DOMAIN r, r[i].kind = "recv"
               PROVE  \E h \in 1..i : /\ r[h] = Item("accepted", r[i].from, 0)
                                      /\ \A j \in h..i : r[j] # Item("disconnected", r[i].from, 0)
    BY Zenon, <1>1 DEF SenderKnown, Item
  <2>1. i \in DOMAIN o /\ o[i].kind = "recv" /\ \A j \in 1..i : r[j] = o[j]
    BY <1>1, <1>2, <1>3
  <2>2. \E h \in 1..i : /\ o[h] = Item("accepted", o[i].from, 0)
                        /\ \A j \in h..i : o[j] # Item("disconnected", o[i].from, 0)
    BY Zenon, <1>1, <2>1 DEF SenderKnown
  <2>3. QED
    BY <2>1, <2>2
<1>6. QED
  BY Zenon, <1>4, <1>5

\* The server announces or withdraws client c, and its resender is new or gone.
LEMMA NoticeIInv ==
  ASSUME IInv, NEW c \in Client, NEW here \in BOOLEAN,
         push(Server, Item(IF here THEN "accepted" ELSE "disconnected", c, 0)),
         received' \in [Link -> SUBSET Uid],
         \A k \in Link : received'[k] = received[k] \/ (here /\ k = <<c, Server>> /\ received'[k] = {}),
         NEW s, NodeKept(Server, s),
         s.peers = IF here THEN node[Server].peers \cup {c} ELSE node[Server].peers \ {c},
         NEW n, After(Server, s, n), Becomes(Server, n),
         UNCHANGED <<up, uids, buffers, net, load, posted>>
  PROVE  IInv'
<1>1. PICK item \in ItemRecord : /\ item = Item(IF here THEN "accepted" ELSE "disconnected", c, 0)
                                 /\ push(Server, item) /\ item.kind # "recv"
  BY DEF Item, ItemRecord, Proc
<1>2. GivenKnown /\ OncePerSession /\ SenderKnown
  BY Zenon DEF IInv
<1>3. PICK o \in Seq(ItemRecord), r \in Seq(ItemRecord) :
        /\ o = recv_queue[Server] /\ r = recv_queue'[Server]
        /\ Len(r) = Len(o) + 1 /\ r[Len(r)] = item
        /\ \A i \in 1..Len(o) : r[i] = o[i]
        /\ \A x \in Proc \ {Server} : recv_queue'[x] = recv_queue[x]
        /\ recv_queue' \in [Proc -> Seq(ItemRecord)]
  BY <1>1, Addresses, Pushed DEF IInv, TypeOK
<1>4. /\ Len(o) \in Nat /\ DOMAIN o = 1..Len(o) /\ DOMAIN r = 1..(Len(o) + 1)
      /\ Len(r) = Len(o) + 1
  BY <1>3
<1>5. \A i \in DOMAIN r : r[i].kind = "recv" => i \in 1..Len(o) /\ r[i] = o[i]
  BY <1>1, <1>3, <1>4
<1>6. \A j \in Link : Given(j) \subseteq Given(j)'
  BY Zenon, <1>1, Addresses, Pushed DEF IInv
<1>7. \A j \in Link : received'[j] \subseteq Given(j)'
  BY Zenon, <1>6 DEF IInv
<1>8. GivenKnown'
  <2> SUFFICES ASSUME NEW x \in Proc, NEW i \in DOMAIN recv_queue'[x],
                      NEW it, it = recv_queue'[x][i], it.kind = "recv"
               PROVE  /\ <<it.from, x>> \in Link
                      /\ \/ it.uid \in received'[<<it.from, x>>]
                         \/ \E h \in i..Len(recv_queue'[x]) :
                              recv_queue'[x][h] = Item("accepted", it.from, 0)
    BY DEF GivenKnown, Item
  <2>1. CASE x # Server
    <3>1. recv_queue'[x] = recv_queue[x]
      BY Zenon, <1>3, <2>1
    <3>2. /\ <<it.from, x>> \in Link
          /\ \/ it.uid \in received[<<it.from, x>>]
             \/ \E h \in i..Len(recv_queue[x]) :
                  recv_queue[x][h] = Item("accepted", it.from, 0)
      BY <1>2, <3>1 DEF GivenKnown
    <3>3. received'[<<it.from, x>>] = received[<<it.from, x>>]
      BY Zenon, <2>1, <3>2
    <3>4. QED
      BY Zenon, <3>1, <3>2, <3>3
  <2>2. CASE x = Server
    <3>1. i \in 1..Len(o) /\ it = o[i]
      BY Zenon, <1>3, <1>5, <2>2
    <3>2. /\ <<it.from, Server>> \in Link
          /\ \/ it.uid \in received[<<it.from, Server>>]
             \/ \E h \in i..Len(o) : o[h] = Item("accepted", it.from, 0)
      <4>1. i \in DOMAIN recv_queue[Server] /\ it = recv_queue[Server][i]
        BY Zenon, <1>3, <1>4, <3>1
      <4>2. /\ <<it.from, Server>> \in Link
            /\ \/ it.uid \in received[<<it.from, Server>>]
               \/ \E h \in i..Len(recv_queue[Server]) :
                    recv_queue[Server][h] = Item("accepted", it.from, 0)
        BY <1>2, <4>1, Addresses DEF GivenKnown
      <4>3. QED
        BY Zenon, <1>3, <4>2
    <3>3. CASE here /\ it.from = c
      <4>1. r[Len(r)] = Item("accepted", it.from, 0) /\ Len(r) \in i..Len(r)
        BY <1>1, <1>3, <1>4, <3>1, <3>3
      <4>2. QED
        BY Zenon, <1>3, <2>2, <3>2, <4>1
    <3>4. CASE ~(here /\ it.from = c)
      <4>1. received'[<<it.from, Server>>] = received[<<it.from, Server>>]
        BY Zenon, <3>2, <3>4
      <4>2. \A h \in i..Len(o) : h \in i..Len(r) /\ r[h] = o[h]
        BY <1>3, <1>4, <3>1
      <4>3. QED
        BY Zenon, <1>3, <2>2, <3>2, <4>1, <4>2
    <3>5. QED
      BY Zenon, <3>3, <3>4
  <2>3. QED
    BY Zenon, <2>1, <2>2
<1>9. OncePerSession' /\ SenderKnown'
  BY Zenon, <1>1, <1>2, Notice DEF IInv
<1>10. /\ node' \in [Proc -> NodeRecord] /\ \A x \in Proc : NodeKept(x, node[x])'
       /\ node'[Server] = n
  BY Zenon, Addresses, NodeStep DEF After, IInv
<1>11. \A a \in node'[Server].peers : Announced(a)'
  <2> SUFFICES ASSUME NEW a \in n.peers
               PROVE  \E h \in DOMAIN r : /\ r[h] = Item("accepted", a, 0)
                                          /\ \A j \in h..Len(r) : r[j] # Item("disconnected", a, 0)
    BY Zenon, <1>3, <1>10 DEF Announced, Item
  <2>1. CASE here /\ a = c
    <3>1. r[Len(r)] = Item("accepted", a, 0) /\ r[Len(r)] # Item("disconnected", a, 0)
      BY <1>1, <1>3, <2>1 DEF Item
    <3>2. Len(r) \in DOMAIN r /\ \A j \in Len(r)..Len(r) : j = Len(r)
      BY <1>4
    <3>3. QED
      BY Zenon, <3>1, <3>2
  <2>2. CASE ~(here /\ a = c)
    <3>1. a \in node[Server].peers /\ (~here => a # c)
      BY Zenon, <2>2 DEF After
    <3>2. PICK h \in DOMAIN o : /\ o[h] = Item("accepted", a, 0)
                                /\ \A j \in h..Len(o) : o[j] # Item("disconnected", a, 0)
      BY Zenon, <1>3, <3>1 DEF IInv, Announced
    <3>3. r[Len(r)] # Item("disconnected", a, 0)
      BY <1>1, <1>3, <2>2, <3>1 DEF Item
    <3>4. h \in DOMAIN r /\ r[h] = Item("accepted", a, 0)
      BY <1>3, <1>4, <3>2
    <3>5. ASSUME NEW j \in h..Len(r), j # Len(r) PROVE r[j] # Item("disconnected", a, 0)
      <4>1. j \in h..Len(o) /\ j \in 1..Len(o)
        BY <1>4, <3>2, <3>5
      <4>2. QED
        BY Zenon, <1>3, <3>2, <4>1
    <3>6. QED
      BY Zenon, <3>3, <3>4, <3>5
  <2>3. QED
    BY Zenon, <2>1, <2>2
<1>12. NetTrue'
  BY Zenon, <1>6, NetStep DEF IInv
<1>13. TypeOK' /\ BuffersPosted'
  BY <1>3, <1>10 DEF IInv, TypeOK, BuffersPosted, Feeds
<1>14. QED
  BY Zenon, <1>7, <1>8, <1>9, <1>10, <1>11, <1>12, <1>13 DEF IInv

\* The state the server has for a client when it takes it in or gives it up.
Renewed(s, c, peers) ==
  [s EXCEPT !.peers = peers, !.pushed[c] = {}, !.unacked[c] = {}]

\* A new or a gone resender holds nothing (guaranteed_comm.cpp:396-425, 439-456).
LEMMA RenewedKept ==
  ASSUME TypeOK, NEW c \in Client, NEW s \in NodeRecord, NodeKept(Server, s),
         NEW peers \in SUBSET Client, s.peers \subseteq peers \cup {c}
  PROVE  LET n == Renewed(s, c, peers)
         IN  /\ NodeKept(Server, n) /\ n.peers = peers /\ n.unacked[c] = {}
             /\ \A q \in Proc \ {c} : n.unacked[q] = s.unacked[q]
<1>1. c \in Proc /\ peers \in SUBSET Proc
  BY Zenon DEF Proc
<1>2. PICK f \in [Proc -> SUBSET Nat], g \in [Proc -> SUBSET Nat] : f = s.pushed /\ g = s.unacked
  BY Zenon DEF NodeRecord
<1>3. PICK ff \in [Proc -> SUBSET Nat] : /\ ff = [f EXCEPT ![c] = {}] /\ ff[c] = {}
                                         /\ \A q \in Proc \ {c} : ff[q] = f[q]
  <2>1. [f EXCEPT ![c] = {}] \in [Proc -> SUBSET Nat]
    BY Zenon
  <2>2. QED
    BY Zenon, <1>1, <2>1
<1>4. PICK gg \in [Proc -> SUBSET Nat] : /\ gg = [g EXCEPT ![c] = {}] /\ gg[c] = {}
                                         /\ \A q \in Proc \ {c} : gg[q] = g[q]
  <2>1. [g EXCEPT ![c] = {}] \in [Proc -> SUBSET Nat]
    BY Zenon
  <2>2. QED
    BY Zenon, <1>1, <2>1
<1>5. PICK n : n = Renewed(s, c, peers) /\ n = [s EXCEPT !.peers = peers, !.pushed = ff, !.unacked = gg]
  BY Zenon, <1>2, <1>3, <1>4 DEF Renewed, NodeRecord
<1>6. /\ n \in NodeRecord /\ n.peers = peers /\ n.out = s.out /\ n.queue = s.queue
      /\ n.sending = s.sending /\ n.pushed = ff /\ n.unacked = gg
  BY Zenon, <1>1, <1>5 DEF NodeRecord
<1>7. \A q \in Proc \ peers : gg[q] = {}
  BY Zenon, <1>2, <1>4 DEF NodeKept
<1>8. \A q \in Proc : ff[q] \subseteq s.pushed[q] /\ gg[q] \subseteq s.unacked[q]
  BY Zenon, <1>2, <1>3, <1>4
<1>9. NodeKept(Server, n)
  BY Zenon, <1>6, <1>7, <1>8 DEF NodeKept, Ends
<1>10. QED
  BY <1>2, <1>4, <1>5, <1>6, <1>9

\* handle_connect() and accepted().
LEMMA ConnectIInv ==
  ASSUME IInv, NEW c \in Client, handle_connect(c)
  PROVE  IInv'
<1>1. node[Server] \in NodeRecord /\ NodeKept(Server, node[Server]) /\ node[Server].peers \subseteq Client
  BY Zenon, Addresses DEF IInv, NodeKept
<1>2. PICK s : /\ s = Renewed(node[Server], c, node[Server].peers \cup {c})
               /\ NodeKept(Server, s) /\ s.peers = node[Server].peers \cup {c}
  BY <1>1, RenewedKept DEF IInv
<1>3. PICK n : After(Server, s, n) /\ Becomes(Server, n)
  BY Zenon, <1>2, Pass, Addresses DEF handle_connect, IInv, Renewed
<1>4. /\ received' \in [Link -> SUBSET Uid]
      /\ \A k \in Link : received'[k] = received[k] \/ (k = <<c, Server>> /\ received'[k] = {})
  BY Zenon DEF handle_connect, IInv, TypeOK
<1>5. UNCHANGED <<up, uids, buffers, net, load, posted>> /\ push(Server, Item("accepted", c, 0))
  BY Zenon DEF handle_connect
<1>6. QED
  BY Zenon, <1>2, <1>3, <1>4, <1>5, NoticeIInv

\* time_expired(), handle_disconnect() and disconnected().
LEMMA ExpiredIInv ==
  ASSUME IInv, NEW c \in Client, time_expired(c)
  PROVE  IInv'
<1>1. node[Server] \in NodeRecord /\ NodeKept(Server, node[Server]) /\ node[Server].peers \subseteq Client
  BY Zenon, Addresses DEF IInv, NodeKept
<1>2. PICK s : /\ s = Renewed(node[Server], c, node[Server].peers \ {c})
               /\ NodeKept(Server, s) /\ s.peers = node[Server].peers \ {c}
  BY <1>1, RenewedKept DEF IInv
<1>3. PICK n : After(Server, s, n) /\ Becomes(Server, n)
  BY Zenon, <1>2, Pass, Addresses DEF time_expired, erase, IInv, Renewed
<1>4. received' \in [Link -> SUBSET Uid] /\ received' = received
  BY Zenon DEF time_expired, IInv, TypeOK
<1>5. UNCHANGED <<up, uids, buffers, net, load, posted>> /\ push(Server, Item("disconnected", c, 0))
  BY Zenon DEF time_expired
<1>6. QED
  BY Zenon, <1>2, <1>3, <1>4, <1>5, NoticeIInv

\* Every step keeps the invariant.
LEMMA NextIInv == IInv /\ [Next]_vars => IInv'
<1> SUFFICES ASSUME IInv, [Next]_vars PROVE IInv'
  BY Zenon
<1>1. ASSUME NEW p \in Proc, NEW l \in Pool, async_send(p, l) PROVE IInv'
  BY Zenon, <1>1, SendIInv
<1>2. ASSUME NEW k \in Link, NEW u \in Uid, NEW lost \in BOOLEAN, received_msg(k, u, lost) PROVE IInv'
  BY Zenon, <1>2, MsgIInv
<1>3. ASSUME NEW k \in Link, NEW u \in Uid, received_ack(k, u) PROVE IInv'
  BY Zenon, <1>3, AckIInv
<1>4. ASSUME NEW p \in Proc, NEW lost \in BOOLEAN, NEW d \in node[p].out, sent(p, d, lost) PROVE IInv'
  BY Zenon, <1>4, SentIInv
<1>5. ASSUME NEW p \in Proc, NEW D \in Choices(p, node[p], node[p].peers), tick(p, D) PROVE IInv'
  BY Zenon, <1>5, TickIInv
<1>6. ASSUME NEW c \in Client, NEW lost \in BOOLEAN, Start(c, lost) PROVE IInv'
  BY Zenon, <1>6, StartIInv
<1>7. ASSUME NEW c \in Client, Die(c) PROVE IInv'
  BY Zenon, <1>7, DieIInv
<1>8. ASSUME NEW c \in Client, handle_connect(c) PROVE IInv'
  BY Zenon, <1>8, ConnectIInv
<1>9. ASSUME NEW c \in Client, time_expired(c) PROVE IInv'
  BY Zenon, <1>9, ExpiredIInv
<1>10. CASE UNCHANGED vars
  <2>1. TypeOK' /\ BuffersPosted'
    BY Zenon, <1>10 DEF vars, IInv, TypeOK, BuffersPosted
  <2>2. \A p \in Proc : NodeKept(p, node[p])'
    <3>1. node' = node /\ buffers' = buffers /\ posted' = posted
      BY Zenon, <1>10 DEF vars
    <3> QED
      BY <3>1 DEF IInv, NodeKept, EntryKept, DatagramFed
  <2>3. NetTrue' /\ \A k \in Link : (received[k] \subseteq Given(k))'
    BY Zenon, <1>10 DEF vars, IInv, NetTrue, MessageTrue, Given
  <2>4. GivenKnown' /\ OncePerSession'
    BY Zenon, <1>10 DEF vars, IInv, GivenKnown, OncePerSession
  <2>5. (\A c \in node[Server].peers : Announced(c))' /\ SenderKnown'
    BY Zenon, <1>10 DEF vars, IInv, Announced, SenderKnown
  <2> QED
    BY Zenon, <2>1, <2>2, <2>3, <2>4, <2>5 DEF IInv
<1>11. QED
  BY Zenon, <1>1, <1>2, <1>3, <1>4, <1>5, <1>6, <1>7, <1>8, <1>9, <1>10 DEF Next

\* The inductive invariant holds throughout.
THEOREM Invariance == Spec => []IInv
<1>1. QED
  BY InitIInv, NextIInv, PTL DEF Spec

\* The user is given each message at most once in a session of its sender
\* (guaranteed_comm.cpp:385, 541).
THEOREM GivenOnce == Spec => []OncePerSession
<1>1. IInv => OncePerSession
  BY Zenon DEF IInv
<1>2. QED
  BY <1>1, Invariance, PTL

\* The server's user is handed messages of announced clients only
\* (guaranteed_comm.cpp:706-708).
THEOREM KnownSenders == Spec => []SenderKnown
<1>1. IInv => SenderKnown
  BY Zenon DEF IInv
<1>2. QED
  BY <1>1, Invariance, PTL

\* The flag sending is never left set (guaranteed_comm.cpp:501-503, 507, 519).
THEOREM TransmissionsEnd == Spec => []SendingEnds
<1>1. IInv => SendingEnds
  BY Zenon DEF IInv, NodeKept, Ends, SendingEnds
<1>2. QED
  BY <1>1, Invariance, PTL

------------------------------------------------------------------------------
(* The channel                                                             *)

\* The sender of link k has it open, and the messages it keeps for it.
Open(k) == IF k[1] = Server THEN k[2] \in node[Server].peers ELSE up[k[1]] = "up"
Kept(k) == node[k[1]].unacked[k[2]]

\* A step of the channel on link k, seen from here.
GiveStep(k) ==
  \/ /\ received[k] \subseteq received'[k] /\ received'[k] \ received[k] \subseteq posted[k]
     /\ Given(k)' = Given(k) \cup received'[k]
  \/ /\ ~Open(<<k[2], k[1]>>) /\ Open(<<k[2], k[1]>>)'
     /\ received'[k] = {} /\ Given(k)' = Given(k)

LetGoStep(k) ==
  /\ Kept(k)' \ Kept(k) \subseteq posted[k]
  /\ ~Open(k)' \/ Kept(k) \ Kept(k)' \subseteq Given(k)

\* The steps on the links together are a step of the channel.
LEMMA ChannelStep ==
  ASSUME \A k \in Link : posted[k] \subseteq posted'[k] /\ posted'[k] \subseteq Uid,
         \A k \in Link : GiveStep(k), \A k \in Link : LetGoStep(k)
  PROVE  Channel!Next
<1> SUFFICES ASSUME NEW k \in Link
             PROVE  Channel!Post(k) /\ Channel!Give(k) /\ Channel!LetGo(k)
  BY Zenon DEF Channel!Next
<1>1. Channel!Post(k)
  BY Zenon DEF Channel!Post
<1>2. <<k[2], k[1]>> \in Link
  BY Zenon, Addresses DEF Link
<1>3. Channel!Give(k)
  BY Zenon, <1>2 DEF Channel!Give, GiveStep, Open
<1>4. Channel!LetGo(k)
  BY Zenon DEF Channel!LetGo, LetGoStep, Open, Kept
<1>5. QED
  BY Zenon, <1>1, <1>3, <1>4

\* What push() adds to the messages that were given.
LEMMA PushGiven ==
  ASSUME TypeOK, NEW p \in Proc, NEW item \in ItemRecord, push(p, item), NEW k \in Link, NEW u \in Uid
  PROVE  u \in Given(k)' <=> u \in Given(k) \/ (k[2] = p /\ item = Item("recv", k[1], u))
<1>1. PICK o \in Seq(ItemRecord), r \in Seq(ItemRecord) :
        /\ o = recv_queue[p] /\ r = recv_queue'[p]
        /\ Len(r) = Len(o) + 1 /\ r[Len(r)] = item
        /\ \A i \in 1..Len(o) : r[i] = o[i]
        /\ \A x \in Proc \ {p} : recv_queue'[x] = recv_queue[x]
  BY Pushed DEF TypeOK
<1>2. CASE k[2] # p
  <2>1. recv_queue'[k[2]] = recv_queue[k[2]]
    BY Zenon, <1>1, <1>2, Addresses
  <2>2. QED
    BY Zenon, <1>2, <2>1 DEF Given, Item
<1>3. CASE k[2] = p
  <2>1. \A i \in DOMAIN r : (i \in DOMAIN o /\ r[i] = o[i]) \/ (i = Len(r) /\ r[i] = item)
    BY <1>1
  <2>2. Len(r) \in DOMAIN r /\ \A i \in DOMAIN o : i \in DOMAIN r /\ r[i] = o[i]
    BY <1>1
  <2>3. u \in Given(k)' <=> \E i \in DOMAIN r : r[i] = Item("recv", k[1], u)
    BY Zenon, <1>1, <1>3 DEF Given, Item
  <2>4. u \in Given(k) <=> \E i \in DOMAIN o : o[i] = Item("recv", k[1], u)
    BY Zenon, <1>1, <1>3 DEF Given
  <2>5. QED
    BY <1>1, <1>3, <2>1, <2>2, <2>3, <2>4
<1>4. QED
  BY Zenon, <1>2, <1>3

\* A step that gives nothing.
LEMMA NothingGiven ==
  ASSUME IInv, NEW k \in Link, received'[k] = received[k],
         \A u \in Uid : u \in Given(k)' <=> u \in Given(k)
  PROVE  GiveStep(k)
<1>1. Given(k)' \subseteq Uid /\ Given(k) \subseteq Uid
  BY Zenon DEF Given
<1>2. Given(k)' = Given(k)
  BY Zenon, <1>1
<1>3. received[k] \subseteq Given(k)
  BY Zenon DEF IInv
<1>4. QED
  BY Zenon, <1>2, <1>3 DEF GiveStep

\* What the end of a pass means for the messages that are kept.
LEMMA KeptStep ==
  ASSUME IInv, IInv', NEW p \in Proc, NEW s, NEW n, After(p, s, n), Becomes(p, n), posted' = posted,
         NEW k \in Link
  PROVE  /\ Kept(k)' \ Kept(k) \subseteq posted[k]
         /\ k[1] = p => s.unacked[k[2]] \subseteq Kept(k)'
         /\ k[1] # p => Kept(k)' = Kept(k)
<1>1. k[1] \in Proc /\ k[2] \in Proc /\ k = <<k[1], k[2]>>
  BY Zenon, Addresses
<1>2. NodeKept(k[1], node[k[1]])'
  BY Zenon, <1>1 DEF IInv
<1>3. Kept(k)' \subseteq posted'[k]
  BY Zenon, <1>1, <1>2 DEF NodeKept, Kept
<1>4. node'[p] = n /\ \A x \in Proc \ {p} : node'[x] = node[x]
  BY Zenon DEF Becomes, IInv, TypeOK
<1>5. QED
  BY Zenon, <1>1, <1>3, <1>4 DEF Kept, After

\* Steps that give nothing and let go of nothing: async_send(), sent(), tick(), Start and Die.
LEMMA QuietChannel ==
  ASSUME IInv, NEW k \in Link, UNCHANGED <<received, recv_queue>>,
         Kept(k)' \ Kept(k) \subseteq posted[k], ~Open(k)' \/ Kept(k) \subseteq Kept(k)'
  PROVE  GiveStep(k) /\ LetGoStep(k)
<1>1. \A u \in Uid : u \in Given(k)' <=> u \in Given(k)
  BY Zenon DEF Given
<1>2. GiveStep(k)
  BY Zenon, <1>1, NothingGiven
<1>3. LetGoStep(k)
  BY Zenon DEF LetGoStep
<1>4. QED
  BY Zenon, <1>2, <1>3

\* async_send() queues a message; no resender knows it yet.
LEMMA SendChannel ==
  ASSUME IInv, NEW p \in Proc, NEW l \in Pool, async_send(p, l), NEW k \in Link
  PROVE  GiveStep(k) /\ LetGoStep(k)
<1>1. \A x \in Proc : node'[x].unacked = node[x].unacked
  BY DEF async_send, IInv, TypeOK, NodeRecord
<1>2. Kept(k)' = Kept(k)
  BY Zenon, <1>1, Addresses DEF Kept
<1>3. UNCHANGED <<received, recv_queue>>
  BY Zenon DEF async_send
<1>4. QED
  BY Zenon, <1>2, <1>3, QuietChannel

\* A message that is given was under way, so it was posted.
LEMMA MsgChannel ==
  ASSUME IInv, IInv', NEW j \in Link, NEW u \in Uid, NEW lost \in BOOLEAN,
         received_msg(j, u, lost), NEW k \in Link
  PROVE  GiveStep(k) /\ LetGoStep(k)
<1>1. PICK q \in Proc, p \in Proc : q = j[1] /\ p = j[2] /\ j = <<q, p>>
  BY Addresses
<1>2. PICK n : After(p, node[p], n) /\ Becomes(p, n)
  BY Zenon, <1>1, Pass DEF received_msg, IInv
<1>3. posted' = posted
  BY Zenon DEF received_msg
<1>4. Kept(k)' \ Kept(k) \subseteq posted[k] /\ Kept(k) \subseteq Kept(k)'
  BY Zenon, <1>2, <1>3, KeptStep DEF Kept
<1>5. CASE already_received(j, u)
  <2>1. UNCHANGED <<received, recv_queue>>
    BY Zenon, <1>5 DEF received_msg
  <2>2. QED
    BY Zenon, <1>4, <2>1, QuietChannel
<1>6. CASE ~already_received(j, u)
  <2>1. PICK item \in ItemRecord : item = Item("recv", q, u) /\ push(p, item)
    BY <1>1, <1>6 DEF received_msg, Item, ItemRecord, Uid
  <2>2. received' = [received EXCEPT ![j] = @ \cup {u}]
    BY Zenon, <1>6 DEF received_msg
  <2>3. \A v \in Uid : v \in Given(k)' <=> v \in Given(k) \/ (k[2] = p /\ item = Item("recv", k[1], v))
    BY Zenon, <2>1, PushGiven DEF IInv
  <2>4. k[2] = p /\ k[1] = q <=> k = j
    BY Zenon, <1>1, Addresses
  <2>5. \A v \in Uid : item = Item("recv", k[1], v) <=> k[1] = q /\ v = u
    BY Zenon, <2>1 DEF Item
  <2>6. LetGoStep(k)
    BY Zenon, <1>4 DEF LetGoStep
  <2>7. CASE k # j
    <3>1. received'[k] = received[k]
      BY Zenon, <2>2, <2>7 DEF IInv, TypeOK
    <3>2. \A v \in Uid : v \in Given(k)' <=> v \in Given(k)
      BY Zenon, <2>3, <2>4, <2>5, <2>7
    <3>3. QED
      BY Zenon, <2>6, <3>1, <3>2, NothingGiven
  <2>8. CASE k = j
    <3>1. received'[k] = received[k] \cup {u}
      BY Zenon, <2>2, <2>8 DEF IInv, TypeOK
    <3>2. u \in posted[k]
      BY Zenon, <2>8 DEF IInv, NetTrue, MessageTrue, Msg, received_msg
    <3>3. Given(k) \subseteq Uid /\ Given(k)' \subseteq Uid /\ received[k] \subseteq Given(k)
      BY Zenon DEF Given, IInv
    <3>4. \A v \in Uid : v \in Given(k)' <=> v \in Given(k) \/ v = u
      BY Zenon, <2>3, <2>4, <2>5, <2>8
    <3>5. Given(k)' = Given(k) \cup received'[k]
      BY Zenon, <3>1, <3>3, <3>4
    <3>6. QED
      BY Zenon, <2>6, <3>1, <3>2, <3>5 DEF GiveStep
  <2>9. QED
    BY Zenon, <2>7, <2>8
<1>7. QED
  BY Zenon, <1>5, <1>6

\* A message that is let go of was acknowledged, so it was given.
LEMMA AckChannel ==
  ASSUME IInv, IInv', NEW j \in Link, NEW u \in Uid, received_ack(j, u), NEW k \in Link
  PROVE  GiveStep(k) /\ LetGoStep(k)
<1>1. PICK p \in Proc, q \in Proc : p = j[1] /\ q = j[2] /\ j = <<p, q>>
  BY Addresses
<1>2. PICK s : s = ack(node[p], q, u) /\ Acked(p, q, u, s)
  BY Zenon, AckKept DEF IInv
<1>3. NodeKept(p, s)
  BY Zenon, <1>2 DEF Acked
<1>4. PICK n : After(p, s, n) /\ Becomes(p, n)
  BY Zenon, <1>1, <1>2, <1>3, Pass DEF received_ack, IInv
<1>5. posted' = posted /\ UNCHANGED <<received, recv_queue>>
  BY Zenon DEF received_ack
<1>6. /\ Kept(k)' \ Kept(k) \subseteq posted[k]
      /\ k[1] = p => s.unacked[k[2]] \subseteq Kept(k)'
      /\ k[1] # p => Kept(k)' = Kept(k)
  BY Zenon, <1>4, <1>5, KeptStep
<1>7. CASE k # j
  <2>1. k[1] = p => k[2] # q /\ k[2] \in Proc
    BY Zenon, <1>1, <1>7, Addresses
  <2>2. Kept(k) \subseteq Kept(k)'
    BY Zenon, <1>2, <1>6, <2>1 DEF Acked, Kept
  <2>3. QED
    BY Zenon, <1>5, <1>6, <2>2, QuietChannel
<1>8. CASE k = j
  <2>1. u \in Given(k)
    BY Zenon, <1>8 DEF IInv, NetTrue, MessageTrue, Ack, received_ack
  <2>2. Kept(k) \ Kept(k)' \subseteq {u}
    BY Zenon, <1>1, <1>2, <1>6, <1>8 DEF Acked, Kept
  <2>3. \A v \in Uid : v \in Given(k)' <=> v \in Given(k)
    BY Zenon, <1>5 DEF Given
  <2>4. GiveStep(k)
    BY Zenon, <1>5, <2>3, NothingGiven
  <2>5. QED
    BY Zenon, <1>6, <2>1, <2>2, <2>4 DEF LetGoStep
<1>9. QED
  BY Zenon, <1>7, <1>8

\* sent() lets go of a buffer, but of no message that a resender has.
LEMMA SentChannel ==
  ASSUME IInv, IInv', NEW p \in Proc, NEW lost \in BOOLEAN, NEW d \in node[p].out,
         sent(p, d, lost), NEW k \in Link
  PROVE  GiveStep(k) /\ LetGoStep(k)
<1>1. PICK over \in BOOLEAN :
        over <=> /\ d.first /\ d.pool[2] \in {Server, All}
                 /\ ~\E e \in node[p].out \ {d} : e.first /\ e.pool = d.pool /\ e.buf = d.buf
  BY Zenon
<1>2. PICK s : /\ s = [node[p] EXCEPT !.out = node[p].out \ {d}, !.sending = @ /\ ~over]
               /\ Taken(p, s)
  <2>1. TypeOK /\ NodeKept(p, node[p])
    BY Zenon DEF IInv
  <2>2. QED
    BY Zenon, <1>1, <2>1, SentKept
<1>3. NodeKept(p, s) /\ s.unacked = node[p].unacked
  BY Zenon, <1>2 DEF Taken
<1>4. PICK n : After(p, s, n) /\ Becomes(p, n)
  BY Zenon, <1>1, <1>2, <1>3, Pass DEF sent, IInv
<1>5. posted' = posted /\ UNCHANGED <<received, recv_queue>>
  BY Zenon DEF sent
<1>6. Kept(k)' \ Kept(k) \subseteq posted[k] /\ Kept(k) \subseteq Kept(k)'
  BY <1>3, <1>4, <1>5, KeptStep DEF Kept
<1>7. QED
  BY Zenon, <1>5, <1>6, QuietChannel

\* tick() lets go of nothing.
LEMMA TickChannel ==
  ASSUME IInv, IInv', NEW p \in Proc, NEW D, tick(p, D), NEW k \in Link
  PROVE  GiveStep(k) /\ LetGoStep(k)
<1>1. PICK n : After(p, node[p], n) /\ Becomes(p, n)
  BY Zenon, Pass DEF tick, IInv
<1>2. posted' = posted /\ UNCHANGED <<received, recv_queue>>
  BY Zenon DEF tick
<1>3. Kept(k)' \ Kept(k) \subseteq posted[k] /\ Kept(k) \subseteq Kept(k)'
  BY Zenon, <1>1, <1>2, KeptStep DEF Kept
<1>4. QED
  BY Zenon, <1>2, <1>3, QuietChannel

\* A client that ends closes its link.
LEMMA DieChannel ==
  ASSUME IInv, IInv', NEW c \in Client, Die(c), NEW k \in Link
  PROVE  GiveStep(k) /\ LetGoStep(k)
<1>1. c \in Proc /\ c # Server
  BY Zenon, GuaranteedAssumption DEF Proc
<1>2. After(c, NewNode(c), NewNode(c)) /\ Becomes(c, NewNode(c))
  BY Zenon, <1>1, EmptyNode DEF After, Becomes, Die
<1>3. posted' = posted /\ UNCHANGED <<received, recv_queue>>
  BY Zenon DEF Die
<1>4. Kept(k)' \ Kept(k) \subseteq posted[k] /\ (k[1] # c => Kept(k)' = Kept(k))
  BY Zenon, <1>1, <1>2, <1>3, KeptStep
<1>5. k[1] = c => ~Open(k)'
  BY Zenon, <1>1 DEF Open, Die, IInv, TypeOK
<1>6. QED
  BY Zenon, <1>3, <1>4, <1>5, QuietChannel

\* A notice is no message.
LEMMA NoticeGiven ==
  ASSUME IInv, NEW c \in Client, NEW kind \in {"accepted", "disconnected"},
         push(Server, Item(kind, c, 0)), NEW k \in Link
  PROVE  \A u \in Uid : u \in Given(k)' <=> u \in Given(k)
<1>1. PICK item \in ItemRecord : /\ item = Item(kind, c, 0) /\ push(Server, item)
                                 /\ item.kind # "recv"
  BY DEF Item, ItemRecord, Proc
<1>2. \A u \in Uid : item # Item("recv", k[1], u)
  BY Zenon, <1>1 DEF Item
<1>3. \A u \in Uid : u \in Given(k)' <=> u \in Given(k) \/ (k[2] = Server /\ item = Item("recv", k[1], u))
  BY <1>1, PushGiven, Addresses DEF IInv
<1>4. QED
  BY Zenon, <1>2, <1>3

\* A session begins with a client that was not connected.
LEMMA ConnectChannel ==
  ASSUME IInv, IInv', NEW c \in Client, handle_connect(c), NEW k \in Link
  PROVE  GiveStep(k) /\ LetGoStep(k)
<1>1. node[Server] \in NodeRecord /\ NodeKept(Server, node[Server]) /\ node[Server].peers \subseteq Client
  BY Zenon, Addresses DEF IInv, NodeKept
<1>2. PICK s : /\ s = Renewed(node[Server], c, node[Server].peers \cup {c})
               /\ NodeKept(Server, s) /\ s.peers = node[Server].peers \cup {c}
               /\ s.unacked[c] = {}
               /\ \A q \in Proc \ {c} : s.unacked[q] = node[Server].unacked[q]
  BY <1>1, RenewedKept DEF IInv
<1>3. PICK n : After(Server, s, n) /\ Becomes(Server, n)
  BY Zenon, <1>2, Pass, Addresses DEF handle_connect, IInv, Renewed
<1>4. posted' = posted /\ c \notin node[Server].peers
  BY Zenon DEF handle_connect
<1>5. node[Server].unacked[c] = {}
  BY Zenon, <1>1, <1>4 DEF NodeKept, Proc
<1>6. \A q \in Proc : s.unacked[q] = node[Server].unacked[q]
  BY Zenon, <1>2, <1>5
<1>7. Kept(k)' \ Kept(k) \subseteq posted[k] /\ Kept(k) \subseteq Kept(k)'
  BY <1>3, <1>4, <1>6, KeptStep, Addresses DEF Kept
<1>8. \A u \in Uid : u \in Given(k)' <=> u \in Given(k)
  BY Zenon, NoticeGiven DEF handle_connect
<1>9. GiveStep(k)
  <2>1. received' = [received EXCEPT ![<<c, Server>>] = {}]
    BY Zenon DEF handle_connect
  <2>2. CASE k # <<c, Server>>
    <3>1. received'[k] = received[k]
      BY Zenon, <2>1, <2>2 DEF IInv, TypeOK
    <3>2. QED
      BY Zenon, <1>8, <3>1, NothingGiven
  <2>3. CASE k = <<c, Server>>
    <3>1. received'[k] = {}
      BY Zenon, <2>1, <2>3 DEF IInv, TypeOK
    <3>2. Given(k) \subseteq Uid /\ Given(k)' \subseteq Uid
      BY Zenon DEF Given
    <3>3. Given(k)' = Given(k)
      BY Zenon, <1>8, <3>2
    <3>4. node'[Server] = n /\ c \in n.peers
      BY Zenon, <1>2, <1>3, Addresses DEF Becomes, After, IInv, TypeOK
    <3>5. ~Open(<<Server, c>>) /\ Open(<<Server, c>>)'
      BY Zenon, <1>4, <3>4 DEF Open
    <3>6. QED
      BY Zenon, <2>3, <3>1, <3>3, <3>5 DEF GiveStep
  <2>4. QED
    BY Zenon, <2>2, <2>3
<1>10. QED
  BY Zenon, <1>7, <1>9 DEF LetGoStep

\* A client that expires closes the link to it.
LEMMA ExpiredChannel ==
  ASSUME IInv, IInv', NEW c \in Client, time_expired(c), NEW k \in Link
  PROVE  GiveStep(k) /\ LetGoStep(k)
<1>1. node[Server] \in NodeRecord /\ NodeKept(Server, node[Server]) /\ node[Server].peers \subseteq Client
  BY Zenon, Addresses DEF IInv, NodeKept
<1>2. PICK s : /\ s = Renewed(node[Server], c, node[Server].peers \ {c})
               /\ NodeKept(Server, s) /\ s.peers = node[Server].peers \ {c}
               /\ \A q \in Proc \ {c} : s.unacked[q] = node[Server].unacked[q]
  BY <1>1, RenewedKept DEF IInv
<1>3. PICK n : After(Server, s, n) /\ Becomes(Server, n)
  BY Zenon, <1>2, Pass, Addresses DEF time_expired, erase, IInv, Renewed
<1>4. posted' = posted /\ received' = received
  BY Zenon DEF time_expired
<1>5. /\ Kept(k)' \ Kept(k) \subseteq posted[k]
      /\ k[1] = Server => s.unacked[k[2]] \subseteq Kept(k)'
      /\ k[1] # Server => Kept(k)' = Kept(k)
  BY Zenon, <1>3, <1>4, KeptStep, Addresses
<1>6. ~Open(k)' \/ Kept(k) \subseteq Kept(k)'
  <2>1. CASE k[1] = Server /\ k[2] = c
    <3>1. node'[Server] = n /\ c \notin n.peers
      BY Zenon, <1>2, <1>3, Addresses DEF Becomes, After, IInv, TypeOK
    <3>2. QED
      BY Zenon, <2>1, <3>1 DEF Open
  <2>2. CASE ~(k[1] = Server /\ k[2] = c)
    BY Zenon, <1>2, <1>5, <2>2, Addresses DEF Kept
  <2>3. QED
    BY Zenon, <2>1, <2>2
<1>7. \A u \in Uid : u \in Given(k)' <=> u \in Given(k)
  BY Zenon, NoticeGiven DEF time_expired
<1>8. QED
  BY Zenon, <1>4, <1>5, <1>6, <1>7, NothingGiven DEF LetGoStep

\* Guaranteed communication implements the channel: nothing is given that was not
\* posted or twice in a session, and a message is let go of only when it was given or
\* the link is closed (guaranteed_comm.cpp:232-239, 377-393, 531-562).
THEOREM Refinement == Spec => ImplementsChannel
<1>1. Init => Channel!Init
  <2> SUFFICES ASSUME Init PROVE Channel!Init
    BY Zenon
  <2>1. \A k \in Link : Open(k) \in BOOLEAN
    <3> SUFFICES ASSUME NEW k \in Link PROVE Open(k) \in BOOLEAN
      BY Zenon
    <3>1. (k[2] \in node[Server].peers) \in BOOLEAN /\ (up[k[1]] = "up") \in BOOLEAN
      OBVIOUS
    <3>2. QED
      BY <3>1, Zenon DEF Open
  <2>2. [k \in Link |-> IF k[1] = Server THEN k[2] \in node[Server].peers ELSE up[k[1]] = "up"]
          \in [Link -> BOOLEAN]
    BY <2>1, Zenon DEF Open
  <2>3. \A k \in Link : Kept(k) = {} /\ Given(k) = {}
    BY Addresses DEF Init, NewNode, Kept, Given
  <2>4. [k \in Link |-> node[k[1]].unacked[k[2]]] = [k \in Link |-> {}]
    BY Zenon, <2>3 DEF Kept
  <2>5. [k \in Link |-> Given(k)] = [k \in Link |-> {}]
    BY Zenon, <2>3
  <2>6. posted = [k \in Link |-> {}] /\ received = posted
    BY Zenon DEF Init
  <2>7. QED
    BY Zenon, <2>2, <2>4, <2>5, <2>6 DEF Channel!Init
<1>2. IInv /\ IInv' /\ [Next]_vars => [Channel!Next]_(Channel!vars)
  <2> SUFFICES ASSUME IInv, IInv', [Next]_vars PROVE [Channel!Next]_(Channel!vars)
    BY Zenon
  <2>1. CASE UNCHANGED vars
    BY Zenon, <2>1 DEF vars, Channel!vars, Given
  <2>2. CASE Next
    <3>1. \A k \in Link : posted[k] \subseteq posted'[k] /\ posted'[k] \subseteq Uid
      <4>1. \A k \in Link : posted'[k] \subseteq Uid
        BY Zenon DEF IInv, TypeOK
      <4>2. ASSUME NEW p \in Proc, NEW l \in Pool, async_send(p, l)
            PROVE  \A k \in Link : posted[k] \subseteq posted'[k]
        BY Zenon, <4>2 DEF async_send
      <4>3. ASSUME NEW j \in Link, NEW u \in Uid, NEW lost \in BOOLEAN, received_msg(j, u, lost)
            PROVE  posted' = posted
        BY Zenon, <4>3 DEF received_msg
      <4>4. ASSUME NEW j \in Link, NEW u \in Uid, received_ack(j, u) PROVE posted' = posted
        BY Zenon, <4>4 DEF received_ack
      <4>5. ASSUME NEW p \in Proc, NEW lost \in BOOLEAN, NEW d \in node[p].out, sent(p, d, lost)
            PROVE  posted' = posted
        BY Zenon, <4>5 DEF sent
      <4>6. ASSUME NEW p \in Proc, NEW D \in Choices(p, node[p], node[p].peers), tick(p, D)
            PROVE  posted' = posted
        BY Zenon, <4>6 DEF tick
      <4>7. ASSUME NEW c \in Client, NEW lost \in BOOLEAN, Start(c, lost) PROVE posted' = posted
        BY Zenon, <4>7 DEF Start
      <4>8. ASSUME NEW c \in Client, Die(c) \/ handle_connect(c) \/ time_expired(c)
            PROVE  posted' = posted
        BY Zenon, <4>8 DEF Die, handle_connect, time_expired
      <4>9. \A k \in Link : posted[k] \subseteq posted'[k]
        BY Zenon, <2>2, <4>2, <4>3, <4>4, <4>5, <4>6, <4>7, <4>8 DEF Next
      <4>10. QED
        BY Zenon, <4>1, <4>9
    <3>2. ASSUME NEW k \in Link PROVE GiveStep(k) /\ LetGoStep(k)
      <4>1. ASSUME NEW p \in Proc, NEW l \in Pool, async_send(p, l) PROVE GiveStep(k) /\ LetGoStep(k)
        BY Zenon, <4>1, SendChannel
      <4>2. ASSUME NEW j \in Link, NEW u \in Uid, NEW lost \in BOOLEAN, received_msg(j, u, lost)
            PROVE  GiveStep(k) /\ LetGoStep(k)
        BY Zenon, <4>2, MsgChannel
      <4>3. ASSUME NEW j \in Link, NEW u \in Uid, received_ack(j, u) PROVE GiveStep(k) /\ LetGoStep(k)
        BY Zenon, <4>3, AckChannel
      <4>4. ASSUME NEW p \in Proc, NEW lost \in BOOLEAN, NEW d \in node[p].out, sent(p, d, lost)
            PROVE  GiveStep(k) /\ LetGoStep(k)
        BY Zenon, <4>4, SentChannel
      <4>5. ASSUME NEW p \in Proc, NEW D \in Choices(p, node[p], node[p].peers), tick(p, D)
            PROVE  GiveStep(k) /\ LetGoStep(k)
        BY Zenon, <4>5, TickChannel
      <4>6. ASSUME NEW c \in Client, NEW lost \in BOOLEAN, Start(c, lost)
            PROVE  GiveStep(k) /\ LetGoStep(k)
        BY Zenon, <4>6, QuietChannel DEF Start, Kept
      <4>7. ASSUME NEW c \in Client, Die(c) PROVE GiveStep(k) /\ LetGoStep(k)
        BY Zenon, <4>7, DieChannel
      <4>8. ASSUME NEW c \in Client, handle_connect(c) PROVE GiveStep(k) /\ LetGoStep(k)
        BY Zenon, <4>8, ConnectChannel
      <4>9. ASSUME NEW c \in Client, time_expired(c) PROVE GiveStep(k) /\ LetGoStep(k)
        BY Zenon, <4>9, ExpiredChannel
      <4>10. QED
        BY Zenon, <2>2, <4>1, <4>2, <4>3, <4>4, <4>5, <4>6, <4>7, <4>8, <4>9 DEF Next
    <3>3. QED
      BY Zenon, <3>1, <3>2, ChannelStep
  <2>3. QED
    BY Zenon, <2>1, <2>2
<1>3. QED
  BY <1>1, <1>2, Invariance, PTL DEF Spec, ImplementsChannel, Channel!Spec
==============================================================================
