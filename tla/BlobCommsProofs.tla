--------------------------- MODULE BlobCommsProofs ---------------------------
(***************************************************************************)
(* For every number of threads, layers, parts and versions: the one send   *)
(* buffer is not written while the transport reads it, and no part that    *)
(* was pushed is lost between push, send and sent.                         *)
(***************************************************************************)
EXTENDS BlobComms, TLAPS, SequenceTheorems, FiniteSetTheorems

CommsRecord ==
  [to_send           : Seq(Part),
   sending_version   : [Layer -> Version],
   cancelled_version : [Layer -> Version],
   phase             : {"free", "picked", "in_flight"},
   part              : Part \cup {NoPart},
   label             : Version,
   by                : Thread \cup {"none"}]

TypeOK ==
  /\ comms \in CommsRecord
  /\ pc \in [Thread -> {"idle", "send"}]
  /\ pushed \in [Part -> Version] /\ arrived \in [Part -> Version]
  /\ net \in Seq(Part \X Version)
  /\ buffer \in (Part \cup {NoPart}) \X Version

\* The phase of the send under way, the thread inside send() and what the transport
\* holds go together.
PhaseInv ==
  /\ comms.phase = "picked" <=> comms.by \in Thread
  /\ comms.phase = "picked" =>
       comms.part \in Part /\ comms.label <= comms.sending_version[LayerOf[comms.part]]
  /\ net = IF comms.phase = "in_flight" THEN <<buffer>> ELSE <<>>

\* The part waits in the queue, or the send under way is of this part, in its last
\* version or a newer one.
OnItsWay(p) ==
  \/ \E i \in DOMAIN comms.to_send : comms.to_send[i] = p
  \/ comms.phase = "picked" /\ comms.part = p /\ comms.label >= pushed[p]
  \/ comms.phase = "in_flight" /\ buffer[1] = p /\ buffer[2] >= pushed[p]

\* A part whose last version the transport has not taken is cancelled or on its way.
NoPartLost ==
  \A p \in Part :
    \/ arrived[p] >= pushed[p]
    \/ comms.cancelled_version[LayerOf[p]] >= pushed[p]
    \/ OnItsWay(p)

\* The inductive invariant.
IInv ==
  /\ TypeOK
  /\ PhaseInv
  /\ \A p \in Part : pushed[p] <= comms.sending_version[LayerOf[p]]
  /\ NoPartLost
  /\ SomeoneWillSend

------------------------------------------------------------------------------
\* A nonempty set of naturals has a least element.
LEMMA LeastElement ==
  ASSUME NEW S \in SUBSET Nat, S # {}
  PROVE  \E m \in S : \A k \in S : m <= k
<1>1. \E m \in S : \A k \in S : ~(<<k, m>> \in OpToRel(<, Nat))
  BY Zenon, NatLessThanWellFounded, WFMin
<1>2. \E m \in S : \A k \in S : ~(k < m)
  BY Zenon, <1>1 DEF OpToRel
<1>3. QED
  BY <1>2

\* The least element in front of an increasing list of the others.
LEMMA Prepend ==
  ASSUME NEW T \in SUBSET Nat, NEW m \in T, \A k \in T : m <= k,
         NEW n \in Nat, NEW u \in [1..n -> T \ {m}], Ordered(u)
  PROVE  \E t \in [1..n + 1 -> T] : Ordered(t)
<1> DEFINE t == [i \in 1..n + 1 |-> IF i = 1 THEN m ELSE u[i - 1]]
<1>1. \A j \in 1..n + 1 : j # 1 => j - 1 \in 1..n /\ t[j] = u[j - 1] /\ u[j - 1] \in T \ {m}
  OBVIOUS
<1>2. t[1] = m
  OBVIOUS
<1>3. t \in [1..n + 1 -> T]
  BY Zenon, <1>1, <1>2
<1>4. ASSUME NEW i \in 1..n + 1, NEW j \in 1..n + 1, i < j
      PROVE  t[i] < t[j]
  <2>1. j # 1
    BY <1>4
  <2> HIDE DEF t
  <2>2. CASE i = 1
    <3>1. t[j] \in T /\ t[j] # m
      BY Zenon, <1>1, <2>1
    <3>2. m \in Nat /\ t[j] \in Nat /\ m <= t[j]
      BY Zenon, <3>1
    <3>3. m < t[j]
      BY <3>1, <3>2
    <3>4. QED
      BY Zenon, <1>2, <2>2, <3>3
  <2>3. CASE i # 1
    <3>1. /\ i - 1 \in 1..n /\ j - 1 \in 1..n /\ i - 1 < j - 1
          /\ t[i] = u[i - 1] /\ t[j] = u[j - 1]
      BY <1>1, <1>4, <2>1, <2>3
    <3>2. u[i - 1] < u[j - 1]
      BY Zenon, <3>1 DEF Ordered
    <3>3. QED
      BY Zenon, <3>1, <3>2
  <2>4. QED
    BY Zenon, <2>2, <2>3
<1>5. Ordered(t)
  <2>1. DOMAIN t = 1..n + 1
    BY Zenon
  <2> HIDE DEF t
  <2>2. QED
    BY Zenon, <1>4, <2>1 DEF Ordered
<1>6. QED
  BY Zenon, <1>3, <1>5

\* A finite set of naturals can be listed in increasing order: take a smallest set that
\* cannot, and put its least element in front of a list of the others.
LEMMA OrderedListing ==
  ASSUME NEW S \in SUBSET Nat, IsFiniteSet(S)
  PROVE  \E s \in [1..Cardinality(S) -> S] : Ordered(s)
<1> DEFINE Listed(T) == \E s \in [1..Cardinality(T) -> T] : Ordered(s)
           Bad == {T \in FiniteSubsetsOf(S) : ~Listed(T)}
<1>1. SUFFICES ASSUME Bad # {} PROVE FALSE
  BY Zenon DEF FiniteSubsetsOf
<1>2. PICK T \in Bad : \A U \in Bad : ~(<<U, T>> \in StrictSubsetOrdering(S))
  <2>1. IsWellFoundedOn(StrictSubsetOrdering(S), FiniteSubsetsOf(S))
    BY Zenon, FS_StrictSubsetOrderingWellFounded
  <2>2. Bad \subseteq FiniteSubsetsOf(S)
    BY Zenon
  <2>3. QED
    BY Zenon, <1>1, <2>1, <2>2, WFMin
<1>3. T \subseteq S /\ IsFiniteSet(T) /\ ~Listed(T)
  BY Zenon DEF FiniteSubsetsOf
<1>4. T # {}
  <2>1. [i \in 1..0 |-> i] \in [1..0 -> {}] /\ Ordered([i \in 1..0 |-> i])
    BY DEF Ordered
  <2>2. QED
    BY Zenon, <1>3, <2>1, FS_EmptySet
<1>5. PICK m \in T : \A k \in T : m <= k
  BY Zenon, <1>3, <1>4, LeastElement
<1>6. PICK U, n : U = T \ {m} /\ n = Cardinality(U)
  BY Zenon
<1>7. IsFiniteSet(U) /\ n \in Nat /\ Cardinality(T) = n + 1
  <2>1. IsFiniteSet(T) /\ Cardinality(T) \in Nat
    BY Zenon, <1>3, FS_CardinalityType
  <2>2. IsFiniteSet(U) /\ Cardinality(U) = Cardinality(T) - 1
    BY Zenon, <1>5, <1>6, <2>1, FS_RemoveElement
  <2>3. n \in Nat
    BY Zenon, <1>6, <2>2, FS_CardinalityType
  <2>4. QED
    BY <1>6, <2>1, <2>2, <2>3
<1>8. PICK u \in [1..n -> U] : Ordered(u)
  <2>1. U \in FiniteSubsetsOf(S) /\ <<U, T>> \in StrictSubsetOrdering(S)
    BY Zenon, <1>3, <1>5, <1>6, <1>7 DEF FiniteSubsetsOf, StrictSubsetOrdering
  <2>2. Listed(U)
    BY Zenon, <1>2, <2>1
  <2>3. QED
    BY Zenon, <1>6, <2>2
<1>9. \E t \in [1..n + 1 -> T] : Ordered(t)
  BY Zenon, <1>3, <1>5, <1>6, <1>7, <1>8, Prepend
<1>10. QED
  BY Zenon, <1>3, <1>7, <1>9

\* all_parts[l] lists the parts of layer l, all of them (BlobComms.cpp:101-111).
LEMMA AllParts ==
  ASSUME NEW l \in Layer
  PROVE  /\ all_parts[l] \in Seq(Part)
         /\ \A p \in PartsOf(l) : \E i \in DOMAIN all_parts[l] : all_parts[l][i] = p
<1> DEFINE S == PartsOf(l)
           n == Cardinality(S)
           s == all_parts[l]
<1>1. S \subseteq Part /\ S \in SUBSET Nat /\ IsFiniteSet(S)
  BY Zenon, CommsAssumption, FS_Subset DEF PartsOf
<1>2. n \in Nat
  BY Zenon, <1>1, FS_CardinalityType
<1>3. s \in [1..n -> S] /\ Ordered(s)
  BY Zenon, <1>1, OrderedListing DEF all_parts
<1>4. s \in Seq(Part)
  BY <1>1, <1>2, <1>3
<1>5. s \in Injection(1..n, S)
  <2>1. \A i, j \in 1..n : i # j => s[i] # s[j]
    BY <1>1, <1>2, <1>3 DEF Ordered
  <2>2. QED
    BY Zenon, <1>3, <2>1 DEF Injection, IsInjective
<1>6. s \in Surjection(1..n, S)
  BY <1>1, <1>2, <1>5, FS_Injection, FS_Interval
<1>7. QED
  BY Zenon, <1>3, <1>4, <1>6 DEF Surjection

------------------------------------------------------------------------------
Emptied(c, d) ==
  /\ \A i \in DOMAIN c.to_send : Discarded(c, c.to_send[i])
  /\ d = [c EXCEPT !.to_send = <<>>]

PickedAt(c, d, t, k) ==
  /\ k \in DOMAIN c.to_send
  /\ \A i \in DOMAIN c.to_send : i < k => Discarded(c, c.to_send[i])
  /\ d = Picked(c, k, t)

\* What the first critical section of send() does when no send is under way: all that
\* waits is cancelled and forgotten, or a part that is not cancelled is picked, and only
\* cancelled ones before it are forgotten (BlobComms.cpp:210-222).
LEMMA SendCases ==
  ASSUME NEW c \in CommsRecord, NEW t \in Thread, ~during_sending(c)
  PROVE  Emptied(c, send(c, t)) \/ \E k \in Nat : PickedAt(c, send(c, t), t, k)
<1> DEFINE live == {i \in DOMAIN c.to_send : ~Discarded(c, c.to_send[i])}
           first == CHOOSE k \in live : \A m \in live : k <= m
<1>1. c.to_send \in Seq(Part)
  BY Zenon DEF CommsRecord
<1>2. DOMAIN c.to_send \subseteq Nat
  BY <1>1
<1>3. CASE live = {}
  BY Zenon, <1>3 DEF send, Emptied
<1>4. CASE live # {}
  <2>1. \E k \in live : \A m \in live : k <= m
    BY Zenon, <1>2, <1>4, LeastElement
  <2>2. first \in live /\ \A m \in live : first <= m
    BY Zenon, <2>1
  <2>3. send(c, t) = Picked(c, first, t)
    BY Zenon, <1>4 DEF send
  <2> HIDE DEF first
  <2>4. first \in DOMAIN c.to_send /\ first \in Nat
    BY Zenon, <1>2, <2>2
  <2>5. ASSUME NEW i \in DOMAIN c.to_send, i < first PROVE Discarded(c, c.to_send[i])
    BY <1>2, <2>2, <2>4, <2>5
  <2>6. QED
    BY Zenon, <2>3, <2>4, <2>5 DEF PickedAt
<1>5. QED
  BY Zenon, <1>3, <1>4

\* The record after a pick.
LEMMA PickedFields ==
  ASSUME NEW c \in CommsRecord, NEW t \in Thread, NEW k \in DOMAIN c.to_send
  PROVE  LET d == Picked(c, k, t)
             p == c.to_send[k]
         IN  /\ d \in CommsRecord /\ p \in Part
             /\ d.phase = "picked" /\ d.by = t /\ d.part = p
             /\ d.label = c.sending_version[LayerOf[p]]
             /\ d.sending_version = c.sending_version
             /\ d.cancelled_version = c.cancelled_version
             /\ \A i \in DOMAIN c.to_send : i > k =>
                  \E j \in DOMAIN d.to_send : d.to_send[j] = c.to_send[i]
<1> DEFINE q == c.to_send
           r == SubSeq(q, k + 1, Len(q))
<1>1. q \in Seq(Part) /\ k \in 1..Len(q) /\ Len(q) \in Nat
  BY DEF CommsRecord
<1>2. q[k] \in Part /\ LayerOf[q[k]] \in Layer
  BY <1>1, LayerOfAssumption
<1>3. r \in Seq(Part) /\ Len(r) = Len(q) - k /\ \A j \in 1..Len(q) - k : r[j] = q[k + j]
  <2>1. PICK a \in Int, b \in Int : a = k + 1 /\ b = Len(q)
    BY <1>1
  <2>2. \A i \in a..b : q[i] \in Part
    BY <1>1, <2>1
  <2> HIDE DEF q
  <2>3. /\ SubSeq(q, a, b) \in Seq(Part)
        /\ Len(SubSeq(q, a, b)) = IF a <= b THEN b - a + 1 ELSE 0
        /\ \A j \in 1..b - a + 1 : SubSeq(q, a, b)[j] = q[a + j - 1]
    BY <2>2, SubSeqProperties
  <2>4. r = SubSeq(q, a, b)
    BY Zenon, <2>1
  <2> HIDE DEF r
  <2>5. /\ r \in Seq(Part) /\ Len(r) = IF a <= b THEN b - a + 1 ELSE 0
        /\ \A j \in 1..b - a + 1 : r[j] = q[a + j - 1]
    BY Zenon, <2>3, <2>4
  <2>6. /\ b - a + 1 = Len(q) - k /\ (a <= b \/ Len(q) - k = 0)
        /\ \A j \in 1..Len(q) - k : a + j - 1 = k + j
    BY <1>1, <2>1
  <2>7. Len(r) = Len(q) - k
    BY Zenon, <2>5, <2>6, <2>1
  <2> QED
    BY Zenon, <2>5, <2>6, <2>7
<1>4. c.sending_version[LayerOf[q[k]]] \in Version
  BY Zenon, <1>2 DEF CommsRecord
<1>5. \A i \in DOMAIN q : i > k => \E j \in DOMAIN r : r[j] = q[i]
  <2>1. DOMAIN q = 1..Len(q) /\ DOMAIN r = 1..Len(r)
    BY Zenon, <1>1, <1>3, LenProperties
  <2> HIDE DEF r, q
  <2>2. ASSUME NEW i \in 1..Len(q), i > k PROVE \E j \in 1..Len(r) : r[j] = q[i]
    <3>1. i - k \in 1..Len(r) /\ r[i - k] = q[i]
      BY <1>1, <1>3, <2>2
    <3>2. QED
      BY Zenon, <3>1
  <2>3. QED
    BY Zenon, <2>1, <2>2
<1>6. QED
  BY Zenon, <1>2, <1>3, <1>4, <1>5 DEF CommsRecord, Picked

------------------------------------------------------------------------------
\* Versions are naturals.
LEMMA VersionNat == Version \subseteq Nat /\ 0 \in Version
  BY CommsAssumption DEF Version

\* A new BlobCommsImpl has nothing to send and no send under way.
LEMMA InitIInv == Init => IInv
<1> SUFFICES ASSUME Init PROVE IInv
  BY Zenon
<1>1. TypeOK
  BY VersionNat DEF Init, TypeOK, NewComms, CommsRecord, Empty
<1>2. PhaseInv
  BY Zenon, CommsAssumption DEF Init, PhaseInv, NewComms
<1>3. \A p \in Part : pushed[p] <= comms.sending_version[LayerOf[p]] /\ arrived[p] >= pushed[p]
  BY LayerOfAssumption DEF Init, NewComms
<1>4. SomeoneWillSend
  BY Zenon DEF Init, SomeoneWillSend, NewComms
<1>5. QED
  BY Zenon, <1>1, <1>2, <1>3, <1>4 DEF IInv, NoPartLost

\* push() of a layer or of a part: what is pushed goes in front of what waits.
LEMMA Pushed ==
  ASSUME IInv, NEW t \in Thread, NEW l \in Layer, NEW v \in Version, NEW S \in SUBSET PartsOf(l),
         NEW q \in Seq(Part), \A p \in S : \E i \in DOMAIN q : q[i] = p,
         Free(t), \A p \in S : v > pushed[p],
         comms' = [RaiseVersion(comms, l, v) EXCEPT !.to_send = q \o @],
         pc' = [pc EXCEPT ![t] = "send"],
         pushed' = [p \in Part |-> IF p \in S THEN v ELSE pushed[p]],
         UNCHANGED <<net, buffer, arrived>>
  PROVE  IInv'
<1> DEFINE old == comms.to_send
           new == q \o old
<1>1. /\ old \in Seq(Part) /\ comms \in CommsRecord /\ LayerOf \in [Part -> Layer]
      /\ Version \subseteq Nat /\ comms.sending_version \in [Layer -> Version]
  BY Zenon, LayerOfAssumption, VersionNat DEF IInv, TypeOK, CommsRecord
<1>2. /\ new \in Seq(Part) /\ Len(new) = Len(q) + Len(old)
      /\ \A i \in 1..Len(q) + Len(old) :
           new[i] = IF i <= Len(q) THEN q[i] ELSE old[i - Len(q)]
  BY Zenon, <1>1, ConcatProperties
<1>3. /\ \A p \in S : \E i \in DOMAIN new : new[i] = p
      /\ \A i \in DOMAIN old : \E j \in DOMAIN new : new[j] = old[i]
  <2>1. /\ DOMAIN new = 1..Len(new) /\ DOMAIN q = 1..Len(q) /\ DOMAIN old = 1..Len(old)
        /\ Len(q) \in Nat /\ Len(old) \in Nat
    BY Zenon, <1>1, <1>2, LenProperties
  <2> HIDE DEF new, old
  <2>2. ASSUME NEW i \in 1..Len(q) PROVE i \in DOMAIN new /\ new[i] = q[i]
    BY <1>2, <2>1
  <2>3. ASSUME NEW i \in 1..Len(old) PROVE i + Len(q) \in DOMAIN new /\ new[i + Len(q)] = old[i]
    BY <1>2, <2>1
  <2>4. QED
    BY Zenon, <2>1, <2>2, <2>3
<1>4. /\ comms'.to_send = new
      /\ comms'.sending_version = [comms.sending_version EXCEPT ![l] = IF v > @ THEN v ELSE @]
      /\ comms'.cancelled_version = comms.cancelled_version /\ comms'.phase = comms.phase
      /\ comms'.part = comms.part /\ comms'.label = comms.label /\ comms'.by = comms.by
  BY Zenon, <1>1 DEF RaiseVersion, CommsRecord
<1>5. comms' \in CommsRecord
  BY Zenon, <1>1, <1>2 DEF RaiseVersion, CommsRecord
<1> HIDE DEF new
<1>6. /\ comms'.sending_version \in [Layer -> Version] /\ comms'.sending_version[l] >= v
      /\ \A k \in Layer : comms'.sending_version[k] >= comms.sending_version[k]
  <2>1. PICK sv, sw : sv = comms.sending_version /\ sw = comms'.sending_version
    BY Zenon
  <2>2. sv \in [Layer -> Nat] /\ v \in Nat /\ sw = [sv EXCEPT ![l] = IF v > sv[l] THEN v ELSE sv[l]]
    BY Zenon, <1>1, <1>4, <2>1
  <2>3. sw[l] >= v /\ \A k \in Layer : sw[k] >= sv[k]
    BY <2>2
  <2>4. sw \in [Layer -> Version]
    BY <1>1, <1>4, <2>1
  <2>5. QED
    BY Zenon, <2>1, <2>3, <2>4
<1>7. TypeOK'
  BY Zenon, <1>5 DEF IInv, TypeOK
<1>8. PhaseInv'
  <2>1. comms.label \in Version
    BY Zenon, <1>1 DEF CommsRecord
  <2>2. comms.phase = "picked" =>
          comms.part \in Part /\ comms.label <= comms'.sending_version[LayerOf[comms.part]]
    BY <1>1, <1>6, <2>1 DEF IInv, PhaseInv
  <2>3. QED
    BY Zenon, <1>4, <2>2 DEF IInv, PhaseInv
<1>9. \A p \in Part : pushed'[p] <= comms'.sending_version[LayerOf[p]]
  <2>1. \A p \in S : LayerOf[p] = l
    BY Zenon DEF PartsOf
  <2>2. \A p \in Part : pushed[p] \in Version /\ pushed[p] <= comms.sending_version[LayerOf[p]]
    BY Zenon DEF IInv, TypeOK
  <2>3. QED
    BY <1>1, <1>6, <2>1, <2>2
<1>10. NoPartLost'
  <2> SUFFICES ASSUME NEW p \in Part
               PROVE  (\/ arrived[p] >= pushed[p]
                       \/ comms.cancelled_version[LayerOf[p]] >= pushed[p]
                       \/ OnItsWay(p))'
    BY Zenon DEF NoPartLost
  <2>1. CASE p \in S
    BY Zenon, <1>3, <1>4, <2>1 DEF OnItsWay
  <2>2. CASE p \notin S
    <3>1. pushed'[p] = pushed[p]
      BY Zenon, <2>2
    <3>2. OnItsWay(p) => OnItsWay(p)'
      <4>1. (\E i \in DOMAIN old : old[i] = p) => \E i \in DOMAIN new : new[i] = p
        BY Zenon, <1>3
      <4>2. QED
        BY Zenon, <1>4, <3>1, <4>1 DEF OnItsWay
    <3>3. QED
      BY Zenon, <1>4, <3>1, <3>2 DEF IInv, NoPartLost
  <2>3. QED
    BY Zenon, <2>1, <2>2
<1>11. SomeoneWillSend'
  BY Zenon DEF IInv, TypeOK, SomeoneWillSend
<1>12. QED
  BY Zenon, <1>7, <1>8, <1>9, <1>10, <1>11 DEF IInv

\* push(layer, version) queues all the parts of the layer (BlobCommsImpl::push).
LEMMA PushLayerIInv ==
  ASSUME IInv, NEW t \in Thread, NEW l \in Layer, NEW v \in Version, PushLayer(t, l, v)
  PROVE  IInv'
<1>1. PartsOf(l) = {p \in Part : LayerOf[p] = l}
  BY Zenon DEF PartsOf
<1>2. pushed' = [p \in Part |-> IF p \in PartsOf(l) THEN v ELSE pushed[p]]
  BY Zenon, <1>1 DEF PushLayer
<1>3. QED
  BY Zenon, <1>2, AllParts, Pushed DEF PushLayer, push_layer

\* push(layer, blob, part, version) queues one part (BlobCommsImpl::push).
LEMMA PushPartIInv ==
  ASSUME IInv, NEW t \in Thread, NEW p \in Part, NEW v \in Version, PushPart(t, p, v)
  PROVE  IInv'
<1>1. LayerOf[p] \in Layer /\ {p} \in SUBSET PartsOf(LayerOf[p])
  BY Zenon, LayerOfAssumption DEF PartsOf
<1>2. <<p>> \in Seq(Part) /\ \A r \in {p} : \E i \in DOMAIN <<p>> : <<p>>[i] = r
  OBVIOUS
<1>3. pushed' = [r \in Part |-> IF r \in {p} THEN v ELSE pushed[r]]
  BY Zenon DEF PushPart, IInv, TypeOK
<1>4. PICK l \in Layer : l = LayerOf[p] /\ {p} \in SUBSET PartsOf(l)
  BY Zenon, <1>1
<1>5. PICK q \in Seq(Part) : q = <<p>> /\ \A r \in {p} : \E i \in DOMAIN q : q[i] = r
  BY Zenon, <1>2
<1>6. comms' = [RaiseVersion(comms, l, v) EXCEPT !.to_send = q \o @]
  BY Zenon, <1>4, <1>5 DEF PushPart, push_part
<1>7. Free(t) /\ pc' = [pc EXCEPT ![t] = "send"] /\ UNCHANGED <<net, buffer, arrived>>
      /\ \A r \in {p} : v > pushed[r]
  BY Zenon DEF PushPart
<1>8. QED
  BY Zenon, <1>3, <1>4, <1>5, <1>6, <1>7, Pushed

\* A cancelled version only rises.
LEMMA CancelIInv ==
  ASSUME IInv, NEW t \in Thread, NEW l \in Layer, NEW v \in Version, Cancel(t, l, v)
  PROVE  IInv'
<1>1. comms \in CommsRecord /\ comms.cancelled_version \in [Layer -> Version] /\ Version \subseteq Nat
  BY Zenon, VersionNat DEF IInv, TypeOK, CommsRecord
<1>2. /\ comms'.cancelled_version = [comms.cancelled_version EXCEPT ![l] = v]
      /\ comms'.to_send = comms.to_send /\ comms'.sending_version = comms.sending_version
      /\ comms'.phase = comms.phase /\ comms'.part = comms.part
      /\ comms'.label = comms.label /\ comms'.by = comms.by
  BY Zenon, <1>1 DEF Cancel, cancel, CommsRecord
<1>3. TypeOK'
  BY Zenon, <1>1 DEF Cancel, cancel, CommsRecord, IInv, TypeOK
<1>4. PhaseInv' /\ SomeoneWillSend'
  BY Zenon, <1>2 DEF Cancel, IInv, PhaseInv, SomeoneWillSend, during_sending
<1>5. \A p \in Part : pushed'[p] <= comms'.sending_version[LayerOf[p]]
  BY Zenon, <1>2 DEF Cancel, IInv
<1>6. \A k \in Layer : comms'.cancelled_version[k] \in Nat /\ comms.cancelled_version[k] \in Nat
                       /\ comms'.cancelled_version[k] >= comms.cancelled_version[k]
  <2> SUFFICES ASSUME NEW k \in Layer
               PROVE  comms'.cancelled_version[k] \in Nat /\ comms.cancelled_version[k] \in Nat
                      /\ comms'.cancelled_version[k] >= comms.cancelled_version[k]
    BY Zenon
  <2>1. comms.cancelled_version[k] \in Nat /\ v \in Nat /\ v > comms.cancelled_version[l]
    BY Zenon, <1>1 DEF Cancel
  <2>2. comms'.cancelled_version[k] = IF k = l THEN v ELSE comms.cancelled_version[k]
    BY Zenon, <1>1, <1>2
  <2>3. QED
    BY <2>1, <2>2
<1>7. NoPartLost'
  <2> SUFFICES ASSUME NEW p \in Part
               PROVE  (\/ arrived[p] >= pushed[p]
                       \/ comms.cancelled_version[LayerOf[p]] >= pushed[p]
                       \/ OnItsWay(p))'
    BY Zenon DEF NoPartLost
  <2>1. OnItsWay(p) => OnItsWay(p)'
    BY Zenon, <1>2 DEF Cancel, OnItsWay
  <2>2. pushed[p] \in Nat /\ LayerOf[p] \in Layer
    BY Zenon, <1>1, LayerOfAssumption DEF IInv, TypeOK
  <2>3. comms.cancelled_version[LayerOf[p]] >= pushed[p]
          => comms'.cancelled_version[LayerOf[p]] >= pushed[p]
    BY <1>6, <2>2
  <2>4. QED
    BY Zenon, <2>1, <2>3 DEF IInv, NoPartLost, Cancel
<1>8. QED
  BY Zenon, <1>3, <1>4, <1>5, <1>7 DEF IInv

\* A part that send() forgets was cancelled in its last version.
LEMMA SendIInv ==
  ASSUME IInv, NEW t \in Thread, Send(t)
  PROVE  IInv'
<1>1. /\ comms \in CommsRecord /\ comms.to_send \in Seq(Part) /\ pushed \in [Part -> Nat]
      /\ comms.sending_version \in [Layer -> Nat] /\ comms.cancelled_version \in [Layer -> Nat]
  BY Zenon, VersionNat DEF IInv, TypeOK, CommsRecord
<1>2. /\ comms' = send(comms, t) /\ pc' = [pc EXCEPT ![t] = "idle"]
      /\ UNCHANGED <<pushed, net, buffer, arrived>>
  BY Zenon DEF Send
<1>3. pc' \in [Thread -> {"idle", "send"}]
  BY Zenon, <1>2 DEF IInv, TypeOK
<1>4. CASE during_sending(comms)
  <2>1. comms' = comms
    BY Zenon, <1>2, <1>4 DEF send
  <2>2. QED
    BY <1>2, <1>3, <1>4, <2>1
       DEF IInv, TypeOK, PhaseInv, NoPartLost, OnItsWay, SomeoneWillSend, during_sending
<1>5. ASSUME ~during_sending(comms), NEW i \in DOMAIN comms.to_send,
             Discarded(comms, comms.to_send[i])
      PROVE  comms.cancelled_version[LayerOf[comms.to_send[i]]] >= pushed[comms.to_send[i]]
  <2>1. PICK p \in Part : p = comms.to_send[i]
    BY <1>1, <1>5
  <2>2. LayerOf[p] \in Layer /\ pushed[p] <= comms.sending_version[LayerOf[p]]
    BY Zenon, LayerOfAssumption DEF IInv
  <2>3. comms.sending_version[LayerOf[p]] <= comms.cancelled_version[LayerOf[p]]
    BY Zenon, <1>5, <2>1 DEF Discarded
  <2>4. QED
    BY <1>1, <2>1, <2>2, <2>3
<1>6. CASE ~during_sending(comms) /\ Emptied(comms, comms')
  <2>1. /\ comms' \in CommsRecord
        /\ comms'.to_send = <<>> /\ comms'.phase = comms.phase /\ comms'.by = comms.by
        /\ comms'.sending_version = comms.sending_version
        /\ comms'.cancelled_version = comms.cancelled_version
    <3>1. comms' = [comms EXCEPT !.to_send = <<>>] /\ <<>> \in Seq(Part)
      BY <1>6 DEF Emptied
    <3>2. QED
      BY Zenon, <1>1, <3>1 DEF CommsRecord
  <2>2. comms.phase = "free"
    BY Zenon, <1>6 DEF during_sending
  <2>3. NoPartLost'
    <3> SUFFICES ASSUME NEW p \in Part
                 PROVE  arrived[p] >= pushed[p] \/ comms.cancelled_version[LayerOf[p]] >= pushed[p]
      BY Zenon, <1>2, <2>1 DEF NoPartLost
    <3>1. CASE OnItsWay(p)
      BY Zenon, <1>5, <1>6, <2>2, <3>1 DEF OnItsWay, Emptied
    <3>2. QED
      BY Zenon, <3>1 DEF IInv, NoPartLost
  <2>4. QED
    BY Zenon, <1>2, <1>3, <2>1, <2>2, <2>3 DEF IInv, TypeOK, PhaseInv, SomeoneWillSend
<1>7. ASSUME NEW k \in Nat, ~during_sending(comms), PickedAt(comms, comms', t, k)
      PROVE  IInv'
  <2>1. k \in DOMAIN comms.to_send /\ comms' = Picked(comms, k, t)
    BY Zenon, <1>7 DEF PickedAt
  <2>2. PICK r \in Part : r = comms.to_send[k]
    BY <1>1, <2>1
  <2>3. /\ comms' \in CommsRecord
        /\ comms'.phase = "picked" /\ comms'.by = t /\ comms'.part = r
        /\ comms'.label = comms.sending_version[LayerOf[r]]
        /\ comms'.sending_version = comms.sending_version
        /\ comms'.cancelled_version = comms.cancelled_version
        /\ \A i \in DOMAIN comms.to_send : i > k =>
             \E j \in DOMAIN comms'.to_send : comms'.to_send[j] = comms.to_send[i]
    BY <1>1, <2>1, <2>2, PickedFields
  <2>4. comms.phase = "free" /\ net = <<>>
    BY Zenon, <1>7 DEF during_sending, IInv, PhaseInv
  <2>5. LayerOf[r] \in Layer /\ comms.sending_version[LayerOf[r]] \in Nat
    BY Zenon, <1>1, LayerOfAssumption
  <2>6. PhaseInv'
    BY <1>2, <2>3, <2>4, <2>5 DEF PhaseInv
  <2>7. NoPartLost'
    <3> SUFFICES ASSUME NEW p \in Part
                 PROVE  \/ arrived[p] >= pushed[p]
                        \/ comms.cancelled_version[LayerOf[p]] >= pushed[p]
                        \/ OnItsWay(p)'
      BY Zenon, <1>2, <2>3 DEF NoPartLost
    <3>1. ASSUME NEW i \in DOMAIN comms.to_send, comms.to_send[i] = p, i < k
          PROVE  comms.cancelled_version[LayerOf[p]] >= pushed[p]
      BY Zenon, <1>5, <1>7, <3>1 DEF PickedAt
    <3>2. CASE p = r
      BY Zenon, <1>2, <2>3, <3>2 DEF OnItsWay, IInv
    <3>3. ASSUME NEW i \in DOMAIN comms.to_send, comms.to_send[i] = p, i > k
          PROVE  OnItsWay(p)'
      BY Zenon, <2>3, <3>3 DEF OnItsWay
    <3>4. CASE OnItsWay(p)
      <4>1. PICK i \in DOMAIN comms.to_send : comms.to_send[i] = p
        BY Zenon, <2>4, <3>4 DEF OnItsWay
      <4>2. i < k \/ i = k \/ i > k
        BY <1>1, <4>1
      <4>3. QED
        BY Zenon, <2>2, <3>1, <3>2, <3>3, <4>1, <4>2
    <3>5. QED
      BY Zenon, <3>4 DEF IInv, NoPartLost
  <2>8. QED
    BY Zenon, <1>2, <1>3, <2>3, <2>6, <2>7 DEF IInv, TypeOK, SomeoneWillSend, during_sending
<1>8. QED
  BY Zenon, <1>1, <1>2, <1>4, <1>6, <1>7, SendCases

\* The posted version lies between the label and the layer's version, so it is not
\* older than the part's last one.
LEMMA PostIInv ==
  ASSUME IInv, NEW t \in Thread, Post(t)
  PROVE  IInv'
<1>1. /\ comms \in CommsRecord /\ pushed \in [Part -> Nat] /\ Version \subseteq Nat
      /\ comms.sending_version \in [Layer -> Version] /\ comms.label \in Version
  BY Zenon, VersionNat DEF IInv, TypeOK, CommsRecord
<1>2. comms.by = t /\ comms.phase = "picked"
  BY Zenon DEF Post, InSend, IInv, PhaseInv
<1>3. PICK r \in Part : r = comms.part
  BY Zenon, <1>2 DEF IInv, PhaseInv
<1>4. net = <<>>
  BY Zenon, <1>2 DEF IInv, PhaseInv
<1>5. PICK v \in comms.label .. comms.sending_version[LayerOf[r]] : buffer' = <<r, v>>
  BY Zenon, <1>3 DEF Post, Labels
<1>6. v \in Version /\ v \in Nat /\ v >= comms.label
  <2>1. PICK m \in Version : m = comms.sending_version[LayerOf[r]]
    BY Zenon, <1>1, LayerOfAssumption
  <2>2. PICK k \in Version : k = comms.label
    BY Zenon, <1>1
  <2>3. v \in k .. m
    BY Zenon, <1>5, <2>1, <2>2
  <2>4. QED
    BY <1>1, <2>1, <2>2, <2>3, CommsAssumption DEF Version
<1>7. /\ comms' \in CommsRecord /\ comms'.phase = "in_flight" /\ comms'.by = "none"
      /\ comms'.to_send = comms.to_send
      /\ comms'.sending_version = comms.sending_version
      /\ comms'.cancelled_version = comms.cancelled_version
  BY Zenon, <1>1 DEF Post, posted, CommsRecord
<1>8. net' = <<buffer'>> /\ UNCHANGED <<pc, pushed, arrived>>
  <2>1. net' = Append(<<>>, buffer')
    BY Zenon, <1>4 DEF Post
  <2>2. \A b : Append(<<>>, b) = <<b>>
    OBVIOUS
  <2>3. UNCHANGED <<pc, pushed, arrived>>
    BY Zenon DEF Post
  <2>4. QED
    BY Zenon, <2>1, <2>2, <2>3
<1>9. buffer' \in Part \X Version /\ buffer'[1] = r /\ buffer'[2] = v
  BY Zenon, <1>5, <1>6
<1>10. net' \in Seq(Part \X Version)
  BY <1>8, <1>9
<1>11. TypeOK'
  BY Zenon, <1>7, <1>8, <1>9, <1>10 DEF IInv, TypeOK
<1>12. PhaseInv'
  BY Zenon, <1>7, <1>8, CommsAssumption DEF PhaseInv
<1>13. NoPartLost'
  <2> SUFFICES ASSUME NEW p \in Part
               PROVE  \/ arrived[p] >= pushed[p]
                      \/ comms.cancelled_version[LayerOf[p]] >= pushed[p]
                      \/ OnItsWay(p)'
    BY Zenon, <1>7, <1>8 DEF NoPartLost
  <2>1. CASE \E i \in DOMAIN comms.to_send : comms.to_send[i] = p
    BY Zenon, <1>7, <2>1 DEF OnItsWay
  <2>2. CASE p = r /\ comms.label >= pushed[p]
    <3>1. v >= pushed'[p]
      <4>1. pushed'[p] = pushed[p] /\ pushed[p] \in Nat /\ comms.label \in Nat
        BY Zenon, <1>1, <1>8
      <4>2. QED
        BY <1>6, <2>2, <4>1
    <3>2. QED
      BY Zenon, <1>7, <1>9, <2>2, <3>1 DEF OnItsWay
  <2>3. QED
    BY Zenon, <1>2, <1>3, <2>1, <2>2 DEF IInv, NoPartLost, OnItsWay
<1>14. QED
  BY Zenon, <1>7, <1>8, <1>11, <1>12, <1>13 DEF IInv, SomeoneWillSend, during_sending

\* What was in flight has arrived, and the comm thread goes on to send().
LEMMA SentIInv ==
  ASSUME IInv, Sent
  PROVE  IInv'
<1>1. /\ comms \in CommsRecord /\ pushed \in [Part -> Nat] /\ arrived \in [Part -> Version]
      /\ Version \subseteq Nat /\ net \in Seq(Part \X Version)
  BY Zenon, VersionNat DEF IInv, TypeOK, CommsRecord
<1>2. comms.phase = "in_flight" /\ net = <<buffer>>
  BY Zenon DEF Sent, IInv, PhaseInv
<1>3. PICK r \in Part, v \in Version : buffer = <<r, v>>
  <2>1. net[1] \in Part \X Version
    BY <1>1, <1>2
  <2>2. QED
    BY <1>2, <2>1
<1>4. Head(net) = <<r, v>> /\ Tail(net) = <<>>
  BY <1>2, <1>3
<1>5. /\ arrived' = [arrived EXCEPT ![r] = IF v > @ THEN v ELSE @]
      /\ net' = <<>> /\ comms' = sent(comms) /\ pc' = [pc EXCEPT ![CommThread] = "send"]
      /\ UNCHANGED <<pushed, buffer>>
  <2>1. Head(net)[1] = r /\ Head(net)[2] = v
    BY <1>4
  <2>2. arrived' = [arrived EXCEPT ![r] = IF v > @ THEN v ELSE @]
    BY Zenon, <2>1 DEF Sent
  <2>3. QED
    BY Zenon, <1>4, <2>2 DEF Sent
<1>6. NoPart \in Part \cup {NoPart} /\ 0 \in Version
  BY CommsAssumption DEF Version
<1>7. /\ comms' \in CommsRecord /\ comms'.phase = "free" /\ comms'.by = comms.by
      /\ comms'.to_send = comms.to_send
      /\ comms'.sending_version = comms.sending_version
      /\ comms'.cancelled_version = comms.cancelled_version
  BY Zenon, <1>1, <1>5, <1>6 DEF sent, CommsRecord
<1>8. arrived' \in [Part -> Version] /\ pc' \in [Thread -> {"idle", "send"}]
  BY Zenon, <1>1, <1>5, CommsAssumption DEF IInv, TypeOK
<1>9. TypeOK'
  BY <1>5, <1>7, <1>8 DEF IInv, TypeOK
<1>10. PhaseInv'
  BY Zenon, <1>2, <1>5, <1>7 DEF IInv, PhaseInv
<1>11. \A p \in Part : arrived'[p] >= arrived[p] /\ (p = r => arrived'[p] >= v)
  <2> SUFFICES ASSUME NEW p \in Part
               PROVE  arrived'[p] >= arrived[p] /\ (p = r => arrived'[p] >= v)
    BY Zenon
  <2>1. arrived[p] \in Nat /\ v \in Nat
    BY Zenon, <1>1
  <2>2. arrived'[p] = IF p = r THEN (IF v > arrived[p] THEN v ELSE arrived[p]) ELSE arrived[p]
    BY Zenon, <1>1, <1>5
  <2>3. QED
    BY <2>1, <2>2
<1>12. NoPartLost'
  <2> SUFFICES ASSUME NEW p \in Part
               PROVE  \/ arrived'[p] >= pushed[p]
                      \/ comms.cancelled_version[LayerOf[p]] >= pushed[p]
                      \/ OnItsWay(p)'
    BY Zenon, <1>5, <1>7 DEF NoPartLost
  <2>1. arrived[p] \in Nat /\ arrived'[p] \in Nat /\ pushed[p] \in Nat /\ v \in Nat
    BY Zenon, <1>1, <1>8
  <2>2. CASE arrived[p] >= pushed[p]
    BY <1>11, <2>1, <2>2
  <2>3. CASE \E i \in DOMAIN comms.to_send : comms.to_send[i] = p
    BY Zenon, <1>7, <2>3 DEF OnItsWay
  <2>4. CASE p = r /\ v >= pushed[p]
    BY <1>11, <2>1, <2>4
  <2>5. CASE OnItsWay(p)
    BY Zenon, <1>2, <1>3, <2>3, <2>4, <2>5 DEF OnItsWay
  <2>6. QED
    BY Zenon, <2>2, <2>5 DEF IInv, NoPartLost
<1>13. SomeoneWillSend'
  <2>1. pc'[CommThread] = "send" /\ CommThread \in Thread
    BY Zenon, <1>5, CommsAssumption DEF IInv, TypeOK
  <2>2. QED
    BY Zenon, <2>1 DEF SomeoneWillSend
<1>14. QED
  BY Zenon, <1>5, <1>7, <1>9, <1>10, <1>12, <1>13 DEF IInv

------------------------------------------------------------------------------
\* The invariant holds in every reachable state of a BlobCommsImpl object, whatever
\* threads push, cancel, send and complete sends.
THEOREM Invariance == Spec => []IInv
<1>1. IInv /\ [Next]_vars => IInv'
  <2> SUFFICES ASSUME IInv, [Next]_vars PROVE IInv'
    BY Zenon
  <2>1. ASSUME NEW t \in Thread, Run(t) PROVE IInv'
    BY Zenon, <2>1, SendIInv, PostIInv DEF Run
  <2>2. ASSUME NEW t \in Thread, NEW v \in Version, NEW l \in Layer,
               PushLayer(t, l, v) \/ Cancel(t, l, v)
        PROVE  IInv'
    BY Zenon, <2>2, PushLayerIInv, CancelIInv
  <2>3. ASSUME NEW t \in Thread, NEW v \in Version, NEW p \in Part, PushPart(t, p, v)
        PROVE  IInv'
    BY Zenon, <2>3, PushPartIInv
  <2>4. CASE UNCHANGED vars
    BY Zenon, <2>4 DEF vars, IInv, TypeOK, PhaseInv, NoPartLost, OnItsWay, SomeoneWillSend, during_sending
  <2>5. QED
    BY Zenon, <2>1, <2>2, <2>3, <2>4, SentIInv DEF Next
<1>2. QED
  BY <1>1, InitIInv, PTL DEF Spec

\* While the transport holds a message, the send buffer is what was posted: the next
\* part is not encoded before sent() (BlobCommsImpl::send, sent).
THEOREM BufferSafety == Spec => []BufferIntact
<1>1. IInv => BufferIntact
  BY DEF IInv, PhaseInv, BufferIntact
<1>2. QED
  BY <1>1, Invariance, PTL

\* A queue that is not empty is looked at again: a send is under way, or some thread
\* still has its call of send() before it.
THEOREM QueueSafety == Spec => []SomeoneWillSend
<1>1. IInv => SomeoneWillSend
  BY Zenon DEF IInv
<1>2. QED
  BY <1>1, Invariance, PTL

\* The last pushed version of a part has been taken by the transport, or is cancelled,
\* or is queued or being sent: push, send and sent drop nothing between them.
THEOREM PushedPartsKept == Spec => []NoPartLost
<1>1. IInv => NoPartLost
  BY Zenon DEF IInv
<1>2. QED
  BY <1>1, Invariance, PTL
==============================================================================
