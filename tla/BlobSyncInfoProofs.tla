------------------------- MODULE BlobSyncInfoProofs -------------------------
(***************************************************************************)
(* For every number of threads, remotes, layers, parts and versions: the   *)
(* CHECK in received() does not fail, the two records of receipts agree,   *)
(* and reports are complete when calls do not overlap.                     *)
(***************************************************************************)
EXTENDS BlobSyncInfo, FiniteSetTheorems, TLAPS

InfoRecord ==
  [remotes            : SUBSET RemoteId,
   version            : [Part -> Nat],
   received_from      : [Part -> SUBSET RemoteId],
   current_versions   : [Layer -> Nat],
   received_for_layer : [Layer -> SUBSET (RemoteId \X Part)]]

InsertCall == [pc : {"insert"}, from : RemoteId, part : Part, version : Nat]
PartCall == [pc : {"part", "call_part", "layer", "call_layer"}, part : Part]
\* The layers a loop over the layers has before it.
Lefts == (SUBSET Synced) \ {{}}
NetCall ==
  [pc : {"net", "net_version"}, left : Lefts, seen : SUBSET Nat,
   next : InsertCall \cup {Idle}]
RemovedCall == [pc : {"removed"}, left : IF Part = {} THEN {{}} ELSE Lefts]

CallType == {Idle} \cup InsertCall \cup PartCall \cup NetCall \cup RemovedCall

TypeOK ==
  /\ overlap \in BOOLEAN /\ early \in BOOLEAN /\ aborted \in BOOLEAN
  /\ info \in InfoRecord
  /\ call \in [Thread -> CallType]
  /\ barrier \in [Layer -> Nat]
  /\ sent \in [RemoteId -> [Part -> Nat]]
  /\ layer_calls \in [Layer -> SUBSET Nat]

InNet(c) == c.pc \in {"net", "net_version"}

\* The insertion a thread is going to make, if any.
Pending(c) ==
  IF c.pc = "insert" THEN {c}
  ELSE IF InNet(c) /\ c.next.pc = "insert" THEN {c.next} ELSE {}

\* The delivery a thread is about to insert is one of its own remotes, and newer than
\* what the object has of that remote for the part.
PendingNew ==
  \A t \in Thread : \A i \in Pending(call[t]) :
    /\ i.from \in CallsBy[t] \cap info.remotes
    /\ i.version <= sent[i.from][i.part]
    /\ i.from \in info.received_from[i.part] => info.version[i.part] < i.version

\* What the object has was delivered by remotes that it knows.
Truthful ==
  \A p \in Part : \A r \in info.received_from[p] :
    r \in info.remotes /\ info.version[p] <= sent[r][p]

\* While no report was early: of each layer, nobody is more than one version behind the
\* barrier, and none ahead of it.
InStep ==
  /\ \A p \in Part :
       /\ info.version[p] <= info.current_versions[LayerOf[p]]
       /\ barrier[LayerOf[p]] <= info.version[p] + 1
  /\ \A l \in Layer : info.current_versions[l] <= barrier[l] /\ 1 <= barrier[l]
  /\ \A r \in info.remotes, p \in Part :
       sent[r][p] <= barrier[LayerOf[p]] /\ barrier[LayerOf[p]] <= sent[r][p] + 1
  /\ \A t \in Thread : \A i \in Pending(call[t]) : i.version = barrier[LayerOf[i.part]]

\* A registered remote that stays has delivered the version before the barrier.
Settled ==
  \A r \in Registered \ MayLeave :
    /\ r \in info.remotes
    /\ \A p \in Part :
         (0 < info.version[p] /\ info.version[p] < barrier[LayerOf[p]])
           => r \in info.received_from[p]

\* A layer whose report the remotes have heard is complete.
Heard ==
  \A l \in Layer :
    /\ \A v \in layer_calls[l] : v <= barrier[l]
    /\ barrier[l] \in layer_calls[l] => Complete(l, barrier[l])

CompleteNow(l) == Complete(l, info.current_versions[l])

\* What a thread alone in the object has checked still holds when it makes the report.
Checked(c) ==
  /\ c.pc = "call_part" => info.remotes \subseteq info.received_from[c.part]
  /\ c.pc = "call_layer" => CompleteNow(LayerOf[c.part])
  /\ InNet(c) => \A l \in Synced \ c.left :
                   c.seen = {info.current_versions[l]} /\ CompleteNow(l)
  /\ c.pc = "net_version" => CompleteNow(FirstOf(c.left))

\* Calls that do not overlap: one thread is inside at a time, and no report is early.
Alone ==
  /\ \A t, u \in Thread : t # u => call[t].pc = "idle" \/ call[u].pc = "idle"
  /\ \A t \in Thread : Checked(call[t])
  /\ ~early

\* The inductive invariant.
IInv ==
  /\ TypeOK
  /\ PendingNew
  /\ Truthful
  /\ NoAbort
  /\ ~early => InStep /\ Settled /\ Heard
  /\ KeysAgree
  /\ ~overlap => Alone

-----------------------------------------------------------------------------
\* The kinds of call told apart by pc.
LEMMA Kinds ==
  ASSUME NEW c \in CallType
  PROVE  /\ c.pc = "insert" => c \in InsertCall
         /\ c.pc \in {"part", "call_part", "layer", "call_layer"} => c \in PartCall
         /\ InNet(c) => c \in NetCall
         /\ c.pc = "removed" => c \in RemovedCall
         /\ Pending(c) \subseteq InsertCall
  BY DEF CallType, InsertCall, PartCall, NetCall, RemovedCall, Idle, InNet, Pending

\* part_synced() counts enough senders only if all the remotes are among them
\* (BlobInfo.cpp:241-245).
LEMMA PartSynced ==
  ASSUME IInv, NEW p \in Part, part_synced(info, p)
  PROVE  info.remotes \subseteq info.received_from[p]
<1>1. info.remotes \subseteq RemoteId /\ info.received_from[p] \subseteq info.remotes
  BY Zenon DEF IInv, TypeOK, InfoRecord, Truthful
<1>2. IsFiniteSet(info.remotes)
  BY Zenon, <1>1, SyncAssumption, FS_Subset
<1>3. /\ Cardinality(info.received_from[p]) \in Nat /\ Cardinality(info.remotes) \in Nat
      /\ Cardinality(info.received_from[p]) <= Cardinality(info.remotes)
      /\ Cardinality(info.remotes) = Cardinality(info.received_from[p])
           => info.remotes = info.received_from[p]
  BY Zenon, <1>1, <1>2, FS_Subset, FS_CardinalityType
<1>4. QED
  BY <1>3 DEF part_synced

\* is_synced() counts enough keys only if every remote has delivered every part of the
\* layer in its current version (BlobInfo.cpp:230-234).
LEMMA LayerSynced ==
  ASSUME IInv, ~early, NEW l \in Layer, is_synced(info, l)
  PROVE  CompleteNow(l)
<1> DEFINE keys == info.received_for_layer[l]
<1>1. info.remotes \subseteq RemoteId
  BY Zenon DEF IInv, TypeOK, InfoRecord
<1>2. keys = {k \in RemoteId \X PartsOf(l) : /\ info.version[k[2]] = info.current_versions[l]
                                            /\ info.current_versions[l] > 0
                                            /\ k[1] \in info.received_from[k[2]]}
  BY Zenon DEF IInv, KeysAgree
<1>3. keys \subseteq info.remotes \X PartsOf(l)
  BY Zenon, <1>2 DEF IInv, Truthful, PartsOf
<1>4. IsFiniteSet(info.remotes) /\ IsFiniteSet(PartsOf(l))
  BY Zenon, <1>1, SyncAssumption, FS_Subset DEF PartsOf
<1>5. /\ IsFiniteSet(info.remotes \X PartsOf(l))
      /\ Cardinality(info.remotes \X PartsOf(l)) = Cardinality(info.remotes) * Cardinality(PartsOf(l))
  BY Zenon, <1>4, FS_Product
<1>6. /\ Cardinality(keys) \in Nat /\ Cardinality(info.remotes \X PartsOf(l)) \in Nat
      /\ Cardinality(keys) <= Cardinality(info.remotes \X PartsOf(l))
      /\ Cardinality(info.remotes \X PartsOf(l)) = Cardinality(keys)
           => info.remotes \X PartsOf(l) = keys
  BY Zenon, <1>3, <1>5, FS_Subset, FS_CardinalityType
<1>7. Cardinality(keys) >= Cardinality(info.remotes \X PartsOf(l))
  BY <1>4, <1>5, FS_CardinalityType DEF is_synced
<1>8. info.remotes \X PartsOf(l) = keys
  BY <1>6, <1>7
<1>9. PICK r \in Registered \ MayLeave : r \in info.remotes
  BY Zenon, SyncAssumption DEF IInv, Settled
<1>10. \A p \in PartsOf(l) : info.version[p] = info.current_versions[l]
  <2> SUFFICES ASSUME NEW p \in PartsOf(l) PROVE info.version[p] = info.current_versions[l]
    BY Zenon
  <2>1. <<r, p>> \in keys
    BY Zenon, <1>8, <1>9
  <2>2. QED
    BY <1>2, <2>1
<1>11. \A p \in PartsOf(l), s \in info.remotes : s \in info.received_from[p]
  <2> SUFFICES ASSUME NEW p \in PartsOf(l), NEW s \in info.remotes
               PROVE  s \in info.received_from[p]
    BY Zenon
  <2>1. <<s, p>> \in keys
    BY Zenon, <1>8
  <2>2. QED
    BY <1>2, <2>1
<1>12. QED
  BY Zenon, <1>10, <1>11 DEF CompleteNow, Complete

\* A new object has heard nothing, and every remote starts on version 1.
LEMMA InitIInv == Init => IInv
<1> SUFFICES ASSUME Init PROVE IInv
  BY Zenon
<1>1. TypeOK
  BY Zenon, SyncAssumption DEF Init, TypeOK, NewSyncInfo, InfoRecord, CallType
<1>2. \A t \in Thread : call[t].pc = "idle"
  BY Zenon DEF Init, Idle
<1>3. PendingNew /\ Truthful /\ NoAbort /\ KeysAgree
  BY <1>2 DEF Init, NewSyncInfo, PendingNew, Pending, InNet, Truthful, NoAbort, KeysAgree
<1>4. InStep /\ Settled /\ Heard
  BY <1>2, LayerOfAssumption, SyncAssumption
     DEF Init, NewSyncInfo, InStep, Pending, InNet, Settled, Heard
<1>5. Alone
  BY Zenon, <1>2 DEF Init, Alone, Checked, InNet
<1>6. QED
  BY Zenon, <1>1, <1>3, <1>4, <1>5 DEF IInv

\* A step in which thread t goes on from one check or callback to the next, and the
\* records of the object stay as they are.
LEMMA QuietStep ==
  ASSUME IInv, NEW t \in Thread, NEW d \in CallType, call[t].pc # "idle",
         call' = [call EXCEPT ![t] = d],
         UNCHANGED <<overlap, info, barrier, sent, aborted>>,
         Pending(d) \subseteq Pending(call[t]),
         layer_calls' \in [Layer -> SUBSET Nat], early' \in BOOLEAN, early => early',
         ~early' => Heard', ~overlap => Checked(d) /\ ~early'
  PROVE  IInv'
<1>1. call' \in [Thread -> CallType] /\ call'[t] = d /\ \A u \in Thread \ {t} : call'[u] = call[u]
  BY Zenon DEF IInv, TypeOK
<1>2. \A u \in Thread : Pending(call'[u]) \subseteq Pending(call[u])
  BY Zenon, <1>1
<1>3. TypeOK'
  BY Zenon, <1>1 DEF IInv, TypeOK
<1>4. PendingNew'
  BY Zenon, <1>2 DEF IInv, PendingNew
<1>5. Truthful' /\ NoAbort' /\ KeysAgree'
  BY Zenon DEF IInv, Truthful, NoAbort, KeysAgree
<1>6. ~early' => InStep' /\ Settled'
  BY Zenon, <1>2 DEF IInv, InStep, Settled
<1>7. ~overlap => Alone'
  <2> SUFFICES ASSUME ~overlap PROVE Alone'
    BY Zenon
  <2>1. \A u \in Thread \ {t} : call[u].pc = "idle"
    BY Zenon DEF IInv, Alone
  <2>2. \A u \in Thread : Checked(call'[u])
    BY Zenon, <1>1 DEF IInv, Alone
  <2>3. \A u \in Thread : Checked(call'[u]) => Checked(call[u])'
    BY DEF Checked, CompleteNow, Complete
  <2>4. QED
    BY <1>1, <2>1, <2>2, <2>3 DEF Alone
<1>8. QED
  BY Zenon, <1>3, <1>4, <1>5, <1>6, <1>7 DEF IInv

\* The steps between two critical sections that change nothing but the thread's place.
LEMMA PartStepsIInv ==
  ASSUME IInv, NEW t \in Thread, CheckPart(t) \/ CallPart(t) \/ CheckLayer(t)
  PROVE  IInv'
<1>1. /\ call[t] \in CallType /\ layer_calls \in [Layer -> SUBSET Nat] /\ early \in BOOLEAN
      /\ ~early => Heard
      /\ ~overlap => ~early
  BY Zenon DEF IInv, TypeOK, Alone
<1>2. UNCHANGED <<overlap, info, barrier, sent, aborted, layer_calls, early>>
  BY Zenon DEF CheckPart, CallPart, CheckLayer
<1>3. ~early' => Heard'
  BY Zenon, <1>1, <1>2 DEF Heard, Complete
<1>4. /\ call[t].pc # "idle" /\ layer_calls' \in [Layer -> SUBSET Nat] /\ early' \in BOOLEAN
      /\ early => early'
      /\ ~overlap => ~early'
  BY Zenon, <1>1, <1>2 DEF CheckPart, CallPart, CheckLayer
<1>5. ASSUME NEW d \in CallType, Pending(d) = {}, call' = [call EXCEPT ![t] = d],
             ~overlap => Checked(d)
      PROVE  IInv'
  <2>1. Pending(d) \subseteq Pending(call[t])
    BY Zenon, <1>5
  <2>2. ~overlap => Checked(d) /\ ~early'
    BY Zenon, <1>4, <1>5
  <2>3. QED
    BY Zenon, <1>2, <1>3, <1>4, <1>5, <2>1, <2>2, QuietStep
<1>6. call[t] \in PartCall /\ call[t].part \in Part /\ LayerOf[call[t].part] \in Layer
  BY Zenon, <1>1, Kinds, LayerOfAssumption DEF CheckPart, CallPart, CheckLayer, PartCall
<1>7. Idle \in CallType /\ Pending(Idle) = {} /\ Checked(Idle)
  BY Zenon DEF CallType, Pending, Idle, InNet, Checked
<1>8. \A pc \in {"call_part", "layer", "call_layer"} : LET d == [call[t] EXCEPT !.pc = pc] IN
        /\ d \in CallType /\ Pending(d) = {} /\ d.pc = pc /\ d.part = call[t].part
        /\ ~InNet(d)
  BY Zenon, <1>6 DEF PartCall, CallType, Pending, InNet
<1>9. CASE CheckPart(t)
  <2>1. CASE part_synced(info, call[t].part)
    <3> DEFINE d == [call[t] EXCEPT !.pc = "call_part"]
    <3>1. Checked(d)
      BY Zenon, <1>6, <1>8, <2>1, PartSynced DEF Checked
    <3>2. call' = [call EXCEPT ![t] = d]
      BY Zenon, <1>9, <2>1 DEF CheckPart
    <3> HIDE DEF d
    <3>3. d \in CallType /\ Pending(d) = {}
      BY Zenon, <1>8 DEF d
    <3>4. QED
      BY Zenon, <1>5, <3>1, <3>2, <3>3
  <2>2. CASE ~part_synced(info, call[t].part)
    <3>1. call' = [call EXCEPT ![t] = Idle]
      BY Zenon, <1>9, <2>2 DEF CheckPart
    <3>2. QED
      BY Zenon, <1>5, <1>7, <3>1
  <2>3. QED
    BY Zenon, <2>1, <2>2
<1>10. CASE CallPart(t)
  <2> DEFINE d == [call[t] EXCEPT !.pc = "layer"]
  <2>1. call' = [call EXCEPT ![t] = d]
    BY Zenon, <1>10 DEF CallPart
  <2>2. Checked(d) /\ d \in CallType /\ Pending(d) = {}
    BY Zenon, <1>8 DEF Checked
  <2> HIDE DEF d
  <2>3. QED
    BY Zenon, <1>5, <2>1, <2>2
<1>11. CASE CheckLayer(t)
  <2>1. CASE is_synced(info, LayerOf[call[t].part])
    <3> DEFINE d == [call[t] EXCEPT !.pc = "call_layer"]
    <3>1. ~overlap => CompleteNow(LayerOf[call[t].part])
      BY Zenon, <1>1, <1>6, <2>1, LayerSynced
    <3>2. ~overlap => Checked(d)
      BY Zenon, <1>8, <3>1 DEF Checked
    <3>3. call' = [call EXCEPT ![t] = d]
      BY Zenon, <1>11, <2>1 DEF CheckLayer
    <3>4. d \in CallType /\ Pending(d) = {}
      BY Zenon, <1>8
    <3> HIDE DEF d
    <3>5. QED
      BY Zenon, <1>5, <3>2, <3>3, <3>4
  <2>2. CASE ~is_synced(info, LayerOf[call[t].part])
    <3>1. call' = [call EXCEPT ![t] = Idle]
      BY Zenon, <1>11, <2>2 DEF CheckLayer
    <3>2. QED
      BY Zenon, <1>5, <1>7, <3>1
  <2>3. QED
    BY Zenon, <2>1, <2>2
<1>12. QED
  BY Zenon, <1>9, <1>10, <1>11

\* The loops over the layers take them in order and find one as long as any is left.
LEMMA FirstLeft ==
  ASSUME NEW left \in Lefts
  PROVE  FirstOf(left) \in left /\ FirstOf(left) \in Layer
<1>1. left \subseteq Nat /\ left # {} /\ left \subseteq Layer
  BY Zenon, SyncAssumption DEF Lefts, Synced
<1>2. \E m \in left : \A k \in left : ~(<<k, m>> \in OpToRel(<, Nat))
  BY Zenon, <1>1, NatLessThanWellFounded, WFMin
<1>3. \E m \in left : \A k \in left : ~(k < m)
  BY Zenon, <1>1, <1>2 DEF OpToRel
<1>4. \E m \in left : \A k \in left : m <= k
  BY <1>1, <1>3
<1>5. QED
  BY Zenon, <1>1, <1>4 DEF FirstOf

\* The net-wide check starts with every layer that has parts before it.
LEMMA NetCheckFields ==
  ASSUME NEW next \in InsertCall \cup {Idle}, Synced # {}
  PROVE  /\ NetCheck(next) \in CallType
         /\ Pending(NetCheck(next)) \subseteq {next}
         /\ next = Idle => Pending(NetCheck(next)) = {}
         /\ NetCheck(next).pc = "net"
         /\ Checked(NetCheck(next))
  BY DEF Lefts, NetCheck, CallType, NetCall, Pending, InNet, Checked, Idle

\* The layer of a part has something to sync.
LEMMA LayerOfPart ==
  ASSUME NEW p \in Part
  PROVE  LayerOf[p] \in Layer /\ LayerOf[p] \in Synced /\ p \in PartsOf(LayerOf[p])
  BY Zenon, LayerOfAssumption DEF Synced, needs_syncing, PartsOf

\* A report of a complete layer leaves true what the remotes rely on.
LEMMA Reported ==
  ASSUME IInv, ~early, NEW l \in Layer, CompleteNow(l), UNCHANGED <<info, barrier>>,
         layer_calls' = [layer_calls EXCEPT ![l] = @ \cup {info.current_versions[l]}]
  PROVE  Heard'
<1>1. Heard /\ layer_calls \in [Layer -> SUBSET Nat] /\ info.current_versions[l] <= barrier[l]
  BY Zenon DEF IInv, TypeOK, InStep
<1>2. \A k \in Layer : layer_calls'[k] =
        IF k = l THEN layer_calls[l] \cup {info.current_versions[l]} ELSE layer_calls[k]
  BY Zenon, <1>1
<1>3. \A k \in Layer : \A v \in layer_calls'[k] : v <= barrier[k]
  BY Zenon, <1>1, <1>2 DEF Heard
<1>4. \A k \in Layer : barrier[k] \in layer_calls'[k] => Complete(k, barrier[k])
  BY Zenon, <1>1, <1>2 DEF Heard, CompleteNow
<1>5. QED
  BY Zenon, <1>3, <1>4 DEF Heard, Complete

\* The report synced(layer, v) with the version read after the check.
LEMMA CallLayerIInv ==
  ASSUME IInv, NEW t \in Thread, CallLayer(t)
  PROVE  IInv'
<1>1. /\ call[t] \in CallType /\ layer_calls \in [Layer -> SUBSET Nat] /\ early \in BOOLEAN
      /\ info.current_versions \in [Layer -> Nat]
      /\ ~overlap => ~early /\ Checked(call[t])
  BY Zenon DEF IInv, TypeOK, InfoRecord, Alone
<1>2. PICK l \in Layer : l = LayerOf[call[t].part] /\ l \in Synced
  BY Zenon, <1>1, Kinds, LayerOfPart DEF CallLayer, PartCall
<1>3. /\ call[t].pc = "call_layer" /\ call' = [call EXCEPT ![t] = NetCheck(Idle)]
      /\ layer_calls' = [layer_calls EXCEPT ![l] = @ \cup {info.current_versions[l]}]
      /\ early' = (early \/ ~CompleteNow(l))
      /\ UNCHANGED <<overlap, info, barrier, sent, aborted>>
  BY Zenon, <1>2 DEF CallLayer, CompleteNow
<1>4. layer_calls' \in [Layer -> SUBSET Nat] /\ early' \in BOOLEAN
  BY Zenon, <1>1, <1>3
<1>5. early => early'
  BY Zenon, <1>3
<1>6. ~early' => Heard'
  BY Zenon, <1>3, Reported
<1>7. ~overlap => ~early'
  BY Zenon, <1>1, <1>2, <1>3 DEF Checked
<1>8. Idle \in InsertCall \cup {Idle}
  BY Zenon
<1>9. PICK d \in CallType : d = NetCheck(Idle) /\ Pending(d) = {} /\ Checked(d)
  BY Zenon, <1>2, <1>8, NetCheckFields
<1>10. Pending(d) \subseteq Pending(call[t])
  BY Zenon, <1>9
<1>11. QED
  BY Zenon, <1>3, <1>4, <1>5, <1>6, <1>7, <1>9, <1>10, QuietStep

\* The two halves of a turn of the net-wide check.
LEMMA NetStepsIInv ==
  ASSUME IInv, NEW t \in Thread, NetSynced(t) \/ NetVersion(t)
  PROVE  IInv'
<1>1. /\ layer_calls \in [Layer -> SUBSET Nat] /\ early \in BOOLEAN
      /\ info.current_versions \in [Layer -> Nat]
      /\ ~early => Heard
      /\ ~overlap => ~early /\ Checked(call[t])
  BY Zenon DEF IInv, TypeOK, InfoRecord, Alone
<1>2. /\ UNCHANGED <<overlap, info, barrier, sent, aborted, layer_calls, early>>
      /\ InNet(call[t]) /\ call[t].pc # "idle"
  BY Zenon DEF NetSynced, NetVersion, InNet
<1>3. ~early' => Heard'
  BY Zenon, <1>1, <1>2 DEF Heard, Complete
<1>4. PICK c \in NetCall : c = call[t]
  BY Zenon, <1>2, Kinds DEF IInv, TypeOK
<1>5. PICK l : l = FirstOf(c.left)
  BY Zenon
<1>6. c.left \in Lefts /\ c.next \in InsertCall \cup {Idle} /\ InNet(c)
  BY Zenon, <1>2, <1>4 DEF NetCall
<1>7. l \in c.left /\ l \in Layer
  BY Zenon, <1>5, <1>6, FirstLeft
<1>8. c.next \in CallType /\ Pending(c.next) \subseteq Pending(c) /\ Checked(c.next)
  BY <1>6 DEF CallType, Pending, Checked, InNet, InsertCall, Idle
<1>9. ASSUME NEW d \in CallType, Pending(d) \subseteq Pending(c), call' = [call EXCEPT ![t] = d],
             ~overlap => Checked(d)
      PROVE  IInv'
  <2>1. /\ layer_calls' \in [Layer -> SUBSET Nat] /\ early' \in BOOLEAN
        /\ early => early'
    BY Zenon, <1>1, <1>2
  <2>2. ~overlap => Checked(d) /\ ~early'
    BY Zenon, <1>1, <1>2, <1>9
  <2>3. Pending(d) \subseteq Pending(call[t])
    BY Zenon, <1>4, <1>9
  <2>4. QED
    BY Zenon, <1>2, <1>3, <1>9, <2>1, <2>2, <2>3, QuietStep
<1>10. CASE call' = [call EXCEPT ![t] = c.next]
  BY Zenon, <1>8, <1>9, <1>10
<1>11. CASE NetSynced(t)
  <2>1. CASE is_synced(info, l)
    <3> DEFINE d == [c EXCEPT !.pc = "net_version"]
    <3>1. call' = [call EXCEPT ![t] = d]
      BY Zenon, <1>4, <1>5, <1>11, <2>1 DEF NetSynced
    <3>2. d \in CallType /\ Pending(d) = Pending(c)
      BY Zenon, <1>6 DEF NetCall, CallType, Pending, InNet
    <3>3. ~overlap => CompleteNow(l)
      BY Zenon, <1>1, <1>7, <2>1, LayerSynced DEF CompleteNow
    <3>4. /\ d.pc = "net_version" /\ d.left = c.left /\ d.seen = c.seen
      BY Zenon DEF NetCall
    <3>5. ~overlap => Checked(d)
      BY Zenon, <1>1, <1>4, <1>5, <1>6, <3>3, <3>4 DEF Checked
    <3> HIDE DEF d
    <3>6. QED
      BY Zenon, <1>9, <3>1, <3>2, <3>5
  <2>2. CASE ~is_synced(info, l)
    BY Zenon, <1>4, <1>5, <1>10, <1>11, <2>2 DEF NetSynced
  <2>3. QED
    BY Zenon, <2>1, <2>2
<1>12. CASE NetVersion(t)
  <2>1. CASE c.left # {l} /\ c.seen \subseteq {info.current_versions[l]}
    <3> DEFINE d == [c EXCEPT !.pc = "net", !.left = @ \ {l}, !.seen = {info.current_versions[l]}]
    <3>1. call' = [call EXCEPT ![t] = d]
      BY Zenon, <1>4, <1>5, <1>12, <2>1 DEF NetVersion
    <3>2. d.pc = "net" /\ d.left = c.left \ {l} /\ d.seen = {info.current_versions[l]}
          /\ d.next = c.next
      BY Zenon DEF NetCall
    <3>3. c.left \ {l} \in Lefts
      BY Zenon, <1>6, <1>7, <2>1 DEF Lefts
    <3>4. d \in NetCall
      BY Zenon, <1>1, <1>7, <3>3 DEF NetCall
    <3>5. Pending(d) = Pending(c)
      BY Zenon, <1>6, <3>2 DEF NetCall, Pending, InNet
    <3>6. call[t].pc = "net_version"
      BY Zenon, <1>12 DEF NetVersion
    <3>7. ~overlap => \A k \in Synced \ d.left : d.seen = {info.current_versions[k]} /\ CompleteNow(k)
      BY Zenon, <1>1, <1>4, <1>5, <1>6, <2>1, <3>2, <3>6 DEF Checked
    <3>8. ~overlap => Checked(d)
      BY Zenon, <3>2, <3>7 DEF Checked, InNet
    <3> HIDE DEF d
    <3>9. QED
      BY Zenon, <1>9, <3>1, <3>4, <3>5, <3>8 DEF CallType
  <2>2. CASE ~(c.left # {l} /\ c.seen \subseteq {info.current_versions[l]})
    BY Zenon, <1>4, <1>5, <1>10, <1>12, <2>2 DEF NetVersion
  <2>3. QED
    BY Zenon, <2>1, <2>2
<1>13. QED
  BY Zenon, <1>11, <1>12

\* The reports of remove_remote().
LEMMA ReportAfterRemoveIInv ==
  ASSUME IInv, NEW t \in Thread, ReportAfterRemove(t)
  PROVE  IInv'
<1>1. /\ layer_calls \in [Layer -> SUBSET Nat] /\ early \in BOOLEAN
      /\ info.current_versions \in [Layer -> Nat]
      /\ ~early => Heard
      /\ ~overlap => ~early
  BY Zenon DEF IInv, TypeOK, InfoRecord, Alone
<1>2. PICK c \in RemovedCall : c = call[t] /\ c.pc = "removed"
  BY Zenon, Kinds DEF IInv, TypeOK, ReportAfterRemove
<1>3. PICK l : l = FirstOf(c.left)
  BY Zenon
<1>4. /\ layer_calls' = IF is_synced(info, l)
                        THEN [layer_calls EXCEPT ![l] = @ \cup {info.current_versions[l]}]
                        ELSE layer_calls
      /\ early' = (early \/ (is_synced(info, l) /\ ~CompleteNow(l)))
      /\ call' = [call EXCEPT ![t] = IF c.left = {l} THEN NetCheck(Idle)
                                     ELSE [c EXCEPT !.left = @ \ {l}]]
      /\ UNCHANGED <<overlap, info, barrier, sent, aborted>>
  BY Zenon, <1>2, <1>3 DEF ReportAfterRemove, CompleteNow
<1>5. /\ Part # {} => c.left \in Lefts /\ l \in c.left /\ l \in Layer
      /\ Part = {} => c.left = {}
  BY Zenon, <1>2, <1>3, FirstLeft DEF RemovedCall
<1>6. layer_calls' \in [Layer -> SUBSET Nat] /\ early' \in BOOLEAN
  BY Zenon, <1>1, <1>4
<1>7. early => early'
  BY Zenon, <1>4
<1>8. ~early' => Heard'
  <2> SUFFICES ASSUME ~early' PROVE Heard'
    BY Zenon
  <2>1. ~early /\ (is_synced(info, l) => CompleteNow(l))
    BY Zenon, <1>4
  <2>2. CASE is_synced(info, l) /\ l \in Layer
    BY Zenon, <1>4, <2>1, <2>2, Reported
  <2>3. CASE ~(is_synced(info, l) /\ l \in Layer)
    <3>1. layer_calls' = layer_calls
      BY Zenon, <1>1, <1>4, <2>3
    <3>2. QED
      BY Zenon, <1>1, <1>4, <2>1, <3>1 DEF Heard, Complete
  <2>4. QED
    BY Zenon, <2>2, <2>3
<1>9. ~overlap => ~early'
  <2>1. CASE Part = {}
    BY Zenon, <1>1, <1>4, <2>1 DEF CompleteNow, Complete, PartsOf
  <2>2. CASE Part # {}
    BY Zenon, <1>1, <1>4, <1>5, <2>2, LayerSynced
  <2>3. QED
    BY Zenon, <2>1, <2>2
<1>10. PICK d \in CallType : /\ call' = [call EXCEPT ![t] = d]
                            /\ Pending(d) = {} /\ Checked(d)
  <2>1. CASE c.left = {l}
    <3>1. Synced # {}
      BY Zenon, <1>5, <2>1 DEF Lefts
    <3>2. NetCheck(Idle) \in CallType /\ Pending(NetCheck(Idle)) = {} /\ Checked(NetCheck(Idle))
      BY Zenon, <3>1, NetCheckFields
    <3>3. QED
      BY Zenon, <1>4, <2>1, <3>2
  <2>2. CASE c.left # {l}
    <3> DEFINE d == [c EXCEPT !.left = @ \ {l}]
    <3>1. d \in RemovedCall
      BY Zenon, <1>5, <2>2 DEF RemovedCall, Lefts
    <3>2. d.pc = "removed"
      BY Zenon, <3>1 DEF RemovedCall
    <3>3. call' = [call EXCEPT ![t] = d]
      BY Zenon, <1>4, <2>2
    <3> HIDE DEF d
    <3>4. d \in CallType /\ Pending(d) = {} /\ Checked(d)
      BY Zenon, <3>1, <3>2 DEF CallType, Pending, InNet, Checked
    <3>5. QED
      BY Zenon, <3>3, <3>4
  <2>3. QED
    BY Zenon, <2>1, <2>2
<1>11. call[t].pc # "idle" /\ Pending(d) \subseteq Pending(call[t])
  BY Zenon, <1>2, <1>10
<1>12. QED
  BY Zenon, <1>4, <1>6, <1>7, <1>8, <1>9, <1>10, <1>11, QuietStep

\* Threads deliver for different remotes.
LEMMA OwnRemotes ==
  ASSUME NEW t \in Thread, NEW u \in Thread, t # u
  PROVE  CallsBy[t] \cap CallsBy[u] = {}
  BY Zenon, SyncAssumption

\* A delivery that is not dropped is newer than what the object has from that remote
\* and, as long as no report was early, of the barrier's version.
LEMMA Newer ==
  ASSUME IInv, NEW t \in Thread, NEW r \in RemoteId, NEW p \in Part, NEW v \in Nat,
         Begin(t, r, p, v)
  PROVE  /\ r \in info.received_from[p] => info.version[p] < v
         /\ ~early => v = barrier[LayerOf[p]]
         /\ \A q \in Part : SentOrJoined(r, q) \in Nat
         /\ r \in info.remotes => sent[r][p] <= v
<1>1. /\ info.version[p] \in Nat /\ \A q \in Part : sent[r][q] \in Nat
      /\ barrier \in [Layer -> Nat] /\ LayerOf \in [Part -> Layer]
      /\ r \in info.received_from[p] => r \in info.remotes /\ info.version[p] <= sent[r][p]
      /\ ~overlap => ~early
      /\ ~early => InStep /\ Settled
  BY LayerOfAssumption DEF IInv, TypeOK, InfoRecord, Truthful, Alone
<1>2. r \notin info.remotes => ~early
  BY Zenon, <1>1 DEF Begin, MayJoin
<1>3. \A q \in Part : SentOrJoined(r, q) \in Nat
  BY <1>1, <1>2 DEF SentOrJoined, InStep
<1>4. received_version(info, r, p) =
        IF r \in info.received_from[p] THEN info.version[p]
        ELSE IF info.version[p] = 0 THEN 0 ELSE info.version[p] - 1
  BY Zenon DEF received_version
<1>5. r = Self \/ received_version(info, r, p) < v
  BY <1>1, <1>4 DEF Begin, Ignored
<1>6. CASE v = SentOrJoined(r, p) + 1 /\ v <= barrier[LayerOf[p]]
  <2>1. r \in info.remotes => v = sent[r][p] + 1
    BY Zenon, <1>6 DEF SentOrJoined
  <2>2. r \in info.received_from[p] => info.version[p] < v
    BY <1>1, <2>1
  <2>3. ASSUME ~early PROVE v = barrier[LayerOf[p]]
    <3>1. r \in info.remotes => barrier[LayerOf[p]] <= sent[r][p] + 1
      BY Zenon, <1>1, <2>3 DEF InStep
    <3>2. r \notin info.remotes => v = (barrier[LayerOf[p]] - 1) + 1
      BY Zenon, <1>6 DEF SentOrJoined
    <3>3. QED
      BY <1>1, <1>6, <2>1, <3>1, <3>2
  <2>4. QED
    BY <1>1, <1>3, <2>1, <2>2, <2>3
<1>7. CASE v = sent[r][p] /\ v > 0 /\ r \in Registered \ (MayLeave \cup {Self})
  <2>1. received_version(info, r, p) < v
    BY Zenon, <1>5, <1>7
  <2>2. r \in info.received_from[p] => info.version[p] < v
    BY Zenon, <1>4, <2>1
  <2>3. ASSUME ~early PROVE v = barrier[LayerOf[p]]
    <3> DEFINE b == barrier[LayerOf[p]]
    <3>1. r \in info.remotes
      BY Zenon, <1>1, <1>7, <2>3 DEF Settled
    <3>2. /\ v <= b /\ b <= v + 1
          /\ info.version[p] <= info.current_versions[LayerOf[p]]
          /\ info.current_versions[LayerOf[p]] <= b /\ b <= info.version[p] + 1
      BY Zenon, <1>1, <1>7, <2>3, <3>1 DEF InStep
    <3>3. (0 < info.version[p] /\ info.version[p] < b) => r \in info.received_from[p]
      BY Zenon, <1>1, <1>7, <2>3 DEF Settled
    <3>4. b \in Nat /\ info.current_versions[LayerOf[p]] \in Nat
      BY Zenon, <1>1 DEF IInv, TypeOK, InfoRecord
    <3>5. CASE info.version[p] < b
      BY <1>1, <1>7, <2>2, <3>2, <3>3, <3>4, <3>5
    <3>6. CASE info.version[p] = b
      BY <1>1, <1>4, <1>7, <2>1, <3>2, <3>4, <3>6
    <3>7. info.version[p] <= b
      BY <1>1, <3>2, <3>4
    <3>8. QED
      BY <1>1, <3>4, <3>5, <3>6, <3>7
  <2>4. QED
    BY <1>1, <1>3, <1>7, <2>2, <2>3
<1>8. QED
  BY Zenon, <1>6, <1>7 DEF Begin, MaySend

\* A thread enters received().
LEMMA BeginIInv ==
  ASSUME IInv, NEW t \in Thread, NEW r \in RemoteId, NEW p \in Part, NEW v \in Nat,
         Begin(t, r, p, v)
  PROVE  IInv'
<1> DEFINE insert == [pc |-> "insert", from |-> r, part |-> p, version |-> v]
           new == IF r \in info.remotes THEN insert ELSE NetCheck(insert)
<1>1. /\ r \in info.received_from[p] => info.version[p] < v
      /\ ~early => v = barrier[LayerOf[p]]
      /\ \A q \in Part : SentOrJoined(r, q) \in Nat
      /\ r \in info.remotes => sent[r][p] <= v
  BY Zenon, Newer
<1>2. /\ call[t].pc = "idle" /\ r \in CallsBy[t]
      /\ r \in info.remotes \/ MayJoin
      /\ call' = [call EXCEPT ![t] = new] /\ info' = add_remote(info, r)
      /\ sent' = [sent EXCEPT ![r] = [q \in Part |-> IF q = p THEN v ELSE SentOrJoined(r, q)]]
      /\ UNCHANGED <<overlap, barrier, layer_calls, early, aborted>>
  BY Zenon DEF Begin, MayEnter
<1>3. /\ info' \in InfoRecord /\ info'.remotes = info.remotes \cup {r}
      /\ info'.version = info.version /\ info'.received_from = info.received_from
      /\ info'.current_versions = info.current_versions
      /\ info'.received_for_layer = info.received_for_layer
  BY Zenon, <1>2 DEF IInv, TypeOK, InfoRecord, add_remote
<1>4. insert \in InsertCall /\ Synced # {}
  BY Zenon, LayerOfPart DEF InsertCall
<1>5. PICK d \in CallType :
        /\ d = new /\ Pending(d) = {insert} /\ (InNet(d) => d.left = Synced)
        /\ d.pc # "call_part" /\ d.pc # "call_layer" /\ d.pc # "net_version"
  <2>1. CASE r \in info.remotes
    BY <1>4, <2>1 DEF CallType, Pending, InNet
  <2>2. CASE r \notin info.remotes
    <3>1. NetCheck(insert) \in CallType /\ NetCheck(insert).pc = "net"
      BY Zenon, <1>4, NetCheckFields
    <3>2. NetCheck(insert).left = Synced /\ NetCheck(insert).next = insert /\ insert.pc = "insert"
      BY Zenon DEF NetCheck
    <3>3. Pending(NetCheck(insert)) = {insert}
      BY Zenon, <3>1, <3>2 DEF Pending, InNet
    <3>4. QED
      BY Zenon, <2>2, <3>1, <3>2, <3>3
  <2>3. QED
    BY Zenon, <2>1, <2>2
<1>6. insert.from = r /\ insert.part = p /\ insert.version = v
  BY Zenon
<1> HIDE DEF new, insert
<1>7. call' \in [Thread -> CallType] /\ call'[t] = d /\ \A u \in Thread \ {t} : call'[u] = call[u]
  BY Zenon, <1>2, <1>5 DEF IInv, TypeOK
<1>8. /\ sent' \in [RemoteId -> [Part -> Nat]]
      /\ \A s \in RemoteId \ {r} : sent'[s] = sent[s]
      /\ \A q \in Part : sent'[r][q] = IF q = p THEN v ELSE SentOrJoined(r, q)
  BY Zenon, <1>1, <1>2 DEF IInv, TypeOK
<1>9. TypeOK'
  BY Zenon, <1>2, <1>3, <1>7, <1>8 DEF IInv, TypeOK
<1>10. \A q \in Part : r \in info.remotes => sent[r][q] <= sent'[r][q]
  <2> SUFFICES ASSUME NEW q \in Part, r \in info.remotes PROVE sent[r][q] <= sent'[r][q]
    BY Zenon
  <2>1. sent[r][q] \in Nat
    BY Zenon DEF IInv, TypeOK
  <2>2. q # p => sent'[r][q] = sent[r][q]
    BY Zenon, <1>8 DEF SentOrJoined
  <2>3. QED
    BY <1>1, <1>8, <2>1, <2>2
<1>11. PendingNew'
  <2> SUFFICES ASSUME NEW u \in Thread, NEW i \in Pending(call'[u])
               PROVE  /\ i.from \in CallsBy[u] \cap info'.remotes
                      /\ i.version <= sent'[i.from][i.part]
                      /\ i.from \in info'.received_from[i.part] => info'.version[i.part] < i.version
    BY Zenon DEF PendingNew
  <2>1. CASE u = t
    <3>1. i = insert
      BY Zenon, <1>5, <1>7, <2>1
    <3>2. v <= sent'[r][p]
      BY <1>8
    <3>3. QED
      BY Zenon, <1>1, <1>2, <1>3, <1>6, <2>1, <3>1, <3>2
  <2>2. CASE u # t
    <3>1. /\ i.from \in CallsBy[u] \cap info.remotes
          /\ i.version <= sent[i.from][i.part]
          /\ i.from \in info.received_from[i.part] => info.version[i.part] < i.version
      BY Zenon, <1>7, <2>2 DEF IInv, PendingNew
    <3>2. i.from # r /\ i.from \in RemoteId
      BY Zenon, <1>2, <2>2, <3>1, OwnRemotes, SyncAssumption
    <3>3. QED
      BY Zenon, <1>3, <1>8, <3>1, <3>2
  <2>3. QED
    BY Zenon, <2>1, <2>2
<1>12. Truthful'
  <2> SUFFICES ASSUME NEW q \in Part, NEW s \in info.received_from[q]
               PROVE  s \in info'.remotes /\ info.version[q] <= sent'[s][q]
    BY Zenon, <1>3 DEF Truthful
  <2>1. s \in info.remotes /\ s \in RemoteId /\ info.version[q] <= sent[s][q]
        /\ info.version[q] \in Nat /\ sent[s][q] \in Nat /\ sent'[s][q] \in Nat
    BY <1>8 DEF IInv, Truthful, TypeOK, InfoRecord
  <2>2. sent[s][q] <= sent'[s][q]
    BY <1>8, <1>10, <2>1
  <2>3. QED
    BY <1>3, <2>1, <2>2
<1>13. NoAbort' /\ KeysAgree'
  BY <1>2, <1>3 DEF IInv, NoAbort, KeysAgree
<1>14. ~early' => InStep' /\ Settled' /\ Heard'
  <2> SUFFICES ASSUME ~early PROVE InStep' /\ Settled' /\ Heard'
    BY Zenon, <1>2
  <2>1. v = barrier[LayerOf[p]] /\ InStep /\ Settled /\ Heard
    BY Zenon, <1>1 DEF IInv
  <2>2. \A s \in info'.remotes, q \in Part :
          sent'[s][q] <= barrier[LayerOf[q]] /\ barrier[LayerOf[q]] <= sent'[s][q] + 1
    <3> SUFFICES ASSUME NEW s \in info'.remotes, NEW q \in Part
                 PROVE  sent'[s][q] <= barrier[LayerOf[q]] /\ barrier[LayerOf[q]] <= sent'[s][q] + 1
      BY Zenon
    <3>1. barrier[LayerOf[q]] \in Nat /\ 1 <= barrier[LayerOf[q]]
      BY Zenon, <2>1, LayerOfPart DEF IInv, TypeOK, InStep
    <3>2. CASE s # r
      BY Zenon, <1>3, <1>8, <2>1, <3>2 DEF InStep, IInv, TypeOK, InfoRecord
    <3>3. CASE s = r /\ q = p
      BY <1>8, <2>1, <3>1, <3>3
    <3>4. CASE s = r /\ q # p
      <4>1. sent'[s][q] = IF r \in info.remotes THEN sent[r][q] ELSE barrier[LayerOf[q]] - 1
        BY Zenon, <1>8, <3>4 DEF SentOrJoined
      <4>2. QED
        BY <2>1, <3>1, <4>1 DEF InStep
    <3>5. QED
      BY Zenon, <3>2, <3>3, <3>4
  <2>3. \A u \in Thread : \A i \in Pending(call'[u]) : i.version = barrier[LayerOf[i.part]]
    BY <1>5, <1>6, <1>7, <2>1 DEF InStep
  <2>4. InStep'
    BY Zenon, <1>2, <1>3, <2>1, <2>2, <2>3 DEF InStep
  <2>5. Settled'
    BY Zenon, <1>2, <1>3, <2>1 DEF Settled
  <2>6. Heard'
    <3>1. \A l \in Layer : barrier[l] \in layer_calls[l] => Complete(l, barrier[l])'
      <4> SUFFICES ASSUME NEW l \in Layer, barrier[l] \in layer_calls[l]
                   PROVE  Complete(l, barrier[l])'
        BY Zenon
      <4>1. CASE r \in info.remotes
        BY Zenon, <1>2, <1>3, <2>1, <4>1 DEF Heard, Complete
      <4>2. CASE MayJoin
        BY Zenon, <4>2 DEF MayJoin, Synced, needs_syncing, Complete
      <4>3. QED
        BY Zenon, <1>2, <4>1, <4>2
    <3>2. QED
      BY Zenon, <1>2, <2>1, <3>1 DEF Heard
  <2>7. QED
    BY Zenon, <2>4, <2>5, <2>6
<1>15. ~overlap' => Alone'
  <2> SUFFICES ASSUME ~overlap PROVE Alone'
    BY Zenon, <1>2
  <2>1. \A u \in Thread \ {t} : call[u].pc = "idle"
    BY Zenon DEF Begin, MayEnter
  <2>2. Checked(d)'
    BY Zenon, <1>5 DEF Checked
  <2>3. \A u \in Thread \ {t} : Checked(call[u])'
    BY Zenon, <1>7, <2>1 DEF Checked, InNet
  <2>4. ~early'
    BY Zenon, <1>2 DEF IInv, Alone
  <2>5. QED
    BY <1>7, <2>1, <2>2, <2>3, <2>4 DEF Alone
<1>16. QED
  BY Zenon, <1>9, <1>11, <1>12, <1>13, <1>14, <1>15 DEF IInv

\* The senders of a part and the keys of its layer after a delivery.
SendersThen(s, r, p, v) ==
  SendersFor(s, p, v) \cup (IF Accepted(s, r, p, v) THEN {r} ELSE {})
KeysThen(s, r, p, v) == KeysFor(s, p, v) \cup {<<r, p>>}

Inserted(s, n, r, p, v) ==
  /\ n \in InfoRecord /\ n.remotes = s.remotes
  /\ n.version = [s.version EXCEPT ![p] = v]
  /\ n.received_from = [s.received_from EXCEPT ![p] = SendersThen(s, r, p, v)]
  /\ n.current_versions =
       [s.current_versions EXCEPT
          ![LayerOf[p]] = IF v > s.current_versions[LayerOf[p]] THEN v ELSE @]
  /\ n.received_for_layer =
       [s.received_for_layer EXCEPT ![LayerOf[p]] = KeysThen(s, r, p, v)]

\* The critical section of received(), field by field (BlobInfo.cpp:142-164).
LEMMA ReceivedFields ==
  ASSUME NEW s \in InfoRecord, NEW r \in RemoteId, NEW p \in Part, NEW v \in Nat,
         v >= s.version[p]
  PROVE  Inserted(s, received(s, r, p, v), r, p, v)
<1>1. PICK n : n = received(s, r, p, v)
  BY Zenon
<1> DEFINE l == LayerOf[p]
<1> l \in Layer
  BY Zenon, LayerOfAssumption
<1>2. s.version \in [Part -> Nat] /\ s.received_from \in [Part -> SUBSET RemoteId]
      /\ s.current_versions \in [Layer -> Nat]
      /\ s.received_for_layer \in [Layer -> SUBSET (RemoteId \X Part)]
  BY Zenon DEF InfoRecord
<1>3. PICK ss \in SUBSET RemoteId : ss = SendersThen(s, r, p, v)
  BY Zenon, <1>2 DEF SendersThen, SendersFor
<1>4. PICK kk \in SUBSET (RemoteId \X Part) : kk = KeysThen(s, r, p, v)
  <2>1. KeysFor(s, p, v) \subseteq RemoteId \X Part
    BY Zenon, <1>2 DEF KeysFor
  <2>2. <<r, p>> \in RemoteId \X Part
    BY Zenon
  <2>3. KeysThen(s, r, p, v) \subseteq RemoteId \X Part
    BY Zenon, <2>1, <2>2 DEF KeysThen
  <2>4. QED
    BY Zenon, <2>3
<1>5. n = [s EXCEPT !.version[p] = v, !.received_from[p] = ss,
                    !.current_versions[l] = IF v > @ THEN v ELSE @,
                    !.received_for_layer[l] = kk]
  BY <1>1, <1>2, <1>3, <1>4 DEF received, SendersThen, KeysThen
<1>6. /\ n.remotes = s.remotes
      /\ n.version = [s.version EXCEPT ![p] = v]
      /\ n.received_from = [s.received_from EXCEPT ![p] = ss]
      /\ n.current_versions =
           [s.current_versions EXCEPT ![l] = IF v > s.current_versions[l] THEN v ELSE @]
      /\ n.received_for_layer = [s.received_for_layer EXCEPT ![l] = kk]
  BY Zenon, <1>5 DEF InfoRecord
<1>7. n \in InfoRecord
  <2>1. PICK a1 \in [Part -> Nat] : a1 = [s.version EXCEPT ![p] = v]
    BY Zenon, <1>2
  <2>2. PICK a2 \in [Part -> SUBSET RemoteId] : a2 = [s.received_from EXCEPT ![p] = ss]
    BY Zenon, <1>2
  <2>3. PICK a3 \in [Layer -> Nat] : a3 =
          [s.current_versions EXCEPT ![l] = IF v > s.current_versions[l] THEN v ELSE @]
    BY Zenon, <1>2
  <2>4. PICK a4 \in [Layer -> SUBSET (RemoteId \X Part)] : a4 =
          [s.received_for_layer EXCEPT ![l] = kk]
    BY Zenon, <1>2
  <2>5. n = [s EXCEPT !.version = a1, !.received_from = a2, !.current_versions = a3,
                      !.received_for_layer = a4]
    BY Zenon, <1>5, <2>1, <2>2, <2>3, <2>4
  <2>6. QED
    BY Zenon, <2>5 DEF InfoRecord
<1>8. QED
  BY Zenon, <1>1, <1>3, <1>4, <1>6, <1>7 DEF Inserted

\* A thread inserts its delivery.
LEMMA InsertIInv ==
  ASSUME IInv, NEW t \in Thread, Insert(t)
  PROVE  IInv'
<1>1. PICK c \in InsertCall : c = call[t] /\ c.pc = "insert"
  BY Zenon, Kinds DEF IInv, TypeOK, Insert
<1>2. PICK r \in RemoteId, p \in Part, v \in Nat : r = c.from /\ p = c.part /\ v = c.version
  BY Zenon DEF InsertCall
<1>3. /\ aborted' = CheckFails(info, r, p, v) /\ info' = received(info, r, p, v)
      /\ call' = [call EXCEPT ![t] =
                    IF Accepted(info, r, p, v) THEN [pc |-> "part", part |-> p] ELSE Idle]
      /\ UNCHANGED <<overlap, barrier, sent, layer_calls, early>>
  BY Zenon, <1>1, <1>2 DEF Insert
<1>4. /\ r \in CallsBy[t] \cap info.remotes /\ v <= sent[r][p]
      /\ r \in info.received_from[p] => info.version[p] < v
      /\ ~early => v = barrier[LayerOf[p]]
  <2>1. c \in Pending(call[t])
    BY Zenon, <1>1 DEF Pending
  <2>2. QED
    BY Zenon, <1>2, <2>1 DEF IInv, PendingNew, InStep
<1>5. /\ info \in InfoRecord /\ info.version \in [Part -> Nat] /\ LayerOf[p] \in Layer
      /\ info.received_from \in [Part -> SUBSET RemoteId]
      /\ info.current_versions \in [Layer -> Nat]
      /\ info.received_for_layer \in [Layer -> SUBSET (RemoteId \X Part)]
      /\ sent \in [RemoteId -> [Part -> Nat]] /\ barrier \in [Layer -> Nat]
  BY Zenon, LayerOfAssumption DEF IInv, TypeOK, InfoRecord
<1>6. ~CheckFails(info, r, p, v)
  BY Zenon, <1>4, <1>5 DEF CheckFails, SendersFor
<1>7. aborted' = FALSE
  BY Zenon, <1>3, <1>6 DEF CheckFails
<1>8. PICK d \in CallType : call' = [call EXCEPT ![t] = d] /\ d.pc \in {"part", "idle"}
  <2>1. [pc |-> "part", part |-> p] \in CallType /\ Idle \in CallType
    BY Zenon DEF CallType, PartCall
  <2>2. QED
    BY Zenon, <1>3, <2>1 DEF Idle
<1>9. call' \in [Thread -> CallType] /\ call'[t] = d /\ \A u \in Thread \ {t} : call'[u] = call[u]
  BY Zenon, <1>8 DEF IInv, TypeOK
<1>10. Pending(d) = {}
  BY Zenon, <1>8 DEF Pending, InNet
<1>11. info.version[p] \in Nat
  BY Zenon, <1>5
<1>12. CASE v < info.version[p]
  <2>1. info' = info /\ early
    BY <1>3, <1>4, <1>5, <1>12, LayerOfPart DEF received, IInv, InStep
  <2>2. overlap
    BY Zenon, <2>1 DEF IInv, Alone
  <2>3. TypeOK' /\ NoAbort'
    BY Zenon, <1>3, <1>7, <1>9, <2>1 DEF IInv, TypeOK, NoAbort
  <2>4. PendingNew'
    BY Zenon, <1>3, <1>9, <1>10, <2>1 DEF IInv, PendingNew
  <2>5. QED
    BY Zenon, <1>3, <2>1, <2>2, <2>3, <2>4 DEF IInv, Truthful, KeysAgree
<1>13. CASE v >= info.version[p]
  <2> DEFINE l == LayerOf[p]
             senders == SendersThen(info, r, p, v)
             keys == KeysThen(info, r, p, v)
  <2>1. /\ info' \in InfoRecord /\ info'.remotes = info.remotes
        /\ info'.version = [info.version EXCEPT ![p] = v]
        /\ info'.received_from = [info.received_from EXCEPT ![p] = senders]
        /\ info'.current_versions =
             [info.current_versions EXCEPT ![l] = IF v > info.current_versions[l] THEN v ELSE @]
        /\ info'.received_for_layer = [info.received_for_layer EXCEPT ![l] = keys]
    <3>1. Inserted(info, info', r, p, v)
      BY Zenon, <1>3, <1>5, <1>13, ReceivedFields
    <3>2. QED
      BY Zenon, <3>1 DEF Inserted
  <2>2. /\ info'.version[p] = v
        /\ \A q \in Part \ {p} : info'.version[q] = info.version[q]
                                 /\ info'.received_from[q] = info.received_from[q]
        /\ info'.received_from[p] = senders
    BY Zenon, <1>5, <2>1
  <2>3. \A s \in senders : s = r \/ (s \in info.received_from[p] /\ v = info.version[p])
    <3> SUFFICES ASSUME NEW s \in SendersThen(info, r, p, v), s # r
                 PROVE  s \in info.received_from[p] /\ v = info.version[p]
      BY Zenon
    <3>1. s \in SendersFor(info, p, v)
      BY Zenon DEF SendersThen
    <3>2. ~(v > info.version[p]) /\ s \in info.received_from[p]
      BY Zenon, <3>1 DEF SendersFor
    <3>3. QED
      BY <1>11, <1>13, <3>2
  <2>4. TypeOK' /\ NoAbort'
    BY Zenon, <1>3, <1>7, <1>9, <2>1 DEF IInv, TypeOK, NoAbort
  <2> HIDE DEF senders
  <2>5. PendingNew'
    <3> SUFFICES ASSUME NEW u \in Thread, NEW i \in Pending(call'[u])
                 PROVE  /\ i.from \in CallsBy[u] \cap info'.remotes
                        /\ i.version <= sent[i.from][i.part]
                        /\ i.from \in info'.received_from[i.part] => info'.version[i.part] < i.version
      BY Zenon, <1>3 DEF PendingNew
    <3>1. u # t /\ i \in Pending(call[u])
      BY Zenon, <1>9, <1>10
    <3>2. i \in InsertCall
      BY Zenon, <3>1, Kinds DEF IInv, TypeOK
    <3>3. /\ i.from \in CallsBy[u] \cap info.remotes
          /\ i.version <= sent[i.from][i.part]
          /\ i.from \in info.received_from[i.part] => info.version[i.part] < i.version
      BY Zenon, <3>1 DEF IInv, PendingNew
    <3>4. i.from # r
      BY Zenon, <1>4, <3>1, <3>3, OwnRemotes
    <3>5. i.from \in info'.received_from[i.part] => info'.version[i.part] < i.version
      <4>1. CASE i.part = p
        BY Zenon, <2>2, <2>3, <3>3, <3>4, <4>1
      <4>2. CASE i.part # p
        BY Zenon, <2>2, <3>2, <3>3, <4>2 DEF InsertCall
      <4>3. QED
        BY Zenon, <4>1, <4>2
    <3>6. QED
      BY Zenon, <2>1, <3>3, <3>5
  <2>6. Truthful'
    <3> SUFFICES ASSUME NEW q \in Part, NEW s \in info'.received_from[q]
                 PROVE  s \in info.remotes /\ info'.version[q] <= sent[s][q]
      BY Zenon, <1>3, <2>1 DEF Truthful
    <3>1. CASE q # p
      BY Zenon, <2>2, <3>1 DEF IInv, Truthful
    <3>2. CASE q = p
      <4>1. s = r \/ (s \in info.received_from[p] /\ v = info.version[p])
        BY Zenon, <2>2, <2>3, <3>2
      <4>2. QED
        BY Zenon, <1>4, <2>2, <3>2, <4>1 DEF IInv, Truthful
    <3>3. QED
      BY Zenon, <3>1, <3>2
  <2>7. ASSUME ~early
        PROVE  InStep' /\ Settled' /\ Heard' /\ KeysAgree'
    <3> HIDE DEF l, keys
    <3>1. InStep /\ Settled /\ Heard /\ v = barrier[l] /\ l \in Layer /\ p \in PartsOf(l)
      BY Zenon, <1>4, <1>5, <2>7, LayerOfPart DEF IInv, l
    <3>2. PICK cv \in Nat : cv = info.current_versions[l] /\ cv <= v /\ 1 <= v
      BY Zenon, <1>5, <3>1 DEF InStep
    <3>3. \A k \in Layer : info.received_for_layer[k] =
            {x \in RemoteId \X PartsOf(k) : /\ info.version[x[2]] = info.current_versions[k]
                                            /\ info.current_versions[k] > 0
                                            /\ x[1] \in info.received_from[x[2]]}
      BY Zenon, <2>7 DEF IInv, KeysAgree
    <3>4. /\ info'.current_versions[l] = v
          /\ \A k \in Layer \ {l} : info'.current_versions[k] = info.current_versions[k]
                                    /\ info'.received_for_layer[k] = info.received_for_layer[k]
          /\ info'.received_for_layer[l] = keys
      BY <1>5, <2>1, <3>1, <3>2
    <3>5. \A q \in PartsOf(l) : q \in Part /\ info.version[q] \in Nat /\ info.version[q] <= cv
      BY Zenon, <1>5, <3>1, <3>2 DEF PartsOf, InStep
    <3>6. <<r, p>> \notin KeysFor(info, p, v)
      <4>1. <<r, p>> \in info.received_for_layer[l] => info.version[p] = cv /\ r \in info.received_from[p]
        BY <3>1, <3>2, <3>3
      <4>2. QED
        BY Zenon, <1>4, <1>11, <3>2, <4>1 DEF KeysFor, l
    <3>7. senders = SendersFor(info, p, v) \cup {r}
      BY Zenon, <1>13, <3>6 DEF senders, SendersThen, Accepted
    <3>8. InStep'
      <4>1. ASSUME NEW q \in Part
            PROVE  /\ info'.version[q] <= info'.current_versions[LayerOf[q]]
                   /\ barrier[LayerOf[q]] <= info'.version[q] + 1
        <5>1. /\ info.version[q] <= info.current_versions[LayerOf[q]]
              /\ barrier[LayerOf[q]] <= info.version[q] + 1 /\ LayerOf[q] \in Layer
              /\ info.version[q] \in Nat
          BY Zenon, <1>5, <3>1, LayerOfPart DEF InStep
        <5>2. CASE q = p
          BY <2>2, <3>1, <3>4, <5>2 DEF l
        <5>3. CASE q # p /\ LayerOf[q] = l
          BY <2>2, <3>2, <3>4, <5>1, <5>3
        <5>4. CASE q # p /\ LayerOf[q] # l
          BY Zenon, <2>2, <3>4, <5>1, <5>4
        <5>5. QED
          BY Zenon, <5>2, <5>3, <5>4
      <4>2. ASSUME NEW k \in Layer
            PROVE  info'.current_versions[k] <= barrier[k] /\ 1 <= barrier[k]
        BY <3>1, <3>2, <3>4 DEF InStep
      <4>3. \A u \in Thread : \A i \in Pending(call'[u]) : i.version = barrier[LayerOf[i.part]]
        BY Zenon, <1>9, <1>10, <3>1 DEF InStep
      <4>4. \A s \in info'.remotes, q \in Part :
              sent[s][q] <= barrier[LayerOf[q]] /\ barrier[LayerOf[q]] <= sent[s][q] + 1
        BY Zenon, <2>1, <3>1 DEF InStep
      <4>5. QED
        BY Zenon, <1>3, <4>1, <4>2, <4>3, <4>4 DEF InStep
    <3>9. Settled'
      <4> SUFFICES ASSUME NEW s \in Registered \ MayLeave
                   PROVE  /\ s \in info.remotes
                          /\ \A q \in Part :
                               (0 < info'.version[q] /\ info'.version[q] < barrier[LayerOf[q]])
                                 => s \in info'.received_from[q]
        BY Zenon, <1>3, <2>1 DEF Settled
      <4>1. v = barrier[LayerOf[p]]
        BY Zenon, <3>1 DEF l
      <4>2. QED
        BY <2>2, <3>1, <4>1 DEF Settled
    <3>10. Heard'
      <4>1. barrier[l] \notin layer_calls[l]
        BY <1>4, <3>1 DEF Heard, Complete, IInv, TypeOK
      <4>2. ASSUME NEW k \in Layer, barrier[k] \in layer_calls[k]
            PROVE  Complete(k, barrier[k])'
        <5>1. Complete(k, barrier[k]) /\ k # l
          BY Zenon, <3>1, <4>1, <4>2 DEF Heard
        <5>2. \A q \in PartsOf(k) : q \in Part \ {p}
          BY Zenon, <5>1 DEF PartsOf, l
        <5>3. QED
          BY Zenon, <1>3, <2>1, <2>2, <5>1, <5>2 DEF Complete
      <4>3. QED
        BY Zenon, <1>3, <3>1, <4>2 DEF Heard
    <3>11. KeysAgree'
      <4>1. ASSUME NEW k \in Layer, k # l
            PROVE  info'.received_for_layer[k] =
                     {x \in RemoteId \X PartsOf(k) :
                        /\ info'.version[x[2]] = info'.current_versions[k]
                        /\ info'.current_versions[k] > 0
                        /\ x[1] \in info'.received_from[x[2]]}
        <5>1. \A q \in PartsOf(k) : q \in Part \ {p}
          BY Zenon, <4>1 DEF PartsOf, l
        <5>2. QED
          BY <2>2, <3>3, <3>4, <4>1, <5>1
      <4>2. keys \subseteq RemoteId \X PartsOf(l)
        <5>1. info.received_for_layer[l] \subseteq RemoteId \X PartsOf(l)
          BY Zenon, <3>1, <3>3
        <5>2. KeysFor(info, p, v) \subseteq RemoteId \X PartsOf(l)
          BY Zenon, <5>1 DEF KeysFor, l
        <5>3. QED
          BY <3>1, <5>2 DEF keys, KeysThen
      <4>3. ASSUME NEW s \in RemoteId, NEW q \in PartsOf(l)
            PROVE  <<s, q>> \in keys <=> info'.version[q] = v /\ s \in info'.received_from[q]
        <5>1. <<s, q>> \in keys <=> <<s, q>> \in KeysFor(info, p, v) \/ (s = r /\ q = p)
          BY Zenon DEF keys, KeysThen
        <5>2. <<s, q>> \in info.received_for_layer[l]
                <=> info.version[q] = cv /\ cv > 0 /\ s \in info.received_from[q]
          BY <3>1, <3>2, <3>3
        <5>3. <<s, q>> \in KeysFor(info, p, v)
                <=> v = cv /\ info.version[q] = v /\ s \in info.received_from[q]
          BY <3>2, <5>2 DEF KeysFor, l
        <5>4. CASE q # p
          BY <2>2, <3>2, <3>5, <5>1, <5>3, <5>4
        <5>5. CASE q = p
          <6>1. s \in SendersFor(info, p, v) <=> v = info.version[p] /\ s \in info.received_from[p]
            BY <1>11, <1>13 DEF SendersFor
          <6>2. info.version[p] = v => v = cv
            BY <3>1, <3>2, <3>5
          <6>3. QED
            BY Zenon, <2>2, <3>7, <5>1, <5>3, <5>5, <6>1, <6>2
        <5>6. QED
          BY Zenon, <5>4, <5>5
      <4>4. \A x \in RemoteId \X PartsOf(l) :
              x \in keys <=> /\ info'.version[x[2]] = info'.current_versions[l]
                             /\ info'.current_versions[l] > 0
                             /\ x[1] \in info'.received_from[x[2]]
        BY <3>2, <3>4, <4>3
      <4>5. info'.received_for_layer[l] =
              {x \in RemoteId \X PartsOf(l) :
                 /\ info'.version[x[2]] = info'.current_versions[l]
                 /\ info'.current_versions[l] > 0
                 /\ x[1] \in info'.received_from[x[2]]}
        BY Zenon, <3>4, <4>2, <4>4
      <4>6. \A k \in Layer : info'.received_for_layer[k] =
              {x \in RemoteId \X PartsOf(k) :
                 /\ info'.version[x[2]] = info'.current_versions[k]
                 /\ info'.current_versions[k] > 0
                 /\ x[1] \in info'.received_from[x[2]]}
        BY Zenon, <4>1, <4>5
      <4>7. QED
        BY Zenon, <4>6 DEF KeysAgree
    <3>12. QED
      BY Zenon, <3>8, <3>9, <3>10, <3>11
  <2>8. ~overlap => Alone'
    <3> SUFFICES ASSUME ~overlap PROVE Alone'
      BY Zenon
    <3>1. \A u \in Thread \ {t} : call[u].pc = "idle"
      BY Zenon, <1>1 DEF IInv, Alone
    <3>2. \A u \in Thread : Checked(call[u])'
      BY Zenon, <1>8, <1>9, <3>1 DEF Checked, InNet
    <3>3. ~early'
      BY Zenon, <1>3 DEF IInv, Alone
    <3>4. QED
      BY <1>9, <3>1, <3>2, <3>3 DEF Alone
  <2>9. QED
    BY Zenon, <1>3, <2>4, <2>5, <2>6, <2>7, <2>8 DEF IInv, KeysAgree
<1>14. QED
  BY <1>11, <1>12, <1>13

\* handle() drops a message: only what the remote has sent changes.
LEMMA DropIInv ==
  ASSUME IInv, NEW t \in Thread, NEW r \in RemoteId, NEW p \in Part, NEW v \in Nat,
         Drop(t, r, p, v)
  PROVE  IInv'
<1>1. /\ r \in info.remotes /\ sent \in [RemoteId -> [Part -> Nat]]
      /\ sent' = [sent EXCEPT ![r][p] = v]
      /\ UNCHANGED <<overlap, info, call, barrier, layer_calls, early, aborted>>
  BY Zenon DEF Drop, IInv, TypeOK
<1>2. sent[r][p] <= v /\ (~early => v <= barrier[LayerOf[p]])
  BY <1>1 DEF Drop, MaySend, SentOrJoined, IInv, InStep
<1>3. /\ sent' \in [RemoteId -> [Part -> Nat]]
      /\ sent'[r][p] = v
      /\ \A s \in RemoteId, q \in Part : (s # r \/ q # p) => sent'[s][q] = sent[s][q]
  BY Zenon, <1>1
<1>4. \A s \in RemoteId, q \in Part : sent[s][q] <= sent'[s][q]
  BY <1>1, <1>2, <1>3
<1>5. TypeOK'
  BY Zenon, <1>1, <1>3 DEF IInv, TypeOK
<1>6. PendingNew'
  <2> SUFFICES ASSUME NEW u \in Thread, NEW i \in Pending(call[u])
               PROVE  i.version <= sent'[i.from][i.part]
    BY Zenon, <1>1 DEF IInv, PendingNew
  <2>1. i \in InsertCall /\ i.version <= sent[i.from][i.part]
    BY Zenon, Kinds DEF IInv, TypeOK, PendingNew
  <2>2. PICK s \in RemoteId, q \in Part, w \in Nat : s = i.from /\ q = i.part /\ w = i.version
    BY Zenon, <2>1 DEF InsertCall
  <2>3. sent[s][q] \in Nat /\ sent'[s][q] \in Nat /\ sent[s][q] <= sent'[s][q] /\ w <= sent[s][q]
    BY <1>1, <1>3, <1>4, <2>1, <2>2
  <2>4. QED
    BY <2>2, <2>3
<1>7. Truthful'
  <2> SUFFICES ASSUME NEW q \in Part, NEW s \in info.received_from[q]
               PROVE  info.version[q] <= sent'[s][q]
    BY Zenon, <1>1 DEF IInv, Truthful
  <2>1. s \in RemoteId /\ info.version[q] \in Nat /\ info.version[q] <= sent[s][q]
    BY Zenon DEF IInv, Truthful, TypeOK, InfoRecord
  <2>2. sent[s][q] \in Nat /\ sent'[s][q] \in Nat
    BY <1>1, <1>3, <2>1
  <2>3. QED
    BY <1>4, <2>1, <2>2
<1>8. ASSUME ~early PROVE InStep' /\ Settled' /\ Heard'
  <2>1. InStep /\ Settled /\ Heard
    BY Zenon, <1>8 DEF IInv
  <2>2. ASSUME NEW s \in info.remotes, NEW q \in Part
        PROVE  sent'[s][q] <= barrier[LayerOf[q]] /\ barrier[LayerOf[q]] <= sent'[s][q] + 1
    <3>1. /\ s \in RemoteId /\ sent[s][q] \in Nat /\ sent'[s][q] \in Nat
          /\ barrier[LayerOf[q]] \in Nat
      BY <1>1, <1>3, LayerOfPart DEF IInv, TypeOK, InfoRecord
    <3>2. sent[s][q] <= barrier[LayerOf[q]] /\ barrier[LayerOf[q]] <= sent[s][q] + 1
      BY Zenon, <2>1 DEF InStep
    <3>3. barrier[LayerOf[q]] <= sent'[s][q] + 1
      BY <1>4, <3>1, <3>2
    <3>4. sent'[s][q] <= barrier[LayerOf[q]]
      BY Zenon, <1>2, <1>3, <1>8, <3>1, <3>2
    <3>5. QED
      BY Zenon, <3>3, <3>4
  <2>3. InStep'
    BY Zenon, <1>1, <2>1, <2>2 DEF InStep
  <2>4. QED
    BY Zenon, <1>1, <2>1, <2>3 DEF Settled, Heard, Complete
<1>9. NoAbort' /\ KeysAgree' /\ (~overlap' => Alone')
  BY <1>1 DEF IInv, NoAbort, KeysAgree, Alone, Checked, CompleteNow, Complete
<1>10. QED
  BY Zenon, <1>1, <1>5, <1>6, <1>7, <1>8, <1>9 DEF IInv

\* The remotes go on to the next version of a layer: its present version is complete,
\* so nobody is left behind.
LEMMA AdvanceIInv ==
  ASSUME IInv, NEW l \in Synced, Advance(l)
  PROVE  IInv'
<1>1. /\ l \in Layer /\ barrier \in [Layer -> Nat] /\ barrier[l] \in layer_calls[l]
      /\ barrier' = [barrier EXCEPT ![l] = @ + 1]
      /\ UNCHANGED <<overlap, info, call, sent, layer_calls, early, aborted>>
  BY Zenon DEF Advance, Synced, IInv, TypeOK
<1>2. PICK b \in Nat : b = barrier[l]
  BY Zenon, <1>1
<1>3. /\ barrier' \in [Layer -> Nat] /\ barrier'[l] = b + 1
      /\ \A k \in Layer \ {l} : barrier'[k] = barrier[k]
  BY <1>1, <1>2
<1>4. ASSUME ~early PROVE InStep' /\ Settled' /\ Heard'
  <2>1. InStep /\ Settled /\ Heard /\ Complete(l, b)
    BY Zenon, <1>1, <1>2, <1>4 DEF IInv, Heard
  <2>2. ASSUME NEW p \in Part, LayerOf[p] = l
        PROVE  info.version[p] = b /\ info.remotes \subseteq info.received_from[p]
    BY Zenon, <2>1, <2>2 DEF Complete, PartsOf
  <2>3. ASSUME NEW p \in Part
        PROVE  /\ info.version[p] <= info.current_versions[LayerOf[p]]
               /\ barrier'[LayerOf[p]] <= info.version[p] + 1
    BY <1>1, <1>3, <2>1, <2>2, LayerOfPart DEF InStep
  <2>4. ASSUME NEW k \in Layer
        PROVE  info.current_versions[k] <= barrier'[k] /\ 1 <= barrier'[k]
    <3>1. info.current_versions[k] \in Nat
      BY Zenon DEF IInv, TypeOK, InfoRecord
    <3>2. QED
      BY <1>1, <1>2, <1>3, <2>1, <3>1 DEF InStep
  <2>5. ASSUME NEW r \in info.remotes, NEW p \in Part
        PROVE  sent[r][p] <= barrier'[LayerOf[p]] /\ barrier'[LayerOf[p]] <= sent[r][p] + 1
    <3>1. sent[r][p] \in Nat /\ LayerOf[p] \in Layer
      BY LayerOfPart DEF IInv, TypeOK, InfoRecord
    <3>2. sent[r][p] <= barrier[LayerOf[p]] /\ barrier[LayerOf[p]] <= sent[r][p] + 1
      BY Zenon, <2>1 DEF InStep
    <3>3. CASE LayerOf[p] = l
      <4>1. b <= sent[r][p]
        BY Zenon, <2>2, <3>3 DEF IInv, Truthful
      <4>2. QED
        BY <1>2, <1>3, <3>1, <3>2, <3>3, <4>1
    <3>4. CASE LayerOf[p] # l
      BY Zenon, <1>3, <3>1, <3>2, <3>4
    <3>5. QED
      BY Zenon, <3>3, <3>4
  <2>6. ASSUME NEW t \in Thread, NEW i \in Pending(call[t])
        PROVE  i.version = barrier'[LayerOf[i.part]]
    <3>1. /\ i.part \in Part /\ i.version = barrier[LayerOf[i.part]]
          /\ i.from \in info.remotes
          /\ i.from \in info.received_from[i.part] => info.version[i.part] < i.version
      BY <2>1, Kinds DEF IInv, TypeOK, PendingNew, InStep, InsertCall
    <3>2. LayerOf[i.part] # l
      BY <1>2, <2>2, <3>1
    <3>3. QED
      BY Zenon, <1>3, <3>1, <3>2, LayerOfPart
  <2>7. InStep'
    BY Zenon, <1>1, <2>3, <2>4, <2>5, <2>6 DEF InStep
  <2>8. Settled'
    <3> SUFFICES ASSUME NEW r \in Registered \ MayLeave, NEW p \in Part,
                        0 < info.version[p], info.version[p] < barrier'[LayerOf[p]]
                 PROVE  r \in info.received_from[p]
      BY Zenon, <1>1, <2>1 DEF Settled
    <3>1. r \in info.remotes
      BY Zenon, <2>1 DEF Settled
    <3>2. QED
      BY Zenon, <1>3, <2>1, <2>2, <3>1, LayerOfPart DEF Settled
  <2>9. Heard'
    <3>1. ASSUME NEW k \in Layer, NEW v \in layer_calls[k] PROVE v <= barrier'[k]
      <4>1. v \in Nat /\ v <= barrier[k]
        BY Zenon, <2>1 DEF Heard, IInv, TypeOK
      <4>2. QED
        BY <1>1, <1>2, <1>3, <4>1
    <3>2. barrier'[l] \notin layer_calls[l]
      BY <1>2, <1>3, <1>1, <2>1 DEF Heard
    <3>3. ASSUME NEW k \in Layer, barrier'[k] \in layer_calls[k] PROVE Complete(k, barrier[k])
      BY Zenon, <1>3, <2>1, <3>2, <3>3 DEF Heard
    <3>4. ASSUME NEW k \in Layer, barrier'[k] \in layer_calls[k] PROVE Complete(k, barrier[k])'
      BY Zenon, <1>1, <1>3, <3>2, <3>3, <3>4 DEF Complete
    <3>5. QED
      BY Zenon, <1>1, <3>1, <3>4 DEF Heard
  <2>10. QED
    BY Zenon, <2>7, <2>8, <2>9
<1>5. TypeOK'
  BY Zenon, <1>1, <1>3 DEF IInv, TypeOK
<1>6. PendingNew' /\ Truthful' /\ NoAbort' /\ KeysAgree' /\ (~overlap' => Alone')
  BY <1>1 DEF IInv, PendingNew, Truthful, NoAbort, KeysAgree, Alone, Checked, CompleteNow, Complete
<1>7. QED
  BY Zenon, <1>1, <1>4, <1>5, <1>6 DEF IInv

Erased(s, n, r) ==
  /\ n \in InfoRecord /\ n.remotes = s.remotes \ {r}
  /\ n.version = s.version /\ n.current_versions = s.current_versions
  /\ \A p \in Part : n.received_from[p] = s.received_from[p] \ {r}
  /\ \A l \in Layer : n.received_for_layer[l] = {k \in s.received_for_layer[l] : k[1] # r}

\* remove_remote() erases every delivery of the remote and leaves the others'
\* (BlobInfo.cpp:203-216).
LEMMA RemovedFields ==
  ASSUME NEW s \in InfoRecord, NEW r \in RemoteId
  PROVE  Erased(s, remove_remote(s, r), r)
<1>1. PICK f \in [Part -> SUBSET RemoteId] : f = [p \in Part |-> s.received_from[p] \ {r}]
  BY Zenon DEF InfoRecord
<1>2. PICK g \in [Layer -> SUBSET (RemoteId \X Part)] :
        g = [l \in Layer |-> {k \in s.received_for_layer[l] : k[1] # r}]
  <2>1. \A l \in Layer : {k \in s.received_for_layer[l] : k[1] # r} \in SUBSET (RemoteId \X Part)
    BY Zenon DEF InfoRecord
  <2>2. QED
    BY Zenon, <2>1
<1>3. remove_remote(s, r) =
        [s EXCEPT !.remotes = @ \ {r}, !.received_from = f, !.received_for_layer = g]
  BY Zenon, <1>1, <1>2 DEF remove_remote
<1>4. PICK n : n = remove_remote(s, r)
  BY Zenon
<1>5. PICK h \in SUBSET RemoteId : h = s.remotes \ {r}
  BY Zenon DEF InfoRecord
<1>6. n = [s EXCEPT !.remotes = h, !.received_from = f, !.received_for_layer = g]
  BY Zenon, <1>3, <1>4, <1>5 DEF InfoRecord
<1>7. /\ n \in InfoRecord /\ n.remotes = h /\ n.received_from = f /\ n.received_for_layer = g
      /\ n.version = s.version /\ n.current_versions = s.current_versions
  BY Zenon, <1>6 DEF InfoRecord
<1>8. QED
  BY Zenon, <1>1, <1>2, <1>4, <1>5, <1>7 DEF Erased

\* A thread alone in the object removes a remote.
LEMMA RemoveRemoteIInv ==
  ASSUME IInv, NEW t \in Thread, NEW r \in RemoteId, RemoveRemote(t, r)
  PROVE  IInv'
<1>1. /\ ~overlap /\ \A u \in Thread : call[u].pc = "idle"
      /\ r \in MayLeave /\ info \in InfoRecord
      /\ info' = remove_remote(info, r)
      /\ sent' = [sent EXCEPT ![r] = [p \in Part |-> 0]]
      /\ call' = [call EXCEPT ![t] = [pc |-> "removed", left |-> Synced]]
      /\ UNCHANGED <<overlap, barrier, layer_calls, early, aborted>>
  BY Zenon DEF RemoveRemote, MayEnter, IInv, TypeOK
<1>2. /\ info' \in InfoRecord /\ info'.remotes = info.remotes \ {r}
      /\ info'.version = info.version /\ info'.current_versions = info.current_versions
      /\ \A p \in Part : info'.received_from[p] = info.received_from[p] \ {r}
      /\ \A l \in Layer : info'.received_for_layer[l] =
                            {k \in info.received_for_layer[l] : k[1] # r}
  BY <1>1, RemovedFields DEF Erased
<1>3. PICK d \in CallType : d = [pc |-> "removed", left |-> Synced]
  <2>1. Part = {} => Synced = {}
    BY Zenon DEF Synced, needs_syncing, PartsOf
  <2>2. Part # {} => Synced \in Lefts
    BY Zenon, LayerOfPart DEF Lefts
  <2>3. [pc |-> "removed", left |-> Synced] \in RemovedCall
    BY Zenon, <2>1, <2>2 DEF RemovedCall
  <2>4. QED
    BY Zenon, <2>3 DEF CallType
<1>4. /\ call' \in [Thread -> CallType] /\ call'[t] = d
      /\ \A u \in Thread \ {t} : call'[u] = call[u]
  BY Zenon, <1>1, <1>3 DEF IInv, TypeOK
<1>5. \A u \in Thread : call'[u].pc = IF u = t THEN "removed" ELSE "idle"
  BY Zenon, <1>1, <1>3, <1>4
<1>6. \A u \in Thread : Pending(call'[u]) = {}
  BY Zenon, <1>5 DEF Pending, InNet
<1>7. /\ sent' \in [RemoteId -> [Part -> Nat]]
      /\ \A s \in RemoteId \ {r} : sent'[s] = sent[s]
  BY Zenon, <1>1 DEF IInv, TypeOK
<1>8. TypeOK'
  BY Zenon, <1>1, <1>2, <1>4, <1>7 DEF IInv, TypeOK
<1>9. PendingNew' /\ NoAbort'
  BY Zenon, <1>1, <1>6 DEF PendingNew, NoAbort, IInv
<1>10. Truthful'
  <2> SUFFICES ASSUME NEW p \in Part, NEW s \in info.received_from[p], s # r
               PROVE  s \in info'.remotes /\ info.version[p] <= sent'[s][p]
    BY <1>2 DEF Truthful
  <2>1. s \in RemoteId /\ s \in info.remotes /\ info.version[p] <= sent[s][p]
    BY Zenon, <1>1 DEF IInv, Truthful, InfoRecord
  <2>2. QED
    BY Zenon, <1>2, <1>7, <2>1
<1>11. ~early /\ InStep /\ Settled /\ Heard
  BY Zenon, <1>1 DEF IInv, Alone
<1>12. InStep'
  <2>1. \A s \in info'.remotes, p \in Part :
          sent'[s][p] <= barrier[LayerOf[p]] /\ barrier[LayerOf[p]] <= sent'[s][p] + 1
    BY Zenon, <1>1, <1>2, <1>7, <1>11 DEF InStep, InfoRecord
  <2>2. QED
    BY Zenon, <1>1, <1>2, <1>6, <1>11, <2>1 DEF InStep
<1>13. Settled'
  BY Zenon, <1>1, <1>2, <1>11 DEF Settled
<1>14. Heard'
  <2>1. ASSUME NEW l \in Layer, Complete(l, barrier[l]) PROVE Complete(l, barrier[l])'
    BY Zenon, <1>1, <1>2, <2>1 DEF Complete, PartsOf
  <2>2. QED
    BY Zenon, <1>1, <1>11, <2>1 DEF Heard
<1>15. KeysAgree'
  <2> SUFFICES ASSUME NEW l \in Layer
               PROVE  info'.received_for_layer[l] =
                        {k \in RemoteId \X PartsOf(l) :
                           /\ info'.version[k[2]] = info'.current_versions[l]
                           /\ info'.current_versions[l] > 0
                           /\ k[1] \in info'.received_from[k[2]]}
    BY Zenon DEF KeysAgree
  <2>1. info.received_for_layer[l] =
          {k \in RemoteId \X PartsOf(l) : /\ info.version[k[2]] = info.current_versions[l]
                                         /\ info.current_versions[l] > 0
                                         /\ k[1] \in info.received_from[k[2]]}
    BY Zenon, <1>11 DEF IInv, KeysAgree
  <2>2. \A p \in PartsOf(l) : info'.received_from[p] = info.received_from[p] \ {r}
    BY Zenon, <1>2 DEF PartsOf
  <2>3. QED
    BY <1>2, <2>1, <2>2
<1>16. Alone'
  <2>1. \A u \in Thread : Checked(call[u])'
    BY Zenon, <1>5 DEF Checked, InNet
  <2>2. QED
    BY Zenon, <1>1, <1>5, <1>11, <2>1 DEF Alone
<1>17. QED
  BY Zenon, <1>8, <1>9, <1>10, <1>12, <1>13, <1>14, <1>15, <1>16 DEF IInv

-----------------------------------------------------------------------------
(***************************************************************************)
(* The threads' steps and the remotes' messages keep the two records and   *)
(* the barriers in step (BlobInfo.cpp:134-287).                            *)
(***************************************************************************)
THEOREM Invariance == Spec => []IInv
<1>1. IInv /\ [Next]_vars => IInv'
  <2> SUFFICES ASSUME IInv, [Next]_vars PROVE IInv'
    BY Zenon
  <2>1. ASSUME NEW t \in Thread, Step(t) PROVE IInv'
    BY Zenon, <2>1, InsertIInv, PartStepsIInv, CallLayerIInv, NetStepsIInv, ReportAfterRemoveIInv
       DEF Step
  <2>2. ASSUME NEW t \in Thread, NEW r \in RemoteId, NEW p \in Part, Deliver(t, r, p) PROVE IInv'
    <3>1. PICK v \in Nat : Begin(t, r, p, v) \/ Drop(t, r, p, v)
      BY <2>2 DEF Deliver, Version
    <3>2. QED
      BY Zenon, <3>1, BeginIInv, DropIInv
  <2>3. CASE UNCHANGED vars
    BY <2>3 DEF vars, IInv, TypeOK, PendingNew, Truthful, NoAbort, InStep, Settled, Heard,
         KeysAgree, Alone, Checked, CompleteNow, Complete
  <2>4. QED
    BY Zenon, <2>1, <2>2, <2>3, RemoveRemoteIInv, AdvanceIInv DEF Next
<1>2. QED
  BY InitIInv, <1>1, PTL DEF Spec

\* The CHECK of received() that a remote is inserted only once into received_from holds
\* for any number of threads, remotes, parts and versions, repeated and ignored messages
\* and reports made too early included (BlobInfo.cpp:159).
THEOREM CheckSafety == Spec => []NoAbort
BY Invariance, PTL DEF IInv

\* Until a report is made too early, the keys of a layer are the deliveries of its
\* current version (BlobInfo.cpp:148-159).
THEOREM RecordsAgree == Spec => []KeysAgree
BY Invariance, PTL DEF IInv

\* Only calls that overlap can make a report too early (BlobInfo.cpp:247-269).
THEOREM OnTime == Spec => [](~overlap => ~early)
<1>1. IInv => (~overlap => ~early)
  BY Zenon DEF IInv, Alone
<1>2. QED
  BY Invariance, <1>1, PTL

\* What is complete has been delivered by everyone.
LEMMA CompleteSent ==
  ASSUME IInv, NEW l \in Layer, NEW v, Complete(l, v),
         NEW r \in info.remotes, NEW p \in PartsOf(l)
  PROVE  sent[r][p] >= v
<1>1. /\ p \in Part /\ info.version[p] = v /\ info.version[p] <= sent[r][p]
      /\ info.version[p] \in Nat /\ sent[r][p] \in Nat
  BY Zenon DEF Complete, PartsOf, IInv, Truthful, TypeOK, InfoRecord
<1>2. QED
  BY Zenon, <1>1

\* When calls do not overlap, a part or a layer is reported only when every registered
\* remote has delivered it in that version (BlobInfo.cpp:236-269).
THEOREM CompleteReports == Spec => ReportComplete
<1>1. ASSUME IInv, NEW t \in Thread, ~overlap, CallPart(t)
      PROVE  \A r \in info.remotes : sent[r][call[t].part] >= info.version[call[t].part]
  <2>1. call[t] \in PartCall /\ Checked(call[t]) /\ call[t].pc = "call_part"
    BY Zenon, <1>1, Kinds DEF CallPart, IInv, TypeOK, Alone
  <2>2. PICK p \in Part : p = call[t].part /\ info.remotes \subseteq info.received_from[p]
    BY Zenon, <2>1 DEF PartCall, Checked
  <2>3. \A r \in info.remotes :
          info.version[p] <= sent[r][p] /\ info.version[p] \in Nat /\ sent[r][p] \in Nat
    BY <1>1, <2>2 DEF IInv, Truthful, TypeOK, InfoRecord
  <2>4. QED
    BY Zenon, <2>2, <2>3
<1>2. ASSUME IInv, NEW t \in Thread, ~overlap, CallLayer(t)
      PROVE  \A r \in info.remotes, q \in PartsOf(LayerOf[call[t].part]) :
               sent[r][q] >= info.current_versions[LayerOf[call[t].part]]
  <2>1. call[t] \in PartCall /\ Checked(call[t]) /\ call[t].pc = "call_layer"
    BY Zenon, <1>2, Kinds DEF CallLayer, IInv, TypeOK, Alone
  <2>2. PICK l \in Layer : l = LayerOf[call[t].part] /\ Complete(l, info.current_versions[l])
    BY Zenon, <2>1, LayerOfPart DEF PartCall, Checked, CompleteNow
  <2>3. QED
    BY Zenon, <1>2, <2>2, CompleteSent
<1>3. IInv /\ [Next]_vars =>
        [\A t \in Thread : ~overlap =>
           LET p == call[t].part
               l == LayerOf[p]
           IN  /\ CallPart(t) => \A r \in info.remotes : sent[r][p] >= info.version[p]
               /\ CallLayer(t) => \A r \in info.remotes, q \in PartsOf(l) :
                                    sent[r][q] >= info.current_versions[l]]_vars
  BY Zenon, <1>1, <1>2
<1>4. QED
  BY Invariance, <1>3, PTL DEF Spec, ReportComplete

\* When calls do not overlap, a net-wide report of version v means that everyone has
\* delivered every part of every layer in v (BlobInfo.cpp:271-287).
THEOREM CompleteNetReports == Spec => NetReportComplete
<1>1. ASSUME IInv, Next, ~overlap, NEW v \in net_calls' \ net_calls,
             NEW r \in info.remotes, NEW p \in Part
      PROVE  sent[r][p] >= v
  <2>1. PICK t \in Thread : NetVersion(t)
    <3>1. net_calls' # net_calls
      BY Zenon, <1>1
    <3>2. ASSUME NEW t \in Thread, Step(t) PROVE NetVersion(t)
      BY Zenon, <3>1, <3>2 DEF Step, Insert, CheckPart, CallPart, CheckLayer, CallLayer,
           NetSynced, ReportAfterRemove
    <3>3. \A t \in Thread, s \in RemoteId, q \in Part : ~Deliver(t, s, q)
      <4> SUFFICES ASSUME NEW t \in Thread, NEW s \in RemoteId, NEW q \in Part, Deliver(t, s, q)
                   PROVE  FALSE
        BY Zenon
      <4>1. PICK w : Begin(t, s, q, w) \/ Drop(t, s, q, w)
        BY Zenon DEF Deliver
      <4>2. net_calls' = net_calls
        BY Zenon, <4>1 DEF Begin, Drop
      <4>3. QED
        BY Zenon, <3>1, <4>2
    <3>4. (\A t \in Thread, s \in RemoteId : ~RemoveRemote(t, s)) /\ \A l \in Synced : ~Advance(l)
      BY Zenon, <3>1 DEF RemoveRemote, Advance
    <3>5. QED
      BY Zenon, <1>1, <3>2, <3>3, <3>4 DEF Next
  <2>2. PICK c \in NetCall : c = call[t] /\ Checked(c) /\ c.pc = "net_version"
    BY Zenon, <1>1, <2>1, Kinds DEF NetVersion, InNet, IInv, TypeOK, Alone
  <2>3. PICK l \in Layer : l = FirstOf(c.left)
    BY Zenon, <2>2, FirstLeft DEF NetCall
  <2>4. c.left = {l} /\ v = info.current_versions[l] /\ c.seen \subseteq {v}
    BY Zenon, <1>1, <2>1, <2>2, <2>3 DEF NetVersion
  <2>5. Complete(l, v)
    BY Zenon, <2>2, <2>3, <2>4 DEF Checked, CompleteNow
  <2>6. ASSUME NEW m \in Synced \ {l} PROVE Complete(m, v)
    <3>1. c.seen = {info.current_versions[m]} /\ CompleteNow(m)
      BY Zenon, <2>2, <2>4 DEF Checked, InNet
    <3>2. QED
      BY Zenon, <2>4, <3>1 DEF CompleteNow
  <2>7. LayerOf[p] \in Layer /\ LayerOf[p] \in Synced /\ p \in PartsOf(LayerOf[p])
    BY Zenon, LayerOfPart
  <2>8. QED
    BY Zenon, <1>1, <2>5, <2>6, <2>7, CompleteSent
<1>2. IInv /\ [Next]_vars =>
        [\A v \in net_calls' \ net_calls : ~overlap =>
           \A r \in info.remotes, p \in Part : sent[r][p] >= v]_vars
  BY Zenon, <1>1
<1>3. QED
  BY Invariance, <1>2, PTL DEF Spec, NetReportComplete
=============================================================================
