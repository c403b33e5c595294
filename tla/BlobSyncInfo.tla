---------------------------- MODULE BlobSyncInfo ----------------------------
(***************************************************************************)
(* One BlobSyncInfoImpl object used by several threads.                    *)
(*                                                                         *)
(* received() holds mtx only in short critical sections: it inserts the    *)
(* delivery under the lock, lets the lock go, and then takes it again for  *)
(* every check that may lead to a callback.  Each critical section, and    *)
(* each read a callback makes without the lock, is a step of its own here. *)
(*                                                                         *)
(* The environment is the way SynchronousNode uses the object: the solver  *)
(* thread reports the node's own parts (ready_local), the comm thread the  *)
(* parts that arrive in messages (BlobComms::handle, which first asks      *)
(* received_version), and a remote starts version v+1 of a layer only      *)
(* after some callback has said that v is synced.                          *)
(***************************************************************************)
EXTENDS SyncInfo

CONSTANTS RemoteId,    \* the nodes that may deliver parts
          Self,        \* the node's own id, delivered without a message
          Thread,      \* the threads that call into the object
          CallsBy,     \* the remotes whose parts each thread delivers
          Registered,  \* the remotes added by the constructor's add_remote calls
          MayLeave,    \* the remotes remove_remote may be called for
          MaxVersion   \* the last version of each layer: the bound on versions

ASSUME SyncAssumption ==
  /\ Layer \subseteq Nat /\ IsFiniteSet(Layer) /\ IsFiniteSet(Part)
  /\ IsFiniteSet(RemoteId) /\ Self \in RemoteId
  /\ CallsBy \in [Thread -> SUBSET RemoteId] /\ Self \notin MayLeave
  /\ Registered \subseteq RemoteId /\ MayLeave \subseteq RemoteId
  /\ Registered \ MayLeave # {}
  /\ \A t, u \in Thread : t # u => CallsBy[t] \cap CallsBy[u] = {}
  /\ MaxVersion \in [Layer -> Nat \ {0}]

VARIABLES
  overlap,      \* whether the threads' calls may overlap in this behaviour
  info,         \* the object
  call,         \* what each thread is doing inside it
  barrier,      \* the version of each layer the remotes are working on
  sent,         \* the last version each remote has delivered of each part
  layer_calls,  \* the versions for which synced(layer, v) was called
  net_calls,    \* the versions for which synced(v) was called
  early,        \* synced(layer, v) was called for a v that is not complete
  aborted       \* a CHECK has failed

vars == <<overlap, info, call, barrier, sent, layer_calls, net_calls, early, aborted>>

Version(l) == 0..MaxVersion[l]
Synced == {l \in Layer : needs_syncing(l)}

Idle == [pc |-> "idle"]
NetCheck(next) == [pc |-> "net", left |-> Synced, seen |-> {}, next |-> next]

Init ==
  /\ overlap \in BOOLEAN
  /\ info = NewSyncInfo(Registered)
  /\ call = [t \in Thread |-> Idle]
  /\ barrier = [l \in Layer |-> 1]
  /\ sent = [r \in RemoteId |-> [p \in Part |-> 0]]
  /\ layer_calls = [l \in Layer |-> {}]
  /\ net_calls = {}
  /\ early = FALSE
  /\ aborted = FALSE

MayEnter(t) ==
  /\ ~aborted
  /\ call[t].pc = "idle"
  /\ overlap \/ \A u \in Thread \ {t} : call[u].pc = "idle"

Ignored_Never(r, p, v) == FALSE

\* BlobComms::handle drops what received_version says is already there.
Ignored(r, p, v) == r # Self /\ received_version(info, r, p) >= v

\* A remote that is not registered yet joins in the version at hand, while that
\* version is still open; in the instances, only where calls do not overlap.
MayJoin == ~overlap /\ \A l \in Synced : barrier[l] \notin layer_calls[l]
SentOrJoined(r, p) ==
  IF r \in info.remotes THEN sent[r][p] ELSE barrier[LayerOf[p]] - 1

\* A remote goes on to version v of a layer when all its parts have had v - 1; a
\* message may also arrive twice.
MaySend(r, p, v) ==
  \/ /\ v = SentOrJoined(r, p) + 1 /\ v <= barrier[LayerOf[p]]
     /\ \A q \in PartsOf(LayerOf[p]) : SentOrJoined(r, q) >= v - 1
  \/ v = sent[r][p] /\ v > 0 /\ r \in Registered \ (MayLeave \cup {Self})

(***************************************************************************)
(* A thread enters received() for version v of part p from remote r.  The  *)
(* first critical section is the one of add_remote, which runs the net-    *)
(* wide check when the remote is new.                                      *)
(***************************************************************************)
Begin(t, r, p, v) ==
  /\ MayEnter(t)
  /\ r \in CallsBy[t]
  /\ r \in info.remotes \/ MayJoin
  /\ MaySend(r, p, v)
  /\ ~Ignored(r, p, v)
  /\ LET insert == [pc |-> "insert", from |-> r, part |-> p, version |-> v]
     IN  call' = [call EXCEPT ![t] =
                    IF r \in info.remotes THEN insert ELSE NetCheck(insert)]
  /\ info' = add_remote(info, r)
  /\ sent' = [sent EXCEPT ![r] =
                [q \in Part |-> IF q = p THEN v ELSE SentOrJoined(r, q)]]
  /\ UNCHANGED <<overlap, barrier, layer_calls, net_calls, early, aborted>>

\* What handle() drops has been sent all the same.
Drop(t, r, p, v) ==
  /\ MayEnter(t)
  /\ r \in CallsBy[t] \cap info.remotes
  /\ MaySend(r, p, v)
  /\ Ignored(r, p, v)
  /\ sent' = [sent EXCEPT ![r][p] = v]
  /\ UNCHANGED <<overlap, info, call, barrier, layer_calls, net_calls, early, aborted>>

Insert(t) ==
  /\ ~aborted
  /\ call[t].pc = "insert"
  /\ LET c == call[t]
     IN  /\ aborted' = CheckFails(info, c.from, c.part, c.version)
         /\ info' = received(info, c.from, c.part, c.version)
         /\ call' = [call EXCEPT ![t] =
                       IF Accepted(info, c.from, c.part, c.version)
                       THEN [pc |-> "part", part |-> c.part] ELSE Idle]
  /\ UNCHANGED <<overlap, barrier, sent, layer_calls, net_calls, early>>

CheckPart(t) ==
  /\ ~aborted
  /\ call[t].pc = "part"
  /\ call' = [call EXCEPT ![t] =
                IF part_synced(info, call[t].part)
                THEN [@ EXCEPT !.pc = "call_part"] ELSE Idle]
  /\ UNCHANGED <<overlap, info, barrier, sent, layer_calls, net_calls, early, aborted>>

\* The callback synced(layer, blob, part, version) reads part.version after the lock
\* has been released; nothing here depends on what it is told.
CallPart(t) ==
  /\ ~aborted
  /\ call[t].pc = "call_part"
  /\ call' = [call EXCEPT ![t].pc = "layer"]
  /\ UNCHANGED <<overlap, info, barrier, sent, layer_calls, net_calls, early, aborted>>

CheckLayer(t) ==
  /\ ~aborted
  /\ call[t].pc = "layer"
  /\ call' = [call EXCEPT ![t] =
                IF is_synced(info, LayerOf[@.part])
                THEN [@ EXCEPT !.pc = "call_layer"] ELSE Idle]
  /\ UNCHANGED <<overlap, info, barrier, sent, layer_calls, net_calls, early, aborted>>

\* Every registered remote has delivered every part of l in version v.
Complete(l, v) ==
  \A p \in PartsOf(l) : info.version[p] = v /\ info.remotes \subseteq info.received_from[p]

\* current_versions is read in a second critical section, after is_synced's.
CallLayer(t) ==
  /\ ~aborted
  /\ call[t].pc = "call_layer"
  /\ LET l == LayerOf[call[t].part]
         v == info.current_versions[l]
     IN  /\ layer_calls' = [layer_calls EXCEPT ![l] = @ \cup {v}]
         /\ early' = (early \/ ~Complete(l, v))
  /\ call' = [call EXCEPT ![t] = NetCheck(Idle)]
  /\ UNCHANGED <<overlap, info, barrier, sent, net_calls, aborted>>

\* One turn of the loop over the layers in the net-wide check: is_synced, then, in a
\* critical section of its own, the version, which must be that of the layers before
\* (seen holds it; UINT_MAX in the code until the first).
FirstOf(left) == CHOOSE k \in left : \A m \in left : k <= m

NetSynced(t) ==
  /\ ~aborted
  /\ call[t].pc = "net"
  /\ call' = [call EXCEPT ![t] =
                IF is_synced(info, FirstOf(@.left))
                THEN [@ EXCEPT !.pc = "net_version"] ELSE @.next]
  /\ UNCHANGED <<overlap, info, barrier, sent, layer_calls, net_calls, early, aborted>>

NetVersion(t) ==
  /\ ~aborted
  /\ call[t].pc = "net_version"
  /\ LET c == call[t]
         l == FirstOf(c.left)
         v == info.current_versions[l]
         same == c.seen \subseteq {v}
     IN  /\ call' = [call EXCEPT ![t] =
                       IF c.left # {l} /\ same
                       THEN [c EXCEPT !.pc = "net", !.left = @ \ {l}, !.seen = {v}]
                       ELSE c.next]
         /\ net_calls' = IF c.left = {l} /\ same THEN net_calls \cup {v} ELSE net_calls
  /\ UNCHANGED <<overlap, info, barrier, sent, layer_calls, early, aborted>>

(***************************************************************************)
(* remove_remote, which no thread calls beside another: the remote's       *)
(* deliveries are erased under the lock; then every part and layer that is *)
(* synced without it is reported (again).                                  *)
(***************************************************************************)
RemoveRemote(t, r) ==
  /\ MayEnter(t) /\ ~overlap
  /\ r \in MayLeave \cap info.remotes
  /\ info' = remove_remote(info, r)
  /\ sent' = [sent EXCEPT ![r] = [p \in Part |-> 0]]
  /\ call' = [call EXCEPT ![t] = [pc |-> "removed", left |-> Synced]]
  /\ UNCHANGED <<overlap, barrier, layer_calls, net_calls, early, aborted>>

ReportAfterRemove(t) ==
  /\ ~aborted
  /\ call[t].pc = "removed"
  /\ LET c == call[t]
         l == FirstOf(c.left)
         v == info.current_versions[l]
     IN  /\ layer_calls' = IF is_synced(info, l)
               THEN [layer_calls EXCEPT ![l] = @ \cup {v}] ELSE layer_calls
         /\ early' = (early \/ (is_synced(info, l) /\ ~Complete(l, v)))
         /\ call' = [call EXCEPT ![t] =
               IF c.left = {l} THEN NetCheck(Idle) ELSE [c EXCEPT !.left = @ \ {l}]]
  /\ UNCHANGED <<overlap, info, barrier, sent, net_calls, aborted>>

\* The remotes hear that version barrier[l] is synced and start the next one.
Advance(l) ==
  /\ ~aborted
  /\ barrier[l] \in layer_calls[l]
  /\ barrier[l] < MaxVersion[l]
  /\ barrier' = [barrier EXCEPT ![l] = @ + 1]
  /\ UNCHANGED <<overlap, info, call, sent, layer_calls, net_calls, early, aborted>>

Step(t) ==
  \/ Insert(t) \/ CheckPart(t) \/ CallPart(t) \/ CheckLayer(t) \/ CallLayer(t)
  \/ NetSynced(t) \/ NetVersion(t) \/ ReportAfterRemove(t)

Deliver(t, r, p) == \E v \in Version(LayerOf[p]) : Begin(t, r, p, v) \/ Drop(t, r, p, v)

Next ==
  \/ \E t \in Thread : Step(t)
  \/ \E t \in Thread, r \in RemoteId, p \in Part : Deliver(t, r, p)
  \/ \E t \in Thread, r \in RemoteId : RemoveRemote(t, r)
  \/ \E l \in Synced : Advance(l)

Spec == Init /\ [][Next]_vars

\* The threads run, and the messages of every remote keep being received.
Fairness ==
  /\ \A t \in Thread : WF_vars(Step(t))
  /\ \A t \in Thread, r \in RemoteId, p \in Part : WF_vars(Deliver(t, r, p))
  /\ \A l \in Synced : WF_vars(Advance(l))

FairSpec == Spec /\ Fairness

-----------------------------------------------------------------------------
(***************************************************************************)
(* What the object promises.                                               *)
(***************************************************************************)

\* The two records received() keeps agree: the keys of a layer are exactly the
\* deliveries of its current version, so the size test of is_synced counts
\* deliveries of one version only.  A key left over from an older version would
\* make received() refuse the delivery that replaces it (BlobInfo.cpp:153-159).
\* Overlapping calls may report a layer too early, and the records do drift apart
\* once the remotes go on because of that.
KeysAgree ==
  ~early =>
  \A l \in Layer :
    info.received_for_layer[l] =
      {k \in RemoteId \X PartsOf(l) : /\ info.version[k[2]] = info.current_versions[l]
                                     /\ info.current_versions[l] > 0
                                     /\ k[1] \in info.received_from[k[2]]}

\* CHECK(part_info.received_from.insert(from).second) never fails, whatever
\* the order of deliveries and repeated messages, and even after a report that
\* came too early (BlobInfo.cpp:159).
NoAbort == ~aborted

\* synced is called only when every registered remote has delivered the part, or
\* every part of the layer, in the version it reports, remotes that join and leave
\* included (BlobInfo.cpp:236-269).  The version is read after the lock was let go, so
\* this needs calls that do not overlap.
ReportComplete ==
  [][\A t \in Thread : ~overlap =>
       LET p == call[t].part
           l == LayerOf[p]
       IN  /\ CallPart(t) => \A r \in info.remotes : sent[r][p] >= info.version[p]
           /\ CallLayer(t) => \A r \in info.remotes, q \in PartsOf(l) :
                                sent[r][q] >= info.current_versions[l]]_vars

\* Without overlapping calls a net-wide report of version v comes only when every part
\* of every layer has been delivered in v by everyone (BlobInfo.cpp:271-287).
NetReportComplete ==
  [][\A v \in net_calls' \ net_calls : ~overlap =>
       \A r \in info.remotes, p \in Part : sent[r][p] >= v]_vars

\* No report is lost: whichever thread inserts last, some thread sees that the
\* layer is complete, so a fixed set of remotes gets through all the versions
\* even when calls overlap, unless a layer is reported too early (BlobInfo.cpp:166-169).
NoLostReport ==
  overlap => \A l \in Synced : <>(early \/ MaxVersion[l] \in layer_calls[l])
=============================================================================
