----------------------------- MODULE BlobComms ------------------------------
(***************************************************************************)
(* The sending half of one BlobCommsImpl object, without worker threads,   *)
(* used by the solver thread and the comm thread.  push() and send() take  *)
(* the lock separately; in between, and while a part is labelled and       *)
(* encoded, the lock is free.  Only the comm thread runs completions.      *)
(***************************************************************************)
EXTENDS CommsState

CONSTANTS Thread,     \* the threads that push
          CommThread, \* the one of them that polls the transport
          MayCancel,  \* the layers for which cancel() may be called
          MaxVersion  \* the bound on versions

ASSUME CommsAssumption ==
  /\ CommThread \in Thread /\ MayCancel \subseteq Layer /\ MaxVersion \in Nat
  /\ Part \subseteq Nat /\ IsFiniteSet(Part) /\ "none" \notin Thread

VARIABLES comms,    \* the object
          pc,       \* "idle", or "send": between push (or sent) and send
          pushed,   \* the last version pushed of each part
          net,      \* the message with the transport, as it was posted
          buffer,   \* the one send buffer
          arrived   \* the newest version of each part the transport has taken

vars == <<comms, pc, pushed, net, buffer, arrived>>

Version == 0..MaxVersion
Empty == <<NoPart, 0>>

Init ==
  /\ comms = NewComms
  /\ pc = [t \in Thread |-> "idle"]
  /\ pushed = [p \in Part |-> 0]
  /\ net = <<>>
  /\ buffer = Empty
  /\ arrived = [p \in Part |-> 0]

Free(t) == pc[t] = "idle" /\ ~InSend(comms, t)

PushLayer(t, l, v) ==
  /\ Free(t)
  /\ needs_syncing(l) /\ \A p \in PartsOf(l) : v > pushed[p]
  /\ comms' = push_layer(comms, l, v)
  /\ pc' = [pc EXCEPT ![t] = "send"]
  /\ pushed' = [p \in Part |-> IF LayerOf[p] = l THEN v ELSE pushed[p]]
  /\ UNCHANGED <<net, buffer, arrived>>

PushPart(t, p, v) ==
  /\ Free(t)
  /\ v > pushed[p]
  /\ comms' = push_part(comms, p, v)
  /\ pc' = [pc EXCEPT ![t] = "send"]
  /\ pushed' = [pushed EXCEPT ![p] = v]
  /\ UNCHANGED <<net, buffer, arrived>>

Cancel(t, l, v) ==
  /\ Free(t)
  /\ l \in MayCancel /\ v > comms.cancelled_version[l]
  /\ comms' = cancel(comms, l, v)
  /\ UNCHANGED <<pc, pushed, net, buffer, arrived>>

Send(t) ==
  /\ pc[t] = "send"
  /\ comms' = send(comms, t)
  /\ pc' = [pc EXCEPT ![t] = "idle"]
  /\ UNCHANGED <<pushed, net, buffer, arrived>>

\* The part is encoded into the buffer, which is handed to the transport.
Post(t) ==
  /\ InSend(comms, t)
  /\ \E v \in Labels(comms) : buffer' = <<comms.part, v>>
  /\ net' = Append(net, buffer')
  /\ comms' = posted(comms)
  /\ UNCHANGED <<pc, pushed, arrived>>

\* The transport is done with the buffer; the comm thread runs sent().
Sent_NoSend ==
  /\ Free(CommThread)
  /\ net # <<>>
  /\ comms' = sent(comms) /\ net' = Tail(net)
  /\ UNCHANGED <<pc, pushed, buffer, arrived>>

Sent ==
  /\ Free(CommThread)
  /\ net # <<>>
  /\ LET m == Head(net)
     IN  arrived' = [arrived EXCEPT ![m[1]] = IF m[2] > @ THEN m[2] ELSE @]
  /\ net' = Tail(net)
  /\ comms' = sent(comms)
  /\ pc' = [pc EXCEPT ![CommThread] = "send"]
  /\ UNCHANGED <<pushed, buffer>>

Run(t) == Send(t) \/ Post(t)

Next ==
  \/ Sent
  \/ \E t \in Thread : Run(t)
  \/ \E t \in Thread, v \in Version :
       \/ \E l \in Layer : PushLayer(t, l, v) \/ Cancel(t, l, v)
       \/ \E p \in Part : PushPart(t, p, v)

Spec == Init /\ [][Next]_vars

\* The threads run; polling completes what the transport has taken.
FairSpec == Spec /\ WF_vars(Sent) /\ \A t \in Thread : WF_vars(Run(t))

-----------------------------------------------------------------------------
\* What the transport still has to read is what was posted: the one buffer is
\* not written again before sent(), although two threads run send()
\* (BlobComms.cpp:210-222, 235-236).
BufferIntact == \A i \in DOMAIN net : net[i] = buffer

\* A part that waits in to_send is never stranded: some thread is inside
\* send() or about to call it, or a completion is still to come.  push() may
\* see during_sending just before sent() clears it (BlobComms.cpp:210-215,
\* 248-257).
SomeoneWillSend ==
  comms.to_send = <<>> \/ during_sending(comms) \/ \E t \in Thread : pc[t] = "send"

\* Every pushed version of a part, or a newer one, is eventually taken by the
\* transport, unless the layer was cancelled up to that version.
EveryPartSent ==
  \A p \in Part, v \in Version :
    pushed[p] = v ~> (arrived[p] >= v \/ comms.cancelled_version[LayerOf[p]] >= v)
=============================================================================
