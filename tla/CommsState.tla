----------------------------- MODULE CommsState -----------------------------
(***************************************************************************)
(* The sending half of a BlobCommsImpl object as a value, and what each    *)
(* critical section of it makes of that value.                             *)
(*                                                                         *)
(* phase tells how far the one send that may be under way has come:        *)
(*   free       during_sending is false;                                   *)
(*   picked     send() has popped a part and left the lock;                *)
(*   in_flight  the buffer is with the transport, sent() is still to come. *)
(* part, label (the layer's version when the part was popped) and by (the  *)
(* thread inside send()) belong to that send.                              *)
(***************************************************************************)
EXTENDS SyncInfo, SequencesExt

CONSTANT NoPart   \* part when nothing is being sent, or an iteration size is

ASSUME NoPartAssumption == NoPart \notin Part

NewComms ==
  [to_send           |-> <<>>,
   sending_version   |-> [l \in Layer |-> 0],
   cancelled_version |-> [l \in Layer |-> 0],
   phase             |-> "free",
   part              |-> NoPart,
   label             |-> 0,
   by                |-> "none"]

during_sending(c) == c.phase # "free"

\* The parts of a layer in the order of the constructor's loops.
Ordered(s) == \A i, j \in DOMAIN s : i < j => s[i] < s[j]
all_parts == [l \in Layer |-> CHOOSE s \in [1..Cardinality(PartsOf(l)) -> PartsOf(l)] : Ordered(s)]

RaiseVersion_Adds(c, l, v) == [c EXCEPT !.sending_version[l] = @ + v]

RaiseVersion(c, l, v) ==
  [c EXCEPT !.sending_version[l] = IF v > @ THEN v ELSE @]

push_layer(c, l, v) ==
  [RaiseVersion(c, l, v) EXCEPT !.to_send = all_parts[l] \o @]

push_part(c, p, v) ==
  [RaiseVersion(c, LayerOf[p], v) EXCEPT !.to_send = <<p>> \o @]

cancel(c, l, v) == [c EXCEPT !.cancelled_version[l] = v]

Discarded_OnceCancelled(c, p) == c.cancelled_version[LayerOf[p]] > 0

Discarded(c, p) ==
  c.sending_version[LayerOf[p]] <= c.cancelled_version[LayerOf[p]]

Picked(c, i, t) ==
  [c EXCEPT !.to_send = SubSeq(@, i + 1, Len(@)), !.phase = "picked", !.by = t,
            !.part = c.to_send[i], !.label = c.sending_version[LayerOf[c.to_send[i]]]]

\* The first critical section of send(), run by thread t: nothing while a send
\* is under way, otherwise the first part that is not cancelled is picked and
\* the cancelled ones before it are forgotten.
send_WhileSending(c, t) ==
  IF c.to_send = <<>>
  THEN c
  ELSE Picked(c, 1, t)

send(c, t) ==
  LET live == {i \in DOMAIN c.to_send : ~Discarded(c, c.to_send[i])}
      i == CHOOSE k \in live : \A m \in live : k <= m
  IN  IF during_sending(c) THEN c
      ELSE IF live = {} THEN [c EXCEPT !.to_send = <<>>]
      ELSE Picked(c, i, t)

\* The message is labelled with sending_version[layer_id], read at some moment
\* after the lock was released and before the part is encoded.
Labels(c) == c.label .. c.sending_version[LayerOf[c.part]]

\* async_send has been called: the thread leaves send().
posted(c) == [c EXCEPT !.phase = "in_flight", !.by = "none"]

\* The critical section of sent().
sent_StaysBusy(c) == [c EXCEPT !.part = NoPart, !.label = 0]

sent(c) == [c EXCEPT !.phase = "free", !.part = NoPart, !.label = 0]

\* send_iter_size once it has found during_sending false.
post_iter_size(c) == [c EXCEPT !.phase = "in_flight"]

InSend(c, t) == c.by = t
=============================================================================
