------------------------------ MODULE SyncInfo ------------------------------
(***************************************************************************)
(* The bookkeeping object BlobSyncInfoImpl as a value, and what each       *)
(* critical section of it (one scoped_lock of mtx) makes of that value.    *)
(*                                                                         *)
(* A part is one packet-sized piece of a parameter blob; get_id makes the  *)
(* pair (blob, part) of a layer a single key, so here a part is one        *)
(* element of Part and LayerOf says which layer it belongs to.  A layer    *)
(* without parts is one for which needs_syncing is false.                  *)
(***************************************************************************)
EXTENDS Naturals, FiniteSets

CONSTANTS Layer,    \* the layers of the net
          Part,     \* all the parts of all the layers
          LayerOf   \* the layer of each part

ASSUME LayerOfAssumption == LayerOf \in [Part -> Layer]

PartsOf(l) == {p \in Part : LayerOf[p] = l}

needs_syncing(l) == PartsOf(l) # {}

NewSyncInfo_NoRemotes(rs) ==
  [remotes            |-> {},
   version            |-> [p \in Part |-> 0],
   received_from      |-> [p \in Part |-> {}],
   current_versions   |-> [l \in Layer |-> 0],
   received_for_layer |-> [l \in Layer |-> {}]]

\* A fresh object that has been told of the remotes rs.
NewSyncInfo(rs) ==
  [remotes            |-> rs,
   version            |-> [p \in Part |-> 0],
   received_from      |-> [p \in Part |-> {}],
   current_versions   |-> [l \in Layer |-> 0],
   received_for_layer |-> [l \in Layer |-> {}]]

add_remote(s, r) == [s EXCEPT !.remotes = @ \cup {r}]

remove_remote(s, r) ==
  [s EXCEPT !.remotes = @ \ {r},
            !.received_from = [p \in Part |-> @[p] \ {r}],
            !.received_for_layer = [l \in Layer |-> {k \in @[l] : k[1] # r}]]

(***************************************************************************)
(* The critical section of received(): an old version is refused, a newer  *)
(* one starts the part, and possibly the layer, afresh, and a key that is  *)
(* already there is refused too.                                           *)
(***************************************************************************)
KeysFor_NotCleared(s, p, v) == s.received_for_layer[LayerOf[p]]

KeysFor(s, p, v) ==
  IF v > s.current_versions[LayerOf[p]] THEN {} ELSE s.received_for_layer[LayerOf[p]]

SendersFor(s, p, v) == IF v > s.version[p] THEN {} ELSE s.received_from[p]

\* received() goes on to the checks (it does not return false).
Accepted(s, r, p, v) == v >= s.version[p] /\ <<r, p>> \notin KeysFor(s, p, v)

\* CHECK(part_info.received_from.insert(from).second) would abort the process.
CheckFails(s, r, p, v) == Accepted(s, r, p, v) /\ r \in SendersFor(s, p, v)

received(s, r, p, v) ==
  IF v < s.version[p]
  THEN s
  ELSE [s EXCEPT
         !.version[p] = v,
         !.received_from[p] =
            SendersFor(s, p, v) \cup (IF Accepted(s, r, p, v) THEN {r} ELSE {}),
         !.current_versions[LayerOf[p]] = IF v > @ THEN v ELSE @,
         !.received_for_layer[LayerOf[p]] = KeysFor(s, p, v) \cup {<<r, p>>}]

\* What the comm layer asks before it decodes a message of remote r for p.
received_version(s, r, p) ==
  IF r \in s.received_from[p] THEN s.version[p]
  ELSE IF s.version[p] = 0 THEN 0
  ELSE s.version[p] - 1

part_synced_OneShort(s, p) ==
  Cardinality(s.received_from[p]) + 1 >= Cardinality(s.remotes)

part_synced(s, p) == Cardinality(s.received_from[p]) >= Cardinality(s.remotes)

is_synced_Strict(s, l) ==
  Cardinality(s.received_for_layer[l])
    > Cardinality(PartsOf(l)) * Cardinality(s.remotes)

is_synced_OnePerPart(s, l) ==
  Cardinality(s.received_for_layer[l]) >= Cardinality(PartsOf(l))

is_synced_AnyPart(s, l) == s.received_for_layer[l] # {}

is_synced(s, l) ==
  Cardinality(s.received_for_layer[l])
    >= Cardinality(PartsOf(l)) * Cardinality(s.remotes)
=============================================================================
