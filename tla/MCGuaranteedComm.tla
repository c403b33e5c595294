-------------------------- MODULE MCGuaranteedComm --------------------------
(* Instances of GuaranteedComm for TLC. *)
EXTENDS GuaranteedComm

CONSTANTS c1, c2

\* One client with traffic both ways, which may leave.
Single ==
  [posts |-> [p \in Proc |-> 2], pools |-> Pool, start |-> {c1}, leave |-> {c1},
   losses |-> 1, sessions |-> 1]

\* One client that may be dropped and accepted again.
Rejoin == [Single EXCEPT !.posts = [p \in Proc |-> 1], !.losses = 0, !.sessions = 2]

\* Two clients, one of which may vanish; the server sends to one or to both.
Broadcast ==
  [posts |-> [p \in Proc |-> IF p = Server THEN 2 ELSE 0], pools |-> Pool,
   start |-> {c1, c2}, leave |-> {c2}, losses |-> 0, sessions |-> 1]

MCLoad == {Single, Rejoin, Broadcast}

MCLightLoad ==
  {[Single EXCEPT !.posts = [p \in Proc |-> 1], !.leave = {}],
   [Broadcast EXCEPT !.pools = {<<Server, All>>}]}
==============================================================================
