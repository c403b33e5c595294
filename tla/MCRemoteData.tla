---------------------------- MODULE MCRemoteData ----------------------------
(* A client whose two layers share a cache, or two clients of one layer each. *)
EXTENDS RemoteData

CONSTANTS c1, c2, l1, l2

Config(policy, size, shape, layers) ==
  [policy |-> policy, cache_size |-> size, shape |-> shape, layers |-> layers]

Pulling == {"PULL_CONTINOUSLY"} \X (0..2) \X BOOLEAN
Reusing == {<<"USE_CACHE_WHEN_FULL", 2, TRUE>>}
Pair(f, g) == [c \in {c1, c2} |-> IF c = c1 THEN f ELSE g]

Shared == {Pair(Config(p[1], p[2], p[3], {l1, l2}), Config(p[1], p[2], p[3], {})) :
             p \in Pulling \cup Reusing}
Apart == {Pair(Config(p[1], p[2], p[3], {l1}), Config("PULL_CONTINOUSLY", 0, FALSE, {l2})) :
             p \in Reusing \cup {<<"PULL_CONTINOUSLY", 0, TRUE>>}}
MCConfigs == Shared \cup Apart
==============================================================================
