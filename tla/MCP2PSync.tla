----------------------------- MODULE MCP2PSync -----------------------------
(***************************************************************************)
(* One device without prefetch threads, two and three GPUs with them; and  *)
(* one device that resumes from what an earlier process left.              *)
(***************************************************************************)
EXTENDS P2PSync, DevicePair

MCParams ==
  {[solver_count |-> 1, threaded |-> FALSE,
    batch_size |-> 2, queue_size |-> 4, prefetch_count |-> 2,
    iter_size |-> 2, max_iter |-> 2, test_interval |-> 1, display |-> 1,
    snapshot |-> 0, snapshot_after_train |-> TRUE, left |-> {}, resume |-> {0},
    signals |-> {"SIGHUP", "SIGINT"}],
   [solver_count |-> 1, threaded |-> FALSE,
    batch_size |-> 1, queue_size |-> 1, prefetch_count |-> 1,
    iter_size |-> 1, max_iter |-> 3, test_interval |-> 1, display |-> 0,
    snapshot |-> 2, snapshot_after_train |-> TRUE, left |-> 1..2, resume |-> 0..1,
    signals |-> {"SIGHUP"}],
   [solver_count |-> 2, threaded |-> TRUE,
    batch_size |-> 2, queue_size |-> 2, prefetch_count |-> 1,
    iter_size |-> 1, max_iter |-> 2, test_interval |-> 2, display |-> 1,
    snapshot |-> 2, snapshot_after_train |-> FALSE, left |-> {}, resume |-> {0},
    signals |-> {}],
   [solver_count |-> 3, threaded |-> TRUE,
    batch_size |-> 1, queue_size |-> 1, prefetch_count |-> 1,
    iter_size |-> 1, max_iter |-> 3, test_interval |-> 0, display |-> 0,
    snapshot |-> 0, snapshot_after_train |-> FALSE, left |-> {1}, resume |-> {1},
    signals |-> {"SIGINT"}]}

\* Four devices pair into trees, too.
ASSUME PairedAssumption == \A n \in 1..4 : \A t \in Paired(n) : IsTree(n, t)
==============================================================================
