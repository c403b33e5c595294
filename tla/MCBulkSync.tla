----------------------------- MODULE MCBulkSync -----------------------------
(* BulkSync for TLC: a tree of depth two with one layer, see MCBulkSync.cfg. *)
EXTENDS BulkSync
=============================================================================
