---------------------------- MODULE MCBlobComms -----------------------------
(* A small instance of BlobComms for TLC: two layers, three parts. *)
EXTENDS BlobComms

MCLayerOf == [p \in Part |-> p \div 10]
=============================================================================
