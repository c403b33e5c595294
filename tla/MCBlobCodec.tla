----------------------------- MODULE MCBlobCodec -----------------------------
(* A blob of twenty elements in a part of sixteen and one of four. *)
EXTENDS BlobCodec

MCIndex == 1..Count
MCWritten == 1..elements_per_part
MCVectors == {[i \in MCIndex |-> 7 - (i % 15)], [i \in MCIndex |-> (i * 5) % 9]}
==============================================================================
