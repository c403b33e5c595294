------------------------------ MODULE BlobCodec ------------------------------
(***************************************************************************)
(* Parts of a blob on their way to another node: the comm thread reads the *)
(* host memory and encodes a part, as it is or as a field of bits per      *)
(* element, and the receiver decodes it into a blob of the same shape.     *)
(* An element counts multiples of the threshold of averaging, so that the  *)
(* rounding of round(fabs(x) / threshold) is done.                         *)
(***************************************************************************)
EXTENDS SyncedMemory, Sequences, FiniteSetsExt

CONSTANTS Count,              \* count() of the blob
          elements_per_part,
          Sizes,              \* the settings: 0 for no compression, or bits per element
          MaxSends            \* the bound on messages; behaviours end with the last

ASSUME CodecAssumption ==
  /\ Count \in Nat /\ Index = 1..Count /\ elements_per_part \in Nat \ {0} /\ Sizes \subseteq 0..8

VARIABLES packet,   \* the part under way, a set of at most one
          dest,     \* the receiver's blob
          sends     \* messages so far

vars == <<memory, packet, dest, sends>>

CharBit == 8
SizeofDtype == 4

------------------------------------------------------------------------------
\* The bit field: the set of <<byte, bit>> that are one.
\* shift() resets its own copy of the pointer instead of the bit.
shift_Early(at) == IF at[2] = CharBit - 2 THEN <<at[1] + 1, at[2]>> ELSE <<at[1], at[2] + 1>>

shift(at) == IF at[2] = CharBit - 1 THEN <<at[1] + 1, at[2]>> ELSE <<at[1], at[2] + 1>>

\* The places that set_bits and get_bits visit: place 0 for the sign.
Places(mask_size, at_bit) ==
  LET place[k \in 0..mask_size] ==
        IF k = 0 THEN <<at_bit \div CharBit, at_bit % CharBit>> ELSE shift(place[k - 1])
  IN  place

Abs(val) == IF val < 0 THEN -val ELSE val

set_bits(val, mask_size, at_bit) ==
  LET place == Places(mask_size, at_bit)
  IN  {place[0] : x \in {n \in {val} : n < 0}}
      \cup {place[k] : k \in {n \in 1..mask_size : (Abs(val) \div 2^(n - 1)) % 2 = 1}}

get_bits(bits, mask_size, at_bit) ==
  LET place == Places(mask_size, at_bit)
      ones == {k \in 1..mask_size : place[k] \in bits}
      ret == IF mask_size = 0 THEN 1 ELSE MapThenSumSet(LAMBDA k : 2^(k - 1), ones)
  IN  IF place[0] \in bits THEN -ret ELSE ret

\* The value of an element within the range of its field.
Clipped(x, size) ==
  LET max_val == 2^(size - 1) - 1
      val == IF Abs(x) < max_val THEN Abs(x) ELSE max_val
  IN  IF x < 0 THEN -val ELSE val

------------------------------------------------------------------------------
Elements(part) ==
  part * elements_per_part + 1 ..
    (IF (part + 1) * elements_per_part < Count THEN (part + 1) * elements_per_part ELSE Count)

Parts == 0..((Count - 1) \div elements_per_part)

\* encode_averaging and encode_simple; the message and its number of bytes.
encode_averaging(data, part, size) ==
  LET n == Cardinality(Elements(part))
      first == part * elements_per_part
  IN  [part |-> part, size |-> size, source |-> data,
       data |-> UNION {set_bits(Clipped(data[first + i], size), size - 1, (i - 1) * size) : i \in 1..n},
       bytes |-> (n * size + CharBit - 1) \div CharBit]

encode_simple(data, part) ==
  [part |-> part, size |-> 0, source |-> data,
   data |-> [i \in 1..Cardinality(Elements(part)) |-> data[part * elements_per_part + i]],
   bytes |-> Cardinality(Elements(part)) * SizeofDtype]

\* The comm thread encodes what its cpu_data() returned, with the codec's setting size.
encode(part, size) ==
  /\ packet = {} /\ op["comm"] = Idle
  /\ sends < MaxSends /\ sends' = sends + 1
  /\ \E data \in seen["comm"] :
       packet' = {IF size = 0 THEN encode_simple(data, part)
                              ELSE encode_averaging(data, part, size)}
  /\ UNCHANGED <<memory, dest>>

\* decode with the multipliers for parameters.  A message whose length is no multiple of
\* an element's is ignored; averaging decodes as many elements as the message would
\* hold uncompressed.
Received(msg) == IF msg.bytes % SizeofDtype # 0 THEN 0 ELSE msg.bytes \div SizeofDtype

Value(msg, i) ==
  IF msg.size = 0 THEN msg.data[i] ELSE get_bits(msg.data, msg.size - 1, (i - 1) * msg.size)

decode_NoOffset(msg) ==
  /\ msg \in packet /\ packet' = {}
  /\ dest' = [k \in Index |-> IF k \in 1..Received(msg) THEN Value(msg, k) ELSE dest[k]]
  /\ UNCHANGED <<memory, sends>>

decode(msg) ==
  /\ msg \in packet /\ packet' = {}
  /\ dest' = [k \in Index |->
       LET i == k - msg.part * elements_per_part
       IN  IF i \in 1..Received(msg) THEN Value(msg, i) ELSE dest[k]]
  /\ UNCHANGED <<memory, sends>>

Init == MemoryInit /\ packet = {} /\ dest = Zero /\ sends = 0

Next ==
  \/ sends < MaxSends /\ MemoryNext /\ UNCHANGED <<packet, dest, sends>>
  \/ \E part \in Parts, size \in Sizes : encode(part, size)
  \/ \E msg \in packet : decode(msg)

Spec == Init /\ [][Next]_vars

------------------------------------------------------------------------------
\* Every field can be read back from the finished message as it was set: no field
\* disturbs another, earlier or later, across bytes too (BlobCodec.cpp:89-103,
\* bitfield.hpp:28-65).
FieldsReadBack ==
  \A msg \in packet : msg.size # 0 =>
    \A k \in Elements(msg.part) :
      Value(msg, k - msg.part * elements_per_part) = Clipped(msg.source[k], msg.size)

\* Decoding a message writes the elements of its own part only, in their places, with
\* the sender's last values; an uncompressed message brings all of them
\* (BlobCodec.cpp:38-72, 107-141, 169-235).
Carried(msg) ==
  IF msg.size = 0 THEN Elements(msg.part)
  ELSE {k \in Elements(msg.part) : k <= msg.part * elements_per_part + Received(msg)}

DecodeExact ==
  [][dest' # dest => \E msg \in packet :
       \A k \in Index : dest'[k] = IF k \notin Carried(msg) THEN dest[k]
                                   ELSE IF msg.size = 0 THEN msg.source[k]
                                   ELSE Clipped(msg.source[k], msg.size)]_vars
==============================================================================
