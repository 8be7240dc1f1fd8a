---------------------------- MODULE AuthBuilder ----------------------------
(***************************************************************************)
(* The incremental Chaskey MAC builder (src/rust/src/auth.rs): how update  *)
(* splits the bytes it is fed into absorbed blocks and a partial-block     *)
(* buffer, and how finalize pads the last block and picks the subkey.      *)
(*                                                                         *)
(* Data abstraction: the k-th byte fed is the value k, so a block is the   *)
(* sequence of the byte positions it holds.  The permutation and the XORs *)
(* are abstracted to what they are a function of: a tag is the sequence  *)
(* of absorbed blocks, the final block (with the 0x01 padding byte as     *)
(* Pad) and the 128 bits of the subkey, K1 or K2, used on it.  Two tags   *)
(* are equal exactly when these are, up to a collision of Chaskey.  The   *)
(* subkeys are derived bit for bit as AuthKey::new does, from a raw key   *)
(* drawn from RawKeys.                                                     *)
(*                                                                         *)
(* update takes self by value and returns it, finalize consumes it: the    *)
(* builder has one owner and each call is one step.                        *)
(***************************************************************************)
EXTENDS Naturals, Sequences, SequencesExt

CONSTANTS
  BLOCK_SIZE,   \* BLOCK_SIZE (16 in auth.rs)
  MaxLen,       \* bytes fed to one builder
  MaxChunk,     \* the largest slice one update is given
  RawKeys       \* the 16-byte raw keys, as sequences of bytes

ASSUME BLOCK_SIZE \in Nat \ {0} /\ MaxLen \in Nat /\ MaxChunk \in Nat

Pad == 0    \* the 0x01 byte finalize appends to an incomplete block

VARIABLES
  raw,       \* the RawKey the AuthKey was made from
  fed,       \* how many bytes the builder has been given
  absorbed,  \* the blocks XORed into state and permuted, in order
  buffer,    \* buffer[..buflen]
  phase,     \* "open" until finalize, then "final"
  tag,       \* the tag finalize returned
  updates    \* history: update calls on this builder, capped at 2

\* struct AuthBuilder: key (raw), state (absorbed), buffer[..buflen] (buffer).
vars == <<raw, fed, absorbed, buffer, phase, tag, updates>>

Bytes(from, n) == [k \in 1..n |-> from + k]

NoTag == [blocks |-> <<>>, last |-> <<>>, key |-> <<>>]

Bit(x, i) == (x \div 2^i) % 2
Reduction == {0, 1, 2, 7}    \* the bits of 0x87

(* u32::from_le_bytes of bytes 4w .. 4w+3 of the raw key, as bits.       *)
LeWord(bytes, w) == [b \in 0..31 |-> Bit(bytes[4 * w + b \div 8 + 1], b % 8)]

(* Mutant: the reduction by 0x87 is left out.                            *)
TimesTwo_NoReduction(in) ==
  [w \in 0..3 |-> [b \in 0..31 |-> IF b > 0 THEN in[w][b - 1]
                                  ELSE IF w > 0 THEN in[w - 1][31] ELSE 0]]

(* times_two: every word shifted left by one, taking in the top bit of   *)
(* the word below; if the top bit of word 3 was set, 0x87 is XORed into  *)
(* word 0.                                                                 *)
TimesTwo(in) ==
  LET msb == in[3][31] IN
  [w \in 0..3 |-> [b \in 0..31 |->
     ((IF b > 0 THEN in[w][b - 1] ELSE IF w > 0 THEN in[w - 1][31] ELSE 0)
      + (IF w = 0 /\ b \in Reduction THEN msb ELSE 0)) % 2]]

(* AuthKey::new: k from the raw bytes, k1 = times_two(k), k2 =            *)
(* times_two(k1).                                                          *)
AuthKeyNew(bytes) ==
  LET k == [w \in 0..3 |-> LeWord(bytes, w)] IN
  [k |-> k, k1 |-> TimesTwo(k), k2 |-> TimesTwo(TimesTwo(k))]

\* The 128 bits of four little-endian words, least significant first.
Bits128(words) == [i \in 0..127 |-> words[i \div 32][i % 32]]

----------------------------------------------------------------------------
(* update, first part: a non-empty buffer is completed from the front of   *)
(* data and processed, and buflen is reset.  Returns the absorbed blocks,  *)
(* the buffer and the offset into data.                                    *)
(* Mutant: buflen is not reset after the buffered block is processed.     *)
CompleteBuffered_NoReset(abs, buf, data) ==
  IF Len(buf) > 0
  THEN <<Append(abs, buf \o SubSeq(data, 1, BLOCK_SIZE - Len(buf))),
         buf, BLOCK_SIZE - Len(buf)>>
  ELSE <<abs, buf, 0>>

CompleteBuffered(abs, buf, data) ==
  IF Len(buf) > 0
  THEN <<Append(abs, buf \o SubSeq(data, 1, BLOCK_SIZE - Len(buf))),
         <<>>, BLOCK_SIZE - Len(buf)>>
  ELSE <<abs, buf, 0>>

(* Mutant: the loop is an if: at most one block is processed per call.   *)
AbsorbBlocks_Once(abs, data, offset) ==
  IF offset + BLOCK_SIZE < Len(data)
  THEN <<Append(abs, SubSeq(data, offset + 1, offset + BLOCK_SIZE)), offset + BLOCK_SIZE>>
  ELSE <<abs, offset>>

(* update, the loop: while offset + BLOCK_SIZE < data.len(), process the   *)
(* block at offset.  A complete block that ends the data is left for the   *)
(* buffer.  Returns the absorbed blocks and the final offset.              *)
RECURSIVE AbsorbBlocks(_, _, _)
AbsorbBlocks(abs, data, offset) ==
  IF offset + BLOCK_SIZE < Len(data)
  THEN AbsorbBlocks(Append(abs, SubSeq(data, offset + 1, offset + BLOCK_SIZE)),
                    data, offset + BLOCK_SIZE)
  ELSE <<abs, offset>>

(* update, last part: the rest of data, if any, replaces the buffer.       *)
Remainder(buf, data, offset) ==
  IF Len(data) - offset > 0 THEN SubSeq(data, offset + 1, Len(data)) ELSE buf

(* finalize: an incomplete last block is padded with 0x01 and takes K2, a *)
(* complete one takes K1.                                                  *)
FinalTag(abs, buf, k1, k2) ==
  IF Len(buf) < BLOCK_SIZE
  THEN [blocks |-> abs, last |-> Append(buf, Pad), key |-> k2]
  ELSE [blocks |-> abs, last |-> buf, key |-> k1]

----------------------------------------------------------------------------
\* AuthBuilder::new
Init ==
  /\ raw \in RawKeys
  /\ fed = 0 /\ absorbed = <<>> /\ buffer = <<>>
  /\ phase = "open" /\ tag = NoTag /\ updates = 0

(* update(data): a slice that does not complete a non-empty buffer is only *)
(* appended to it (early return); otherwise the three parts in order.      *)
Update(n) ==
  LET data == Bytes(fed, n)
      c    == CompleteBuffered(absorbed, buffer, data)
      l    == AbsorbBlocks(c[1], data, c[3])
  IN  /\ phase = "open" /\ fed + n <= MaxLen
      /\ IF Len(buffer) > 0 /\ n < BLOCK_SIZE - Len(buffer)
         THEN /\ buffer' = buffer \o data
              /\ UNCHANGED absorbed
         ELSE /\ absorbed' = l[1]
              /\ buffer' = Remainder(c[2], data, l[2])
      /\ fed' = fed + n
      /\ updates' = IF updates < 2 THEN updates + 1 ELSE 2
      /\ UNCHANGED <<raw, phase, tag>>

\* finalize consumes the builder and returns the tag.
Finalize ==
  /\ phase = "open"
  /\ LET key == AuthKeyNew(raw) IN
       tag' = FinalTag(absorbed, buffer, Bits128(key.k1), Bits128(key.k2))
  /\ phase' = "final"
  /\ UNCHANGED <<raw, fed, absorbed, buffer, updates>>

\* The caller starts a new builder for the next message.
NewBuilder ==
  /\ phase = "final"
  /\ fed' = 0 /\ absorbed' = <<>> /\ buffer' = <<>>
  /\ phase' = "open" /\ tag' = NoTag /\ updates' = 0
  /\ UNCHANGED raw

Next ==
  \/ \E n \in 0..MaxChunk : Update(n)
  \/ Finalize
  \/ NewBuilder

Spec == Init /\ [][Next]_vars

----------------------------------------------------------------------------
(* Reference: multiplication by x in GF(2^128) modulo                     *)
(* x^128 + x^7 + x^2 + x + 1, on the key read as one little-endian        *)
(* 128-bit number.                                                          *)
GFDouble(x) ==
  [i \in 0..127 |-> ((IF i > 0 THEN x[i - 1] ELSE 0)
                     + (IF i \in Reduction THEN x[127] ELSE 0)) % 2]

(* Reference: Chaskey over the message 1..L.  It is cut into blocks, the   *)
(* last of which may be incomplete (and the empty message is one empty    *)
(* block); all but the last are absorbed, and the last is padded with     *)
(* K2 = x^2 K or, if complete, taken with K1 = x K (Mouha et al., 2014).  *)
ChaskeyRef(L) ==
  LET nb   == IF L = 0 THEN 1 ELSE (L + BLOCK_SIZE - 1) \div BLOCK_SIZE
      full == [b \in 1..nb - 1 |-> Bytes((b - 1) * BLOCK_SIZE, BLOCK_SIZE)]
      last == Bytes((nb - 1) * BLOCK_SIZE, L - (nb - 1) * BLOCK_SIZE)
      K    == [i \in 0..127 |-> Bit(raw[i \div 8 + 1], i % 8)]
  IN  FinalTag(full, last, GFDouble(K), GFDouble(GFDouble(K)))

TypeOK ==
  /\ raw \in RawKeys /\ fed \in 0..MaxLen /\ phase \in {"open", "final"} /\ updates \in 0..2
  /\ absorbed \in Seq(Seq(1..MaxLen)) /\ buffer \in Seq(1..MaxLen)
  /\ Len(buffer) <= BLOCK_SIZE

(* Every byte update was given is in exactly one place, in order: the      *)
(* absorbed blocks (each BLOCK_SIZE long) followed by the buffer are the   *)
(* bytes fed, however the message was cut into update calls.              *)
DataConserved ==
  /\ FlattenSeq(absorbed) \o buffer = Bytes(0, fed)
  /\ \A b \in 1..Len(absorbed) : Len(absorbed[b]) = BLOCK_SIZE

(* mac (one update, then finalize) computes Chaskey: for every message     *)
(* length and every raw key the tag is the one the reference defines:    *)
(* the same blocks, the same padding, and subkeys that are the GF(2^128)  *)
(* doublings of the key (AuthKey::new and times_two).                      *)
OneShotMatchesChaskey ==
  (phase = "final" /\ updates <= 1) => tag = ChaskeyRef(fed)

(* The tag does not depend on how the message was split into update calls *)
(* (the builder's contract, asserted by test_incremental_mac and           *)
(* test_incremental_mac_chunked).                                          *)
IncrementalMatchesOneShot ==
  phase = "final" => tag = ChaskeyRef(fed)
=============================================================================
