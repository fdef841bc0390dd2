---------------------------- MODULE StateFrames ----------------------------
(***************************************************************************)
(* The frames of state files (files/codec.rs) and of the streams between   *)
(* processes (files/ecc_frame.rs): a payload is cut into shards, parity    *)
(* shards are added, and a damaged frame is repaired or refused.           *)
(*                                                                         *)
(* A frame is [kind, len, payload, size, data, table, shards]: the length  *)
(* and the checksum of the payload, the size and the number of the data    *)
(* shards, the checksums of all shards, and the shards.  A checksum tells  *)
(* any two contents apart here, so it is written as what it is the         *)
(* checksum of.  The code of Reed and Solomon is external: it gives all    *)
(* shards back from as many intact ones as there are data shards.          *)
(***************************************************************************)
EXTENDS Integers, Sequences, FiniteSets, SequencesExt

CONSTANTS
  TargetSize,   (* ECC_TARGET_SHARD_SIZE                                   *)
  MinShards,    (* ECC_MIN_DATA_SHARDS                                     *)
  MaxShards,    (* ECC_MAX_DATA_SHARDS                                     *)
  Parity        (* ECC_PARITY_SHARDS                                       *)

(* Every frame has data shards, and each of them can hold something.       *)
Sizes ==
  /\ TargetSize \in Nat \ {0} /\ MinShards \in Nat \ {0}
  /\ MaxShards \in Nat /\ MinShards <= MaxShards /\ Parity \in Nat

Up(a, b) == (a + b - 1) \div b
Largest(a, b) == IF a < b THEN b ELSE a
Smallest(a, b) == IF a < b THEN a ELSE b

(* for_payload_len; the mutant rounds the size of a shard down.            *)
DataShards(len) == Largest(MinShards, Smallest(MaxShards, Up(Largest(len, 1), TargetSize)))
SizeDown(len) == Largest(Largest(len, 1) \div DataShards(len), 1)
ShardSize(len) == Up(Largest(len, 1), DataShards(len))

Zero == 0
Damaged == [is |-> "damaged"]
Intact(bytes) == [is |-> "data", bytes |-> bytes]

(* The parity shards depend on all of the data.                            *)
ParityOf(data) == [i \in 1 .. Parity |-> [is |-> "parity", nth |-> i, of |-> data]]

(* encode_binary and write_frame: the last shards are filled up.           *)
Encoded(kind, payload) ==
  LET n == DataShards(Len(payload))
      size == ShardSize(Len(payload))
      padded == [i \in 1 .. n * size |-> IF i <= Len(payload) THEN payload[i] ELSE Zero]
      data == [i \in 1 .. n |-> Intact(SubSeq(padded, (i - 1) * size + 1, i * size))]
      shards == data \o ParityOf(data)
  IN [kind |-> kind, len |-> Len(payload), payload |-> Intact(payload), size |-> size, data |-> n,
      table |-> shards, shards |-> shards]

(* What damage does: to shards, to entries of the table and to the fields  *)
(* of the header (len is 0 for none, or one more than what is read).       *)
Spoiled(seq, places) == [i \in DOMAIN seq |-> IF i \in places THEN Damaged ELSE seq[i]]
Damage(frame, d) ==
  [frame EXCEPT !.shards = Spoiled(@, d.shards), !.table = Spoiled(@, d.table),
                !.len = IF d.len = 0 THEN @ ELSE d.len - 1,
                !.payload = IF d.payload THEN Damaged ELSE @,
                !.data = IF d.data = 0 THEN @ ELSE d.data,
                !.size = @ + d.size]

Error == [is |-> "error"]
Decoded(payload) == [is |-> "payload", payload |-> payload]

Missing(frame) ==
  {i \in DOMAIN frame.shards : frame.shards[i] = Damaged \/ frame.table[i] = Damaged}

(* A header that says another number or size of shards: a state file has   *)
(* not the length that follows from it, a stream is read out of step.      *)
Fits(frame, original) ==
  /\ frame.data = original.data /\ frame.data \in MinShards .. MaxShards
  /\ frame.size = original.size

Checked(frame, payload) == Intact(payload) = frame.payload

(* decode_binary and read_frame; original is what the shards that are      *)
(* intact belong to.  A state file has every shard compared with the table *)
(* again after the repair, a stream has only the payload compared.         *)
Decode(frame, original) ==
  LET data == FlattenSeq([i \in 1 .. original.data |-> original.shards[i].bytes])
      payload == SubSeq(data, 1, Smallest(frame.len, Len(data)))
  IN IF /\ Fits(frame, original)
        /\ Cardinality(Missing(frame)) <= Parity
        /\ frame.kind = "state" => frame.table = original.shards
        /\ Checked(frame, payload)
     THEN Decoded(payload) ELSE Error

----------------------------------------------------------------------------
(* What is read is what was written or an error, whatever the damage; and  *)
(* as long as only shards are damaged, and in a stream also the checksums  *)
(* of shards, two of them are repaired (codec.rs, decode_binary;           *)
(* ecc_frame.rs, read_frame).                                              *)
FrameIsTrue(kind, payload, damage, result) ==
  /\ result \in {Error, Decoded(payload)}
  /\ /\ damage.len = 0 /\ ~damage.payload /\ damage.data = 0 /\ damage.size = 0
     /\ kind = "state" => damage.table = {}
     /\ Cardinality(damage.shards \union damage.table) <= Parity
     => result = Decoded(payload)
=============================================================================
