---------------------------- MODULE DigestStream ----------------------------
(***************************************************************************)
(* The streaming SHA-256 of levo-token-io.cpp and its copy in              *)
(* levo-checkpoint.cpp: bytes arrive in pieces of any size (a token, a     *)
(* mebibyte of a file, the parts of a blob around its digest field), fill  *)
(* a block, and finish() pads the last one.  The compression of a block    *)
(* is an oracle: the digest is the sequence of blocks it was given.        *)
(***************************************************************************)
EXTENDS Integers, SequencesExt

CONSTANTS MaxLength,   (* bound: bytes of a message                        *)
          CountRange,  (* 2^64: where bit_count_ starts again at zero      *)
          Pieces       (* sizes of the pieces a caller feeds               *)

(* A message whose bits can be counted: SHA-256 is defined for no longer   *)
(* one.  Counting the padding may still start again at zero.               *)
DigestAssumption ==
  /\ MaxLength \in Nat /\ CountRange \in Nat /\ 8 * MaxLength < CountRange
  /\ Pieces \subseteq Nat \ {0}

BlockSize == 64
LengthAt == 56

VARIABLES
  fed,        (* bytes of the message so far                               *)
  bits,       (* bit_count_, which finish() goes on counting               *)
  original,   (* original_bits                                             *)
  pending,    (* what the current update() still has to copy               *)
  block,      (* the buffered_ bytes of block_                             *)
  hashed,     (* the blocks given to transform()                           *)
  stage

vars == <<fed, bits, original, pending, block, hashed, stage>>

(* Bytes: the message's own, and the ones finish() adds.                   *)
Data(first, last) == [i \in 1 .. last - first + 1 |-> <<"message", first + i - 1>>]
Added(value) == <<"added", value>>

Init ==
  /\ fed = 0 /\ bits = 0 /\ original = 0
  /\ pending = <<>> /\ block = <<>> /\ hashed = <<>>
  /\ stage = "feeding"

Update(bytes) ==
  pending = <<>> /\ pending' = bytes /\ bits' = (bits + 8 * Len(bytes)) % CountRange

Feed ==
  /\ stage = "feeding"
  /\ \E n \in Pieces :
       /\ fed + n <= MaxLength /\ fed' = fed + n
       /\ Update(Data(fed + 1, fed + n))
  /\ UNCHANGED <<original, block, hashed, stage>>

(* One turn of the loop in update(); a full block starts again at zero.    *)
KeptFull(bytes) == bytes
Buffered(bytes) == IF Len(bytes) = BlockSize THEN <<>> ELSE bytes

MaxBlocks == MaxLength \div BlockSize + 2   (* bound: blocks of a digest *)

Copy ==
  /\ pending # <<>> /\ Len(hashed) <= MaxBlocks
  /\ LET room == BlockSize - Len(block)
         take == IF Len(pending) < room THEN Len(pending) ELSE room
         filled == block \o SubSeq(pending, 1, take)
     IN  /\ pending' = SubSeq(pending, take + 1, Len(pending))
         /\ hashed' = IF Len(filled) = BlockSize THEN Append(hashed, filled) ELSE hashed
         /\ block' = Buffered(filled)
  /\ UNCHANGED <<fed, bits, original, stage>>

(* finish(): the length is the one from before the padding.                *)
CountedLate == (bits + 8) % CountRange
OriginalBits == bits

Finish ==
  /\ stage = "feeding" /\ Update(<<Added(128)>>)
  /\ original' = OriginalBits /\ stage' = "padding"
  /\ UNCHANGED <<fed, block, hashed>>

PadZero ==
  /\ stage = "padding" /\ Len(block) # LengthAt /\ Update(<<Added(0)>>)
  /\ UNCHANGED <<fed, original, block, hashed, stage>>

(* The bytes of a 64-bit length, the upper four taken from its upper half. *)
UpperHalf(value) == (value \div 65536) \div 65536
Octet(value, k) ==
  IF k < 4 THEN (value \div (256 ^ k)) % 256
  ELSE (UpperHalf(value) \div (256 ^ (k - 4))) % 256
LengthField == [i \in 1 .. 8 |-> Added(Octet(original, 8 - i))]

PadLength ==
  /\ stage = "padding" /\ Len(block) = LengthAt /\ Update(LengthField)
  /\ stage' = "padded"
  /\ UNCHANGED <<fed, original, block, hashed>>

Next == Feed \/ Copy \/ Finish \/ PadZero \/ PadLength

Spec == Init /\ [][Next]_vars

-----------------------------------------------------------------------------
Finished == stage = "padded" /\ pending = <<>>

(* What SHA-256 hashes: the message, one bit, the fewest zeros, its length *)
Zeros(n) == CHOOSE k \in 0 .. BlockSize - 1 : (n + 1 + k + 8) % BlockSize = 0
Padded(n) ==
  Data(1, n) \o <<Added(128)>> \o [i \in 1 .. Zeros(n) |-> Added(0)]
    \o [i \in 1 .. 8 |-> Added(Octet(8 * n, 8 - i))]

(* The digest is SHA-256 of the message, at every length around the block  *)
(* boundaries and however it was cut into pieces: the tensor's, the        *)
(* file's and the blob's digests agree with each other and with any tool.  *)
DigestIsStandard ==
  Finished => /\ FlattenSeq(hashed) = Padded(fed)
              /\ block = <<>>
              /\ \A i \in 1 .. Len(hashed) : Len(hashed[i]) = BlockSize

(* finish() meets the byte it looks for: no digest takes a block more than *)
(* the longest message needs.                                              *)
DigestEnds == Len(hashed) <= MaxBlocks
=============================================================================
