------------------------------ MODULE ErasureCodec ------------------------------
(***************************************************************************)
(* The erasure codec around range extraction: getChunkSize                 *)
(* (cmd/erasure-utils.go) and the encoder's split of a block into         *)
(* dataBlocks zero-padded shards of chunkSize bytes plus parity shards,   *)
(* composed with writeDataBlocks (module WriteDataBlocks) reading a byte  *)
(* range of the block back from the shard set.                            *)
(*                                                                         *)
(* The split itself belongs to the reedsolomon encoder and the streaming  *)
(* write path, neither of which is in this source: Encode is modelled     *)
(* from spec 4.3 and 8.  One block is encoded; every valid range of it is *)
(* then extracted by the writeDataBlocks loop, step by step.              *)
(***************************************************************************)
EXTENDS Integers, Sequences, SequencesExt

CONSTANTS
  MaxPayload,   \* longest block
  MaxData,      \* most data shards
  MaxParity     \* most parity shards

VARIABLES payload, enBlocks, dataBlocks, reqOffset, reqLength, pc, idx,
          offset, write, totalWritten, out, err, ret

\* Byte j of a block, the zero padding, and a parity byte.
Byte(j) == <<"p", j>>
Pad == <<"z", 0>>
ParityByte == <<"q", 0>>

\* Mutant: the chunk size rounded down.
getChunkSizeFloor(blockSize, dataBlocksN) == blockSize \div dataBlocksN

\* Mutant: the chunk size rounded up one too far.
getChunkSizeOver(blockSize, dataBlocksN) == (blockSize + dataBlocksN) \div dataBlocksN

\* getChunkSize: blockSize / dataBlocks rounded up.
getChunkSize(blockSize, dataBlocksN) == (blockSize + dataBlocksN - 1) \div dataBlocksN

\* Split and encode: data shard i holds bytes (i-1)*c+1 .. i*c of the block
\* padded with zeros to c*d bytes; parity shards are c bytes each.
Encode(blk, d, p) ==
  LET c == getChunkSize(Len(blk), d)
      padded == blk \o [j \in 1..(c * d - Len(blk)) |-> Pad]
  IN [i \in 1..(d + p) |->
        IF i <= d THEN SubSeq(padded, (i - 1) * c + 1, i * c)
        ELSE [j \in 1..c |-> ParityByte]]

W == INSTANCE WriteDataBlocks WITH
       MaxBlocks <- MaxData + MaxParity, MaxBlockLen <- MaxPayload,
       Offsets <- 0..MaxPayload, Lengths <- 0..MaxPayload

Init ==
  /\ \E n \in 0..MaxPayload, d \in 1..MaxData, p \in 0..MaxParity :
       /\ payload = [j \in 1..n |-> Byte(j)]
       /\ enBlocks = Encode(payload, d, p)
       /\ dataBlocks = d
  /\ reqOffset \in 0..Len(payload)
  /\ reqLength \in 0..(Len(payload) - reqOffset)
  /\ pc = "check" /\ idx = 1 /\ offset = reqOffset /\ write = 0
  /\ totalWritten = 0 /\ out = << >> /\ err = "nil" /\ ret = 0

Next == W!Next /\ UNCHANGED payload

Spec == Init /\ [][Next]_<<payload, W!vars>>

-----------------------------------------------------------------------------
(* Round-trip law (spec 8): reading back any byte range of an encoded      *)
(* block through writeDataBlocks returns exactly those bytes of the block, *)
(* whatever the block length, so padding never leaks and no byte is lost; *)
(* only a failing writer stops it, after a prefix of those bytes.         *)
RoundTrip ==
  LET want == SubSeq(payload, reqOffset + 1, reqOffset + reqLength) IN
  pc = "done" =>
    \/ err = "nil" /\ out = want
    \/ err = "errWrite" /\ IsPrefix(out, want)

(* getChunkSize is the least chunk size whose dataBlocks chunks hold the   *)
(* block: checked against that definition over every encoded block.       *)
ChunkSizeIsLeast ==
  LET b == Len(payload)
      least == CHOOSE c \in 0..b : c * dataBlocks >= b /\ \A c2 \in 0..b : c2 * dataBlocks >= b => c <= c2
  IN getChunkSize(b, dataBlocks) = least
=============================================================================
