--------------------------- MODULE WriteDataBlocks ---------------------------
(***************************************************************************)
(* Range extraction from a decoded shard set: writeDataBlocks and         *)
(* getDataBlockLen of cmd/erasure-utils.go.                                *)
(*                                                                         *)
(* One call is modelled.  The inputs (the shard buffers enBlocks, the      *)
(* number of data blocks, offset and length) are chosen in Init and stay   *)
(* fixed; each iteration of the loop over the data blocks is one step.    *)
(* Byte j of block i is the value <<i, j>>, so every byte is distinct and  *)
(* a byte copied from the wrong place can never look right.  The writer    *)
(* dst (the HTTP response in GetObjectHandler) may fail part way through  *)
(* a Write, after some of the bytes have already left.                    *)
(***************************************************************************)
EXTENDS Integers, Sequences, SequencesExt

CONSTANTS
  MaxBlocks,    \* most shard buffers handed to one call
  MaxBlockLen,  \* longest shard buffer
  Offsets,      \* offsets the caller may pass (int64; negatives included)
  Lengths       \* lengths the caller may pass (int64; negatives included)

ASSUME MaxBlocks \in Nat \ {0} /\ MaxBlockLen \in Nat
ASSUME Offsets \subseteq Int /\ Lengths \subseteq Int

\* Errors returned by writeDataBlocks; "nil" is success.
Errors == {"nil", "errUnexpected", "ErrTooFewShards", "ErrShortData", "errWrite"}

\* Shard buffer number i of length n.
Block(i, n) == [j \in 1..n |-> <<i, j>>]

ShardSets ==
  UNION { { [i \in 1..k |-> Block(i, lens[i])] : lens \in [1..k -> 0..MaxBlockLen] }
          : k \in 0..MaxBlocks }

VARIABLES
  enBlocks, dataBlocks, reqOffset, reqLength,  \* the call's arguments
  pc,            \* "check", "loop" or "done"
  idx,           \* index of the data block the loop is at
  offset,        \* the parameter offset, decremented while blocks are skipped
  write,         \* bytes left to write
  totalWritten,  \* bytes written, as counted by the loop
  out,           \* bytes dst has received
  err, ret       \* the call's results

vars == <<enBlocks, dataBlocks, reqOffset, reqLength, pc, idx, offset, write,
          totalWritten, out, err, ret>>

\* getDataBlockLen: summed length of the first dataBlocks buffers.
getDataBlockLen(blocks, d) == Len(FlattenSeq(SubSeq(blocks, 1, d)))

Init ==
  /\ enBlocks \in ShardSets
  /\ dataBlocks \in 1..MaxBlocks
  /\ reqOffset \in Offsets
  /\ reqLength \in Lengths
  /\ pc = "check"
  /\ idx = 1
  /\ offset = reqOffset
  /\ write = 0
  /\ totalWritten = 0
  /\ out = <<>>
  /\ err = "nil"
  /\ ret = 0

Return(e, n) == pc' = "done" /\ err' = e /\ ret' = n

\* Mutant: the short-data check is missing.
CheckArgsNoShortData ==
  /\ pc = "check"
  /\ \/ /\ reqOffset < 0 \/ reqLength < 0
        /\ Return("errUnexpected", 0) /\ UNCHANGED write
     \/ /\ reqOffset >= 0 /\ reqLength >= 0
        /\ Len(enBlocks) < dataBlocks
        /\ Return("ErrTooFewShards", 0) /\ UNCHANGED write
     \/ /\ reqOffset >= 0 /\ reqLength >= 0 /\ Len(enBlocks) >= dataBlocks
        /\ pc' = "loop" /\ write' = reqLength
        /\ UNCHANGED <<err, ret>>
  /\ UNCHANGED <<enBlocks, dataBlocks, reqOffset, reqLength, idx, offset,
                 totalWritten, out>>

\* The three argument checks, in the order of the code, then write := length.
CheckArgs ==
  /\ pc = "check"
  /\ \/ /\ reqOffset < 0 \/ reqLength < 0
        /\ Return("errUnexpected", 0) /\ UNCHANGED write
     \/ /\ reqOffset >= 0 /\ reqLength >= 0
        /\ Len(enBlocks) < dataBlocks
        /\ Return("ErrTooFewShards", 0) /\ UNCHANGED write
     \/ /\ reqOffset >= 0 /\ reqLength >= 0 /\ Len(enBlocks) >= dataBlocks
        /\ getDataBlockLen(enBlocks, dataBlocks) < reqLength
        /\ Return("ErrShortData", 0) /\ UNCHANGED write
     \/ /\ reqOffset >= 0 /\ reqLength >= 0 /\ Len(enBlocks) >= dataBlocks
        /\ getDataBlockLen(enBlocks, dataBlocks) >= reqLength
        /\ pc' = "loop" /\ write' = reqLength
        /\ UNCHANGED <<err, ret>>
  /\ UNCHANGED <<enBlocks, dataBlocks, reqOffset, reqLength, idx, offset,
                 totalWritten, out>>

InLoop == pc = "loop" /\ idx <= dataBlocks

\* offset >= len(block): skip the block and decrement offset.
SkipBlock ==
  /\ InLoop
  /\ offset >= Len(enBlocks[idx])
  /\ offset' = offset - Len(enBlocks[idx])
  /\ idx' = idx + 1
  /\ UNCHANGED <<enBlocks, dataBlocks, reqOffset, reqLength, pc, write,
                 totalWritten, out, err, ret>>

\* The block from the offset onward; offset is then reset to 0.
Rest == SubSeq(enBlocks[idx], offset + 1, Len(enBlocks[idx]))

\* io.Copy(dst, bytes.NewReader(chunk)) fails: dst took a prefix of the
\* chunk (an empty chunk is never written) and the call returns 0, err.
CopyFails(chunk) ==
  /\ Len(chunk) > 0
  /\ \E k \in 0..Len(chunk) : out' = out \o SubSeq(chunk, 1, k)
  /\ Return("errWrite", 0)
  /\ UNCHANGED <<idx, offset, write, totalWritten>>

\* write < len(block): copy block[:write] and break out of the loop.
CopyLast ==
  /\ InLoop
  /\ offset < Len(enBlocks[idx])
  /\ write < Len(Rest)
  /\ LET chunk == SubSeq(Rest, 1, write) IN
       \/ /\ out' = out \o chunk
          /\ totalWritten' = totalWritten + Len(chunk)
          /\ offset' = 0
          /\ Return("nil", totalWritten + Len(chunk))
          /\ UNCHANGED <<idx, write>>
       \/ CopyFails(chunk)
  /\ UNCHANGED <<enBlocks, dataBlocks, reqOffset, reqLength>>

\* Mutant: the offset is not reset after the first sliced block.
CopyBlockNoReset ==
  /\ InLoop
  /\ offset < Len(enBlocks[idx])
  /\ write >= Len(Rest)
  /\ \/ /\ out' = out \o Rest
        /\ write' = write - Len(Rest)
        /\ totalWritten' = totalWritten + Len(Rest)
        /\ idx' = idx + 1
        /\ UNCHANGED <<pc, offset, err, ret>>
     \/ CopyFails(Rest)
  /\ UNCHANGED <<enBlocks, dataBlocks, reqOffset, reqLength>>

\* Mutant: write is decremented by the length of the unsliced block.
CopyBlockFullDec ==
  /\ InLoop
  /\ offset < Len(enBlocks[idx])
  /\ write >= Len(Rest)
  /\ \/ /\ out' = out \o Rest
        /\ write' = write - Len(enBlocks[idx])
        /\ totalWritten' = totalWritten + Len(Rest)
        /\ offset' = 0
        /\ idx' = idx + 1
        /\ UNCHANGED <<pc, err, ret>>
     \/ CopyFails(Rest)
  /\ UNCHANGED <<enBlocks, dataBlocks, reqOffset, reqLength>>

\* Otherwise copy the whole (sliced) block and go on with the next one.
CopyBlock ==
  /\ InLoop
  /\ offset < Len(enBlocks[idx])
  /\ write >= Len(Rest)
  /\ \/ /\ out' = out \o Rest
        /\ write' = write - Len(Rest)
        /\ totalWritten' = totalWritten + Len(Rest)
        /\ offset' = 0
        /\ idx' = idx + 1
        /\ UNCHANGED <<pc, err, ret>>
     \/ CopyFails(Rest)
  /\ UNCHANGED <<enBlocks, dataBlocks, reqOffset, reqLength>>

\* All data blocks visited: return totalWritten, nil.
LoopEnd ==
  /\ pc = "loop" /\ idx > dataBlocks
  /\ Return("nil", totalWritten)
  /\ UNCHANGED <<enBlocks, dataBlocks, reqOffset, reqLength, idx, offset,
                 write, totalWritten, out>>

\* A call ends once pc = "done": the model stops there.
Next == CheckArgs \/ SkipBlock \/ CopyLast \/ CopyBlock \/ LoopEnd

Spec == Init /\ [][Next]_vars /\ WF_vars(Next)

-----------------------------------------------------------------------------
(* Reference definitions, written from the function's contract.           *)

\* The logical byte stream: the data blocks concatenated.  Parity buffers
\* (beyond dataBlocks) never contribute.
Data ==
  FlattenSeq(SubSeq(enBlocks, 1, IF dataBlocks <= Len(enBlocks)
                                 THEN dataBlocks ELSE Len(enBlocks)))

\* The requested window, clipped to the end of the data.
Window ==
  LET last == IF reqOffset + reqLength <= Len(Data)
              THEN reqOffset + reqLength ELSE Len(Data)
  IN SubSeq(Data, reqOffset + 1, last)

TypeOK ==
  /\ enBlocks \in ShardSets
  /\ dataBlocks \in 1..MaxBlocks
  /\ pc \in {"check", "loop", "done"}
  /\ idx \in 1..(MaxBlocks + 1)
  /\ offset \in Int /\ write \in Nat /\ totalWritten \in Nat
  /\ out \in Seq((1..MaxBlocks) \X (1..MaxBlockLen))
  /\ err \in Errors /\ ret \in Int

(* Whatever dst has received so far, including before a failing Write,    *)
(* is a prefix of the requested window of the data blocks: the skip/slice *)
(* loop never sends a byte from before the offset, from a parity buffer,  *)
(* or out of order.                                                        *)
OutputIsWindowPrefix ==
  pc # "check" /\ reqOffset >= 0 /\ reqLength >= 0 => IsPrefix(out, Window)

(* A finished call returns what the contract of writeDataBlocks says:     *)
(* the argument errors in the code's order, and on success exactly the     *)
(* (clipped) window, with the returned count equal to the bytes sent.      *)
CallResultMatchesReference ==
  pc = "done" =>
    CASE reqOffset < 0 \/ reqLength < 0 -> err = "errUnexpected"
      [] Len(enBlocks) < dataBlocks      -> err = "ErrTooFewShards"
      [] Len(Data) < reqLength           -> err = "ErrShortData"
      [] OTHER -> \/ err = "nil" /\ out = Window /\ ret = Len(out)
                  \/ err = "errWrite" /\ ret = 0

(* Spec 4.3 and 8: a request whose end lies beyond the data blocks fails  *)
(* with the short-data fault; it never succeeds with fewer bytes.         *)
ShortRangeRejected ==
  pc = "done" /\ reqOffset >= 0 /\ reqLength >= 0
  /\ Len(enBlocks) >= dataBlocks /\ reqOffset + reqLength > Len(Data)
    => err # "nil"
=============================================================================
