------------------------------- MODULE HashSum -------------------------------
(***************************************************************************)
(* Streaming hash of a blob: hashSum and copyBuffer of                     *)
(* cmd/erasure-utils.go, with the shared hashBufferPool (a sync.Pool).     *)
(*                                                                         *)
(* Several goroutines (Hashers) call hashSum concurrently, each with its   *)
(* own fresh hash writer.  The only state they share is the pool of        *)
(* staging buffers and the buffers themselves.  copyBuffer's loop is split *)
(* at its one blocking call: ReadFile fills the buffer, then the bytes are *)
(* written into the hash and the error is examined.  Byte j of the blob a  *)
(* hasher reads is <<h, j>>, so bytes of two blobs never look alike.       *)
(***************************************************************************)
EXTENDS Integers, Sequences, FiniteSets

CONSTANTS
  Hashers,     \* goroutines calling hashSum
  BufIds,      \* identities of the buffers hashBufferPool.New may allocate
  BufSize,     \* readSizeV1, the length of every pooled buffer
  MaxFileLen,  \* longest blob hashed
  MaxCalls     \* hashSum calls per goroutine

ASSUME BufSize \in Nat \ {0} /\ MaxFileLen \in Nat /\ MaxCalls \in Nat \ {0}
ASSUME Cardinality(BufIds) > Cardinality(Hashers)

NoBuf == "NoBuf"

\* Results of ReadFile as the storage layer's ReadFile (io.ReadFull on the
\* file) reports them; "errIO" is any other failure.
ReadErrors == {"nil", "EOF", "ErrUnexpectedEOF", "errIO"}

VARIABLES
  pool,      \* buffers currently in hashBufferPool
  bufData,   \* contents of every buffer
  pc,        \* per hasher: "idle", "read" or "write"
  buf,       \* per hasher: the buffer it got from the pool, or NoBuf
  fileLen,   \* per hasher: length of the blob of its current call
  startOffset,
  n, rerr,   \* per hasher: the last ReadFile result
  written,   \* per hasher: the bytes fed to its hash writer
  result,    \* per hasher: outcome of its last call
  calls      \* per hasher: calls made so far

vars == <<pool, bufData, pc, buf, fileLen, startOffset, n, rerr, written,
          result, calls>>

Blob(h, len) == [j \in 1..len |-> <<h, j>>]

\* Byte values: a byte of some blob, or a zero byte of a fresh buffer.
Zero == <<NoBuf, 0>>
Bytes == (Hashers \X (1..MaxFileLen)) \cup {Zero}

\* A freshly made buffer: readSizeV1 zero bytes.
ZeroBuf == [j \in 1..BufSize |-> Zero]

\* Buffers reachable by the program: in the pool or held by a hasher.
Live == pool \cup ({buf[h] : h \in Hashers} \ {NoBuf})

Init ==
  /\ pool = {}
  /\ bufData = [b \in BufIds |-> ZeroBuf]
  /\ pc = [h \in Hashers |-> "idle"]
  /\ buf = [h \in Hashers |-> NoBuf]
  /\ fileLen = [h \in Hashers |-> 0]
  /\ startOffset = [h \in Hashers |-> 0]
  /\ n = [h \in Hashers |-> 0]
  /\ rerr = [h \in Hashers |-> "nil"]
  /\ written = [h \in Hashers |-> <<>>]
  /\ result = [h \in Hashers |-> "none"]
  /\ calls = [h \in Hashers |-> 0]

\* hashSum is called on a blob and fetches a staging buffer b: any pooled
\* buffer, or a newly allocated one (sync.Pool may always call New).
\* The buffer is never of zero length, so copyBuffer's empty-buffer check
\* does not fire; startOffset starts at 0.
Gettable(b) == b \in pool \/ b \notin Live

Fetched(b) ==
  bufData' = IF b \in pool THEN bufData ELSE [bufData EXCEPT ![b] = ZeroBuf]

StartCall(h, b) ==
  /\ pc[h] = "idle" /\ calls[h] < MaxCalls
  /\ Gettable(b) /\ Fetched(b)
  /\ buf' = [buf EXCEPT ![h] = b]
  /\ \E len \in 0..MaxFileLen : fileLen' = [fileLen EXCEPT ![h] = len]
  /\ pc' = [pc EXCEPT ![h] = "read"]
  /\ startOffset' = [startOffset EXCEPT ![h] = 0]
  /\ written' = [written EXCEPT ![h] = <<>>]
  /\ result' = [result EXCEPT ![h] = "none"]
  /\ calls' = [calls EXCEPT ![h] = @ + 1]
  /\ UNCHANGED <<n, rerr>>

\* Mutant: the buffer is put back straight away instead of in a deferred
\* Put, while copyBuffer still uses it.
HashSumStartEarlyPut(h) ==
  \E b \in BufIds : StartCall(h, b) /\ pool' = pool \cup {b}

HashSumStart(h) ==
  \E b \in BufIds : StartCall(h, b) /\ pool' = pool \ {b}

\* disk.ReadFile(volume, path, startOffset, buf): a full buffer, the short
\* tail of the blob with ErrUnexpectedEOF, nothing with EOF at the end, or
\* an I/O error after any part of the buffer was filled.
ReadFile(h) ==
  /\ pc[h] = "read"
  /\ LET rem == fileLen[h] - startOffset[h]
         \* ReadFile overwrites buf[:k]; the rest keeps what it held.
         Fill(k) == bufData' = [bufData EXCEPT ![buf[h]] =
                      [j \in 1..BufSize |-> IF j <= k
                                            THEN <<h, startOffset[h] + j>>
                                            ELSE @[j]]]
     IN \/ /\ rem >= BufSize /\ Fill(BufSize)
           /\ n' = [n EXCEPT ![h] = BufSize] /\ rerr' = [rerr EXCEPT ![h] = "nil"]
        \/ /\ 0 < rem /\ rem < BufSize /\ Fill(rem)
           /\ n' = [n EXCEPT ![h] = rem]
           /\ rerr' = [rerr EXCEPT ![h] = "ErrUnexpectedEOF"]
        \/ /\ rem = 0 /\ UNCHANGED bufData
           /\ n' = [n EXCEPT ![h] = 0] /\ rerr' = [rerr EXCEPT ![h] = "EOF"]
        \/ \E k \in 0..(IF rem < BufSize THEN rem ELSE BufSize) :
           /\ Fill(k)
           /\ n' = [n EXCEPT ![h] = k] /\ rerr' = [rerr EXCEPT ![h] = "errIO"]
  /\ pc' = [pc EXCEPT ![h] = "write"]
  /\ UNCHANGED <<pool, buf, fileLen, startOffset, written, result, calls>>

\* hashSum returns: the deferred Put hands the buffer back to the pool and
\* copyBuffer's locals are gone.
Return(h, r) ==
  /\ pool' = pool \cup {buf[h]}
  /\ n' = [n EXCEPT ![h] = 0] /\ rerr' = [rerr EXCEPT ![h] = "nil"]
  /\ buf' = [buf EXCEPT ![h] = NoBuf]
  /\ pc' = [pc EXCEPT ![h] = "idle"]
  /\ result' = [result EXCEPT ![h] = r]
  /\ startOffset' = [startOffset EXCEPT ![h] = 0]

\* Mutant: EOF is taken for a transient condition and the read retried;
\* only ErrUnexpectedEOF ends the copy.
WriteChunkRetryEOF(h) ==
  /\ pc[h] = "write"
  /\ written' = [written EXCEPT ![h] = @ \o SubSeq(bufData[buf[h]], 1, n[h])]
  /\ \/ rerr[h] = "ErrUnexpectedEOF" /\ Return(h, "ok")
     \/ rerr[h] = "errIO" /\ Return(h, "err")
     \/ /\ rerr[h] \in {"nil", "EOF"}
        /\ startOffset' = [startOffset EXCEPT ![h] = @ + n[h]]
        /\ pc' = [pc EXCEPT ![h] = "read"]
        /\ UNCHANGED <<pool, buf, result, n, rerr>>
  /\ UNCHANGED <<bufData, fileLen, calls>>

\* Mutant: the whole buffer is written, writer.Write(buf) for buf[:n].
WriteChunkWholeBuf(h) ==
  /\ pc[h] = "write"
  /\ written' = [written EXCEPT ![h] = @ \o bufData[buf[h]]]
  /\ \/ rerr[h] \in {"EOF", "ErrUnexpectedEOF"} /\ Return(h, "ok")
     \/ rerr[h] = "errIO" /\ Return(h, "err")
     \/ /\ rerr[h] = "nil"
        /\ startOffset' = [startOffset EXCEPT ![h] = @ + n[h]]
        /\ pc' = [pc EXCEPT ![h] = "read"]
        /\ UNCHANGED <<pool, buf, result, n, rerr>>
  /\ UNCHANGED <<bufData, fileLen, calls>>

WriteChunk(h) ==
  /\ pc[h] = "write"
  /\ written' = [written EXCEPT ![h] = @ \o SubSeq(bufData[buf[h]], 1, n[h])]
  /\ \/ rerr[h] \in {"EOF", "ErrUnexpectedEOF"} /\ Return(h, "ok")
     \/ rerr[h] = "errIO" /\ Return(h, "err")
     \/ /\ rerr[h] = "nil"
        /\ startOffset' = [startOffset EXCEPT ![h] = @ + n[h]]
        /\ pc' = [pc EXCEPT ![h] = "read"]
        /\ UNCHANGED <<pool, buf, result, n, rerr>>
  /\ UNCHANGED <<bufData, fileLen, calls>>

\* The garbage collector may drop any pooled buffer; its memory is then
\* unreachable, so its contents are forgotten.
PoolDrop ==
  /\ \E b \in pool : pool' = pool \ {b} /\ bufData' = [bufData EXCEPT ![b] = ZeroBuf]
  /\ UNCHANGED <<pc, buf, fileLen, startOffset, n, rerr, written,
                 result, calls>>

\* Every goroutine has made its calls: the model stops.
Finished == \A h \in Hashers : pc[h] = "idle" /\ calls[h] = MaxCalls

Next ==
  \/ \E h \in Hashers : HashSumStart(h) \/ ReadFile(h) \/ WriteChunk(h)
  \/ PoolDrop
  \/ Finished /\ UNCHANGED vars

\* A goroutine inside hashSum keeps running: ReadFile returns and the
\* loop goes on (the model has no cancellation; the disk answers).
Fairness == \A h \in Hashers : WF_vars(ReadFile(h)) /\ WF_vars(WriteChunk(h))

Spec == Init /\ [][Next]_vars /\ Fairness

-----------------------------------------------------------------------------
TypeOK ==
  /\ pool \subseteq BufIds
  /\ bufData \in [BufIds -> [1..BufSize -> Bytes]]
  /\ \A h \in Hashers : written[h] \in Seq(Bytes) /\ Len(written[h]) <= MaxFileLen
  /\ pc \in [Hashers -> {"idle", "read", "write"}]
  /\ buf \in [Hashers -> BufIds \cup {NoBuf}]
  /\ fileLen \in [Hashers -> 0..MaxFileLen]
  /\ startOffset \in [Hashers -> 0..MaxFileLen]
  /\ n \in [Hashers -> 0..BufSize]
  /\ rerr \in [Hashers -> ReadErrors]
  /\ result \in [Hashers -> {"none", "ok", "err"}]
  /\ calls \in [Hashers -> 0..MaxCalls]

(* A staging buffer belongs to at most one running hashSum and is not in   *)
(* the pool while it is in use: concurrent hashSum calls never share one.  *)
BufferExclusive ==
  \A h \in Hashers : pc[h] # "idle" =>
    /\ buf[h] \notin pool
    /\ \A g \in Hashers \ {h} : buf[g] # buf[h]

HashSumReturns ==
  \A h \in Hashers : pc[h] # "idle" ~> pc[h] = "idle"
=============================================================================
