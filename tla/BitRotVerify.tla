------------------------------ MODULE BitRotVerify ------------------------------
(***************************************************************************)
(* Bit-rot protection of the shards of one disk.  Nodes of a distributed  *)
(* setup run on different architectures, so their process default        *)
(* bitRotAlgo differs (getDefaultBitRotAlgo: sha256 on arm64, blake2b     *)
(* elsewhere).  A node writing a part hashes the shard with newHash of    *)
(* its bitRotAlgo and upserts the checkSumInfo into the xl.json checksum  *)
(* list; a node reading a part looks the entry up with GetCheckSumInfo,   *)
(* hashes the shard with newHash of the recorded algorithm and compares.  *)
(* The disk may rot a shard at any time.                                  *)
(*                                                                         *)
(* The write and read paths around these calls (erasureCreateFile,        *)
(* bitRotVerifier's use) are not in this source: the Write and Verify     *)
(* actions model them from spec 4.2 and 7.  Hashing the shard is          *)
(* Digest(algorithm, contents): HashSum shows hashSum feeds the hash      *)
(* exactly the blob, and the two algorithms are taken collision-free.     *)
(***************************************************************************)
EXTENDS ErasureChecksums

CONSTANTS
  Nodes,      \* servers sharing the disk
  Arch,       \* Arch[n]: runtime.GOARCH of node n
  Contents,   \* shard contents a part may have
  NoData,     \* a part never written
  MaxWrites,  \* bound on part writes
  MaxRots,    \* bound on bit-rot events
  ForeignAlgos \* algorithms of records written by another server release

ASSUME NoData \notin Contents

VARIABLES
  disk,      \* disk[p]: the shard bytes stored for part p
  good,      \* good[p]: the bytes last written for part p (history)
  verdict,   \* verdict[n]: the last verification by node n (history)
  writes, rots

vars == <<checksum, lastAdded, disk, good, verdict, writes, rots>>

\* Mutant: the switch without its default branch yields the zero HashAlgo.
getDefaultBitRotAlgoNoDefault(arch) == IF arch = "arm64" THEN HashSha256 ELSE ""

\* getDefaultBitRotAlgo, evaluated once per process.
getDefaultBitRotAlgo(arch) == IF arch = "arm64" THEN HashSha256 ELSE HashBlake2b

bitRotAlgo(n) == getDefaultBitRotAlgo(Arch[n])

\* newHash: sha256 when asked for it, blake2b for blake2b and any other name.
newHash(algo) == IF algo = HashSha256 THEN HashSha256 ELSE HashBlake2b

\* The digest of a shard computed with hash function h.
Digest(h, data) == <<h, data>>

NoVerdict == [part |-> NoData, outcome |-> "none", intact |-> TRUE]

Init ==
  /\ InitChecksums
  /\ disk = [p \in Parts |-> NoData]
  /\ good = [p \in Parts |-> NoData]
  /\ verdict = [n \in Nodes |-> NoVerdict]
  /\ writes = 0 /\ rots = 0

\* The entry recorded for content c of part p: computed by node n with
\* newHashWriters(.., bitRotAlgo), or by a server of another release
\* with an algorithm this release does not know (spec 6: records of other
\* releases stay readable).
WrittenEntries(n, p, c) ==
  {[Name |-> p, Algorithm |-> bitRotAlgo(n), Hash |-> Digest(newHash(bitRotAlgo(n)), c)]}
  \cup {[Name |-> p, Algorithm |-> a, Hash |-> Digest(a, c)] : a \in ForeignAlgos}

\* Part p is written: the shard goes to the disk and the checksum into
\* xl.json; the record is written after the shard (spec 3, invariant c).
Write(n, p, c) ==
  /\ writes < MaxWrites
  /\ disk' = [disk EXCEPT ![p] = c]
  /\ good' = [good EXCEPT ![p] = c]
  /\ \E ck \in WrittenEntries(n, p, c) : AddCheckSumInfo(ck)
  /\ writes' = writes + 1
  /\ UNCHANGED <<verdict, rots>>

\* The disk silently changes the bytes of a stored shard.
Rot(p, c) ==
  /\ rots < MaxRots /\ disk[p] # NoData /\ c # disk[p]
  /\ disk' = [disk EXCEPT ![p] = c]
  /\ rots' = rots + 1
  /\ UNCHANGED <<checksum, lastAdded, good, verdict, writes>>

\* The outcome of checking shard data against entry ck with hash h: an
\* empty hash means never verified (spec 4.4), otherwise compare.
Outcome(ck, h, data) ==
  IF ck.Hash = EmptyHash THEN "unverified"
  ELSE IF Digest(h, data) = ck.Hash THEN "ok" ELSE "corrupt"

\* Mutant: the reader hashes with its own default algorithm, not the one
\* recorded in the entry.
VerifyOwnAlgo(n, p) ==
  /\ disk[p] # NoData
  /\ LET ck == GetCheckSumInfo(p, bitRotAlgo(n)) IN
       verdict' = [verdict EXCEPT ![n] =
                    [part |-> p, intact |-> disk[p] = good[p],
                     outcome |-> Outcome(ck, newHash(bitRotAlgo(n)), disk[p])]]
  /\ UNCHANGED <<checksum, lastAdded, disk, good, writes, rots>>

\* Node n reads part p and verifies it lazily against the recorded entry,
\* with newHash of the entry's algorithm.  intact records, for the
\* properties only, whether the shard still holds what was written.
Verify(n, p) ==
  /\ disk[p] # NoData
  /\ LET ck == GetCheckSumInfo(p, bitRotAlgo(n)) IN
       verdict' = [verdict EXCEPT ![n] =
                    [part |-> p, intact |-> disk[p] = good[p],
                     outcome |-> Outcome(ck, newHash(ck.Algorithm), disk[p])]]
  /\ UNCHANGED <<checksum, lastAdded, disk, good, writes, rots>>

Next ==
  \/ \E n \in Nodes, p \in Parts, c \in Contents : Write(n, p, c)
  \/ \E p \in Parts, c \in Contents : Rot(p, c)
  \/ \E n \in Nodes, p \in Parts : Verify(n, p)

Spec == Init /\ [][Next]_vars

-----------------------------------------------------------------------------
TypeOK ==
  /\ checksum \in Seq(CheckSumInfo)
  /\ disk \in [Parts -> Contents \cup {NoData}]
  /\ good \in [Parts -> Contents \cup {NoData}]
  /\ writes \in 0..MaxWrites /\ rots \in 0..MaxRots
  /\ verdict \in [Nodes -> [part : Parts \cup {NoData},
                             outcome : {"none", "ok", "corrupt", "unverified"},
                             intact : BOOLEAN]]

(* Verification is sound and complete across architectures: a shard that  *)
(* verifies holds the bytes last written, and a shard reported corrupt    *)
(* does not, whichever node wrote it and whichever node reads it.         *)
VerdictMatchesShard ==
  \A n \in Nodes :
    /\ verdict[n].outcome = "ok" => verdict[n].intact
    /\ verdict[n].outcome = "corrupt" => ~verdict[n].intact
=============================================================================
