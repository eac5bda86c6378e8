---------------------------- MODULE ErasureChecksums ----------------------------
(***************************************************************************)
(* The checksum list of erasureInfo (cmd/xl-v1-metadata.go): a slice of   *)
(* checkSumInfo records with AddCheckSumInfo (replace by name, else       *)
(* append) and GetCheckSumInfo (first entry of the name, else a stub with *)
(* the caller's process default algorithm and an empty hash).             *)
(*                                                                         *)
(* The module is used on its own (any sequence of upserts) and by          *)
(* BitRotVerify, which supplies the entries its writers compute.          *)
(***************************************************************************)
EXTENDS Integers, Sequences

CONSTANTS
  Parts,      \* part names
  HashAlgos,  \* algorithm names an entry may carry
  Hashes,     \* digests an entry may carry
  NoEntry     \* nothing upserted yet

\* HashBlake2b and HashSha256.
HashBlake2b == "blake2b"
HashSha256 == "sha256"

\* An empty Hash (""): the stub of an unknown part.  Digests are modelled
\* as tuples, so the empty digest is the empty tuple.
EmptyHash == <<>>

\* checkSumInfo{Name, Algorithm, Hash}.
CheckSumInfo == [Name : Parts, Algorithm : HashAlgos, Hash : Hashes]

VARIABLES
  checksum,   \* erasureInfo.Checksum
  lastAdded   \* the entry of the last AddCheckSumInfo (history)

csVars == <<checksum, lastAdded>>

\* Mutant: the entry is always appended, never replaced.
AddCheckSumInfoAppend(ck) ==
  /\ checksum' = Append(checksum, ck)
  /\ lastAdded' = ck

\* Mutant: an entry is replaced only when name and algorithm both match.
AddCheckSumInfoByAlgo(ck) ==
  /\ checksum' =
       IF \E i \in DOMAIN checksum : checksum[i].Name = ck.Name /\ checksum[i].Algorithm = ck.Algorithm
       THEN LET i == CHOOSE i \in DOMAIN checksum : checksum[i].Name = ck.Name /\ checksum[i].Algorithm = ck.Algorithm
            IN [checksum EXCEPT ![i] = ck]
       ELSE Append(checksum, ck)
  /\ lastAdded' = ck

\* AddCheckSumInfo: overwrite the entry with the same Name, else append.
AddCheckSumInfo(ck) ==
  /\ checksum' =
       IF \E i \in DOMAIN checksum : checksum[i].Name = ck.Name
       THEN LET i == CHOOSE i \in DOMAIN checksum : checksum[i].Name = ck.Name
            IN [checksum EXCEPT ![i] = ck]
       ELSE Append(checksum, ck)
  /\ lastAdded' = ck

\* GetCheckSumInfo: the first entry named partName, else a stub carrying
\* the default algorithm of the calling process and an empty hash.
GetCheckSumInfo(partName, bitRotAlgo) ==
  LET found == {i \in DOMAIN checksum : checksum[i].Name = partName}
      first == CHOOSE i \in found : \A j \in found : i <= j
  IN IF found = {} THEN [Name |-> "", Algorithm |-> bitRotAlgo, Hash |-> EmptyHash]
     ELSE checksum[first]

InitChecksums == checksum = <<>> /\ lastAdded = NoEntry

-----------------------------------------------------------------------------
(* The refinement mapping: the map a reader sees through GetCheckSumInfo. *)
ChecksumOf ==
  [nm \in {checksum[i].Name : i \in DOMAIN checksum} |-> GetCheckSumInfo(nm, HashBlake2b)]

Abstract == INSTANCE ChecksumMap WITH sums <- ChecksumOf, Entries <- CheckSumInfo

(* The checksum list implements the name-to-checksum map of the spec:     *)
(* every AddCheckSumInfo is an upsert of the map as GetCheckSumInfo sees  *)
(* it, so a lookup always returns the last entry added under that name.   *)
ChecksumsRefineMap == Abstract!Spec

(* At most one entry per part name (spec 3, invariant a).                 *)
ChecksumNamesUnique ==
  \A i, j \in DOMAIN checksum : checksum[i].Name = checksum[j].Name => i = j
=============================================================================
