----------------------------- MODULE MC_BitRotVerify -----------------------------
(* An x86-64 node and an ARM64 node share a disk with two parts; shard    *)
(* contents are two values, so a rot can also restore an old content.     *)
EXTENDS BitRotVerify, TLC

CONSTANTS n1, n2, p1, p2, c1, c2

MCArch == (n1 :> "amd64") @@ (n2 :> "arm64")
MCHashes == {Digest(h, c) : h \in HashAlgos, c \in {c1, c2}} \cup {EmptyHash}
=============================================================================
