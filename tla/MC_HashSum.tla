------------------------------ MODULE MC_HashSum ------------------------------
(* Two goroutines hashing blobs of up to three bytes through two-byte     *)
(* buffers (a full read, a short tail and a read exactly at the end all   *)
(* occur), two calls each so pooled buffers are reused.                    *)
EXTENDS HashSum

CONSTANTS h1, h2, b1, b2, b3

MCHashers == {h1, h2}
MCBufIds == {b1, b2, b3}
=============================================================================
