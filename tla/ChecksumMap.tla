------------------------------ MODULE ChecksumMap ------------------------------
(***************************************************************************)
(* What the checksum list of an erasureInfo promises (spec 3 and 4.4): a   *)
(* map from part name to its checksum entry.  Upsert replaces the entry of *)
(* a name or adds one; a lookup of an unknown name yields a default.      *)
(* lastAdded is the entry handed to the last upsert, so that an upsert    *)
(* that loses its entry is a visible step and not a stutter.              *)
(***************************************************************************)
CONSTANTS Entries, NoEntry

VARIABLES sums, lastAdded

Upsert(ck) ==
  /\ sums' = [nm \in DOMAIN sums \cup {ck.Name} |->
                IF nm = ck.Name THEN ck ELSE sums[nm]]
  /\ lastAdded' = ck

Lookup(nm, default) == IF nm \in DOMAIN sums THEN sums[nm] ELSE default

Init == sums = [nm \in {} |-> NoEntry] /\ lastAdded = NoEntry

Spec == Init /\ [][\E ck \in Entries : Upsert(ck)]_<<sums, lastAdded>>
=============================================================================
