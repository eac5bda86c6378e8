------------------------------- MODULE MC_Server -------------------------------
(* One GET racing PUTs of two 2-byte versions and an empty one, a HEAD   *)
(* and a list-parts request, next to two bucket requests, while the      *)
(* server starts with each kind of command line.                         *)
EXTENDS Server, TLC

CONSTANTS c1, c2, b1, g1, g2, g3

MCMethod == (g1 :> "GET") @@ (g2 :> "HEAD") @@ (g3 :> "ListParts")

MCVersions == { [etag |-> "e0", data |-> << >>],
                [etag |-> "e1", data |-> <<"a", "b">>],
                [etag |-> "e2", data |-> <<"c", "d">>] }

\* The race: one GET against two PUTs of same-size versions.
MCRaceMethod == g1 :> "GET"

\* The start-up run: an empty version and one of two bytes.
MCServerVersions == { [etag |-> "e0", data |-> << >>],
                      [etag |-> "e1", data |-> <<"a", "b">>] }
=============================================================================
