------------------------------ MODULE MC_HTTPStats ------------------------------
(* Two goroutines serve three requests of GET, PUT or an unhandled method, *)
(* with statuses on both sides of the 2xx boundary.                       *)
EXTENDS HTTPStats

CONSTANTS p1, p2
=============================================================================
