------------------------------ MODULE MC_ServerBoot ------------------------------
(* Two connections, one bucket name, every kind of command line.          *)
EXTENDS ServerBoot

CONSTANTS c1, c2, b1
=============================================================================
