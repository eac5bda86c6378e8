------------------------------- MODULE MC_Net -----------------------------------
(* Four host addresses: the loopback and another address share last     *)
(* octet 1, the other two share octet 5.                                  *)
EXTENDS Net, TLC

MCAddrs == {"127.0.0.1", "10.0.0.1", "10.0.0.5", "192.168.1.5"}
MCLastOctet == [a \in MCAddrs |->
                 IF a \in {"127.0.0.1", "10.0.0.1"} THEN 1 ELSE 5]

\* Hosts named on a command line: the loopback name, a remote name, a name
\* that resolves to this host and another, one that does not resolve.
MCResolve == ("localhost" :> {"127.0.0.1"}) @@ ("example.org" :> {"192.0.2.7"})
             @@ ("multi" :> {"10.0.0.5", "192.0.2.7"}) @@ ("nosuch" :> NoHost)
=============================================================================
