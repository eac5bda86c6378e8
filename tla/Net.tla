-------------------------------- MODULE Net ------------------------------------
(***************************************************************************)
(* The address helpers of cmd/net.go.  sortIPs and byLastOctetValue: the *)
(* local IPv4 addresses are ordered for the startup message by descending *)
(* last octet, with 127.0.0.1 moved to the end.  extractHostPort,         *)
(* isLocalHost and sameLocalAddrs: addresses given on the command line   *)
(* are split, resolved and compared with the host's.                      *)
(*                                                                         *)
(* The only caller passes localIP4.ToSlice(): distinct IPv4 addresses in  *)
(* the set's arbitrary order.  sort.Sort is modelled by its contract: any *)
(* permutation in which no element is Less than one before it (sort.Sort  *)
(* is not stable, so equal elements may come in any order).  For these    *)
(* addresses net.ParseIP succeeds and ip.String() gives back the same     *)
(* string, so nonIPs stays empty and the strings are unchanged.           *)
(*                                                                         *)
(* An address string is abstracted to its shape [scheme, host, port]:     *)
(* "scheme://" when scheme # "", then host, then ":port" when port # "". *)
(* net/url.Parse and net.SplitHostPort are modelled by what they return  *)
(* on each shape; DNS (net.LookupIP) by the constant Resolve.  The local  *)
(* IPv4 set localIP4 is the set ipList enumerates.                        *)
(***************************************************************************)
EXTENDS Integers, Sequences, SequencesExt

CONSTANTS
  Addrs,      \* IPv4 addresses of the host, canonical form
  LastOctet,  \* LastOctet[a]: []byte(ip.To4())[3]
  OtherIPs,   \* IPv4 addresses of other hosts
  HostIPs,    \* the IP literals an address may name as its host
  Names,      \* host names
  Resolve,    \* Resolve[n]: the IPv4 addresses name n resolves to, or NoHost
  NoHost,     \* the lookup error
  Ports,      \* port strings
  Schemes     \* URL schemes

Loopback == "127.0.0.1"

ASSUME HostIPs \subseteq Addrs \cup OtherIPs

VARIABLES ipList, result, pc

vars == <<ipList, result, pc>>

\* Mutant: ties broken towards the first argument (>= for >).
LessGeq(a, b) ==
  IF a = Loopback THEN FALSE
  ELSE IF b = Loopback THEN TRUE
  ELSE LastOctet[a] >= LastOctet[b]

\* Mutant: no special case for the loopback address.
LessNoLoopback(a, b) == LastOctet[a] > LastOctet[b]

\* byLastOctetValue.Less.
Less(a, b) ==
  IF a = Loopback THEN FALSE
  ELSE IF b = Loopback THEN TRUE
  ELSE LastOctet[a] > LastOctet[b]

\* The outcomes sort.Sort(byLastOctetValue(s)) may produce.
SortSort(s) ==
  { r \in SetToSeqs(Range(s)) :
      \A i, j \in 1..Len(r) : i < j => ~Less(r[j], r[i]) }

Init ==
  /\ ipList \in SetToAllKPermutations(Addrs)
  /\ result = << >>
  /\ pc = "call"

\* sortIPs(ipList): a single address is returned as is; otherwise the
\* parsed addresses are sorted and appended after the unparsable ones.
sortIPsStep ==
  /\ pc = "call"
  /\ \/ Len(ipList) = 1 /\ result' = ipList
     \/ Len(ipList) # 1
        /\ LET nonIPs == SelectSeq(ipList, LAMBDA a : a \notin Addrs)
               ipV4s == SelectSeq(ipList, LAMBDA a : a \in Addrs)
           IN \E r \in SortSort(ipV4s) : result' = nonIPs \o r
  /\ pc' = "done"
  /\ UNCHANGED ipList

Next == sortIPsStep

Spec == Init /\ [][Next]_vars

-----------------------------------------------------------------------------
(* The address helpers: functions of an address shape and of localIP4.  *)

IPs == Addrs \cup OtherIPs

\* The shapes of the addresses a command line may hold; a scheme comes
\* with a host or a port.
AddrShapes ==
  {a \in [scheme : Schemes \cup {""}, host : {""} \cup HostIPs \cup Names,
          port : Ports \cup {""}] : a.scheme # "" => a.host # "" \/ a.port # ""}

EmptyAddr == [scheme |-> "", host |-> "", port |-> ""]

Fail == [err |-> TRUE, host |-> "", port |-> ""]
Split(h, p) == [err |-> FALSE, host |-> h, port |-> p]

\* url.Parse(hostAddr).  With a scheme, u.Host is "host[:port]".  Without
\* one, a leading ':' is the "missing protocol scheme" error; an IP
\* literal then ":port" is "first path segment in URL cannot contain
\* colon" (getScheme stops at the leading digit, the rest is a relative
\* path); "name:port" parses as scheme "name" with an opaque part, and
\* "name" or "ip" as a path, both with an empty u.Host.
URLParse(a) ==
  [err |-> CASE a.scheme # ""                  -> "none"
             [] a.host = ""                    -> "missingScheme"
             [] a.host \in IPs /\ a.port # ""  -> "colon"
             [] OTHER                          -> "none",
   hostSet |-> a.scheme # ""]

\* Mutant: the default ports of http and https swapped.
extractHostPortSwapped(a) ==
  LET u == URLParse(a)
      scheme == IF u.err = "none" /\ u.hostSet THEN a.scheme ELSE "http"
  IN CASE a = EmptyAddr       -> Fail
       [] u.err = "colon"     -> Fail
       [] a.port # ""         -> Split(a.host, a.port)
       [] scheme = "https"    -> Split(a.host, "80")
       [] scheme = "http"     -> Split(a.host, "443")
       [] OTHER               -> Fail

\* extractHostPort: the empty address is refused; url.Parse's error is
\* returned unless it is the missing scheme; when u.Host is empty the
\* address itself is split, as http.  net.SplitHostPort then splits
\* "host:port", or fails with "missing port in address" and the port is
\* the scheme's default, with no default for another scheme.
extractHostPort(a) ==
  LET u == URLParse(a)
      scheme == IF u.err = "none" /\ u.hostSet THEN a.scheme ELSE "http"
  IN CASE a = EmptyAddr       -> Fail
       [] u.err = "colon"     -> Fail
       [] a.port # ""         -> Split(a.host, a.port)
       [] scheme = "https"    -> Split(a.host, "443")
       [] scheme = "http"     -> Split(a.host, "80")
       [] OTHER               -> Fail

\* getHostIP4: net.LookupIP returns an IP literal itself, a name's
\* addresses or an error.
getHostIP4(h) == IF h \in IPs THEN {h} ELSE Resolve[h]

\* isLocalHost(host): whether the host's addresses meet localIP4.
isLocalHost(h, localIP4) ==
  IF getHostIP4(h) = NoHost THEN [err |-> TRUE, local |-> FALSE]
  ELSE [err |-> FALSE, local |-> getHostIP4(h) \cap localIP4 # {}]

\* sameLocalAddrs: both addresses split, an empty host is local, any
\* other host is looked up; the same machine and the same port string.
sameLocalAddrs(a1, a2, localIP4) ==
  LET e1 == extractHostPort(a1)
      e2 == extractHostPort(a2)
      l1 == IF e1.host = "" THEN [err |-> FALSE, local |-> TRUE] ELSE isLocalHost(e1.host, localIP4)
      l2 == IF e2.host = "" THEN [err |-> FALSE, local |-> TRUE] ELSE isLocalHost(e2.host, localIP4)
  IN IF e1.err \/ e2.err \/ l1.err \/ l2.err THEN [err |-> TRUE, same |-> FALSE]
     ELSE [err |-> FALSE, same |-> l1.local /\ l2.local /\ e1.port = e2.port]

-----------------------------------------------------------------------------
\* The preference the startup message wants: higher last octet first, the
\* loopback address last.
Rank(a) == IF a = Loopback THEN -1 ELSE LastOctet[a]

(* sortIPs returns every address it was given, once, from the highest    *)
(* last octet down, with 127.0.0.1 last, whatever order localIP4 yields. *)
SortedByPreference ==
  pc = "done" =>
    /\ result \in SetToSeqs(Range(ipList))
    /\ IsSorted(result, LAMBDA a, b : Rank(a) >= Rank(b))

(* byLastOctetValue.Less is a strict weak order, as sort.Sort requires:   *)
(* irreflexive, transitive, and with transitive incomparability, on the  *)
(* addresses handed to it.                                               *)
LessIsStrictWeakOrder ==
  \A a, b, c \in Range(ipList) :
    /\ ~Less(a, a)
    /\ Less(a, b) /\ Less(b, c) => Less(a, c)
    /\ (~Less(a, b) /\ ~Less(b, a) /\ ~Less(b, c) /\ ~Less(c, b))
         => ~Less(a, c) /\ ~Less(c, a)
\* What an address designates: this machine or not, and the port the
\* client connects to (explicit, or the scheme's; http when none).
Resolvable(a) == a.host \in {""} \cup IPs \/ Resolve[a.host] # NoHost
Designates(a) ==
  [local |-> a.host = "" \/ getHostIP4(a.host) \cap Range(ipList) # {},
   port  |-> IF a.port # "" THEN a.port ELSE IF a.scheme = "https" THEN "443" ELSE "80"]

(* sameLocalAddrs answers true exactly when both addresses designate this *)
(* machine at the same port, whatever formats they are written in (":p", *)
(* "host:p", "http://host:p/", a host alone with the scheme's port), for  *)
(* every pair extractHostPort splits and DNS resolves.                   *)
SameLocalAddrsAgrees ==
  \A a1, a2 \in AddrShapes :
    ~extractHostPort(a1).err /\ ~extractHostPort(a2).err /\ Resolvable(a1) /\ Resolvable(a2) =>
      (sameLocalAddrs(a1, a2, Range(ipList)).same <=>
         Designates(a1).local /\ Designates(a2).local /\ Designates(a1).port = Designates(a2).port)
=============================================================================
