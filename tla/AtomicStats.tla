------------------------------ MODULE AtomicStats ------------------------------
(***************************************************************************)
(* What HTTPStats promises a reader of its request counters: each request *)
(* handed to updateStats is counted in one indivisible step, in the total *)
(* counter of its method and, when its status is 2xx ("A successful       *)
(* request has a 2xx response code"), in the success counter; a method    *)
(* with no statistics counts nowhere.  Durations are not part of this     *)
(* specification.                                                          *)
(***************************************************************************)
EXTENDS Naturals, Sequences

CONSTANTS Methods, StatusCodes, Durations, MaxRequests

StatMethods == {"HEAD", "GET", "PUT", "POST", "DELETE"}
Kinds == {"total", "success"}

VARIABLES
  counter,   \* counter[k][m]: the requests of method m counted in kind k
  served,    \* served[m]: the requests of method m handed to updateStats
  requests   \* number of requests served

Init ==
  /\ counter = [k \in Kinds |-> [m \in StatMethods |-> 0]]
  /\ served = [m \in Methods |-> << >>]
  /\ requests = 0

\* Whether a request of method m with status code is counted in kind k.
Counts(k, m, code) ==
  /\ m \in StatMethods
  /\ k = "total" \/ (code >= 200 /\ code < 300)

\* A finished request is counted at once.
Count(m, code, d) ==
  /\ counter' = [k \in Kinds |-> [x \in StatMethods |->
                   counter[k][x] + (IF x = m /\ Counts(k, m, code) THEN 1 ELSE 0)]]
  /\ served' = [served EXCEPT ![m] = Append(@, [code |-> code, secs |-> d])]
  /\ requests' = requests + 1

Next ==
  /\ requests < MaxRequests
  /\ \E m \in Methods, code \in StatusCodes, d \in Durations : Count(m, code, d)

Spec == Init /\ [][Next]_<<counter, served, requests>>
=============================================================================
