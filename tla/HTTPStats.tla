------------------------------- MODULE HTTPStats -------------------------------
(***************************************************************************)
(* HTTPStats.updateStats (cmd/http-stats.go): every finished request adds *)
(* to the total statistics of its method and, when the status is 2xx, to  *)
(* the success statistics.  Each Counter.Inc and Duration.Add is a        *)
(* separate atomic operation, so requests served by concurrent goroutines *)
(* interleave them one at a time, and a reader may load the counters      *)
(* between any two of them.                                               *)
(*                                                                         *)
(* A call of updateStats is modelled as the sequence of atomic updates it *)
(* performs (UpdateOps); a request's goroutine applies them in order, one *)
(* per step (Apply).  Durations are whole seconds from a small set.       *)
(***************************************************************************)
EXTENDS Naturals, Sequences, SequencesExt, Functions

CONSTANTS
  Procs,        \* goroutines serving requests
  Methods,      \* request methods, including one updateStats ignores
  StatusCodes,  \* response status codes
  Durations,    \* request durations in seconds
  MaxRequests   \* bound on requests served

\* The methods with statistics in HTTPStats.
StatMethods == {"HEAD", "GET", "PUT", "POST", "DELETE"}
Kinds == {"total", "success"}

\* HTTPMethodStats{Counter, Duration}.
ZeroStats == [Counter |-> 0, Duration |-> 0]

VARIABLES
  stats,    \* stats[k][m]: the HTTPMethodStats totalXs / successXs
  ops,      \* ops[p]: the atomic updates p's updateStats has still to do
  served,   \* served[m]: the requests of method m handed to updateStats (history)
  requests  \* number of requests served

vars == <<stats, ops, served, requests>>

\* One atomic operation on st.<kind><method>.<field>.
Upd(k, m, f, x) == [kind |-> k, method |-> m, field |-> f, amount |-> x]

\* Mutant: a 300 response counted as a success.
successReqUpTo300(code) == code >= 200 /\ code <= 300

\* successReq: a 2xx response code.
successReq(code) == code >= 200 /\ code < 300

\* The stats the success branch adds the duration to: successXs, except
\* for PUT and POST, whose branches add it to totalPUTs / totalPOSTs.
SuccessDurationKind(m) == IF m \in {"PUT", "POST"} THEN "total" ELSE "success"

\* Mutant: the success statistics updated before the totals.
UpdateOpsSuccessFirst(m, code, d) ==
  IF m \notin StatMethods THEN <<>>
  ELSE (IF successReq(code)
        THEN << Upd("success", m, "Counter", 1),
                Upd(SuccessDurationKind(m), m, "Duration", d) >>
        ELSE << >>)
       \o << Upd("total", m, "Counter", 1), Upd("total", m, "Duration", d) >>

\* updateStats(r, w, durationSecs) as its sequence of atomic updates: the
\* case of r.Method, or nothing for a method with no case.
UpdateOps(m, code, d) ==
  IF m \notin StatMethods THEN <<>>
  ELSE << Upd("total", m, "Counter", 1), Upd("total", m, "Duration", d) >>
       \o (IF successReq(code)
           THEN << Upd("success", m, "Counter", 1),
                   Upd(SuccessDurationKind(m), m, "Duration", d) >>
           ELSE << >>)

Init ==
  /\ stats = [k \in Kinds |-> [m \in StatMethods |-> ZeroStats]]
  /\ ops = [p \in Procs |-> << >>]
  /\ served = [m \in Methods |-> << >>]
  /\ requests = 0

\* Goroutine p finishes serving a request and calls updateStats.
Serve(p) ==
  /\ ops[p] = << >> /\ requests < MaxRequests
  /\ \E m \in Methods, code \in StatusCodes, d \in Durations :
       /\ ops' = [ops EXCEPT ![p] = UpdateOps(m, code, d)]
       /\ served' = [served EXCEPT ![m] = Append(@, [code |-> code, secs |-> d])]
  /\ requests' = requests + 1
  /\ UNCHANGED stats

\* Mutant: the update is applied but not consumed.
ApplyNoAdvance(p) ==
  /\ ops[p] # << >>
  /\ LET u == Head(ops[p]) IN
       stats' = [stats EXCEPT ![u.kind][u.method][u.field] = @ + u.amount]
  /\ UNCHANGED <<ops, served, requests>>

\* Goroutine p performs the next atomic Inc / Add of its updateStats.
Apply(p) ==
  /\ ops[p] # << >>
  /\ LET u == Head(ops[p]) IN
       stats' = [stats EXCEPT ![u.kind][u.method][u.field] = @ + u.amount]
  /\ ops' = [ops EXCEPT ![p] = Tail(@)]
  /\ UNCHANGED <<served, requests>>

\* All requests served and accounted.
Done == requests = MaxRequests /\ \A p \in Procs : ops[p] = << >>

Next ==
  \/ \E p \in Procs : Serve(p) \/ Apply(p)
  \/ Done /\ UNCHANGED vars

Spec == Init /\ [][Next]_vars
-----------------------------------------------------------------------------
\* No goroutine is inside updateStats.
Quiescent == \A p \in Procs : ops[p] = << >>

\* The requests of method m with a 2xx status, and the seconds of a list.
Successful(m) == SelectSeq(served[m], LAMBDA q : q.code >= 200 /\ q.code < 300)
Secs(qs) == FoldSeq(LAMBDA q, acc : q.secs + acc, 0, qs)

TypeOK ==
  /\ \A k \in Kinds, m \in StatMethods :
       stats[k][m].Counter \in 0..MaxRequests /\ stats[k][m].Duration \in Nat
  /\ \A p \in Procs : Len(ops[p]) <= 4
  /\ requests \in 0..MaxRequests

(* A reader loading the counters at any moment, between any two atomic    *)
(* updates of concurrent updateStats calls, never sees more successful    *)
(* requests of a method than requests of it: totalXs.Counter is           *)
(* incremented before successXs.Counter.                                  *)
SuccessNeverExceedsTotal ==
  \A m \in StatMethods : stats["success"][m].Counter <= stats["total"][m].Counter

\* The Counter increments goroutines have still to perform, of kind k and
\* method m.
Pending(k, m) ==
  LET n(p) == Len(SelectSeq(ops[p], LAMBDA u : u.kind = k /\ u.method = m /\ u.field = "Counter"))
  IN FoldFunctionOnSet(LAMBDA x, acc : x + acc, 0, [p \in Procs |-> n(p)], Procs)

\* A request in flight counts as counted: the counters plus the increments
\* its goroutine has still to do.
Atomic == INSTANCE AtomicStats
  WITH counter <- [k \in Kinds |-> [m \in StatMethods |-> stats[k][m].Counter + Pending(k, m)]]

(* The counters, read as if every updateStats call in flight had finished, *)
(* behave as if each request were counted in one atomic step: the         *)
(* separate Counter.Inc operations of concurrent goroutines never lose,    *)
(* double or misfile a request, and a counter changes only by a step of a  *)
(* call for its method.  Hence once no call is in flight every counter is  *)
(* exact.                                                                  *)
CountersRefineAtomic == Atomic!Spec

(* The durations are accounted like the counters: once no call is in      *)
(* flight, totalXs.Duration is the seconds of all requests of the method  *)
(* and successXs.Duration those of its successful ones.                   *)
QuiescentDurationsExact ==
  Quiescent =>
    \A m \in StatMethods \cap Methods :
      /\ stats["total"][m].Duration = Secs(served[m])
      /\ stats["success"][m].Duration = Secs(Successful(m))
=============================================================================
