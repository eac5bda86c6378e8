------------------------------- MODULE ServerBoot -------------------------------
(***************************************************************************)
(* Server start-up (serverMain, serverHandleCmdArgs, newObjectLayer in     *)
(* cmd/server-main.go, the globals of cmd/globals.go) racing the bucket   *)
(* handlers (cmd/bucket-handlers.go) served by the listener it starts.    *)
(*                                                                         *)
(* serverMain reads the command line, sets the setup globals, starts the  *)
(* HTTP listener in a goroutine, then builds the object layer and         *)
(* publishes it in globalObjectAPI.  Every error on the way is only       *)
(* printed.  Each request runs in its own goroutine and reads the object  *)
(* layer through newObjectLayerFn.  CreateEndpoints and the FS object     *)
(* layer are not in this source: CreateEndpoints maps the arguments to a  *)
(* setup (spec 2), MakeBucket and ListBuckets are atomic and may fail     *)
(* with an I/O error.                                                     *)
(***************************************************************************)
EXTENDS Naturals, FiniteSets

CONSTANTS
  Clients,      \* connections sending requests
  Buckets,      \* bucket names
  ArgKinds,     \* command lines serverMain may be started with
  MaxRequests   \* bound on requests

Ops == {"ListBuckets", "PutBucket"}

\* CreateEndpoints: the endpoints and setup type of a command line.
CreateEndpoints(a) ==
  CASE a = "fsPath"   -> [n |-> 1, setup |-> "FS",      err |-> FALSE]
    [] a = "xlPaths"  -> [n |-> 4, setup |-> "XL",      err |-> FALSE]
    [] a = "distURLs" -> [n |-> 4, setup |-> "DistXL",  err |-> FALSE]
    [] OTHER          -> [n |-> 0, setup |-> "Unknown", err |-> TRUE]

NoResp == [status |-> "none", listed |-> FALSE, listing |-> {}]

VARIABLES
  args,         \* the command line
  phase,        \* serverMain: "start", "cmdargs", "listen", "initLayer", "serving", "exited"
  endpoints,    \* len(globalEndpoints)
  isXL, isDistXL, \* globalIsXL, globalIsDistXL
  listener,     \* "none", "started" (goroutine created), "listening"
  layer,        \* globalObjectAPI: "nil" or "fs"
  printed,      \* errors serverMain printed (history)
  buckets,      \* buckets of the object layer
  req,          \* req[c]: the request connection c is serving
  requests      \* number of requests received

vars == <<args, phase, endpoints, isXL, isDistXL, listener, layer, printed,
          buckets, req, requests>>
bootVars == <<args, phase, endpoints, isXL, isDistXL, listener, layer, printed>>
reqVars == <<buckets, req, requests>>

Init ==
  /\ args \in ArgKinds
  /\ phase = "start"
  /\ endpoints = 0 /\ isXL = FALSE /\ isDistXL = FALSE
  /\ listener = "none" /\ layer = "nil" /\ printed = {}
  /\ buckets = {}
  /\ req = [c \in Clients |-> [state |-> "idle", op |-> "none", bucket |-> "none", resp |-> NoResp]]
  /\ requests = 0

Goto(p) == phase' = p

\* serverMain: no arguments or "help" shows the help and exits.
Start ==
  /\ phase = "start"
  /\ Goto(IF args \in {"none", "help"} THEN "exited" ELSE "cmdargs")
  /\ UNCHANGED <<args, endpoints, isXL, isDistXL, listener, layer, printed>>
  /\ UNCHANGED reqVars

\* Mutant: the distributed setup does not set globalIsXL.
HandleCmdArgsNoDistXL ==
  /\ phase = "cmdargs"
  /\ LET ce == CreateEndpoints(args) IN
       /\ endpoints' = ce.n
       /\ isDistXL' = (ce.setup = "DistXL")
       /\ isXL' = (ce.setup = "XL")
       /\ printed' = IF ce.err THEN printed \cup {"args"} ELSE printed
  /\ Goto("listen")
  /\ UNCHANGED <<args, listener, layer>> /\ UNCHANGED reqVars

\* serverHandleCmdArgs (and the empty serverHandleEnvVars, initConfig):
\* CreateEndpoints, its error printed only; the setup globals.
HandleCmdArgs ==
  /\ phase = "cmdargs"
  /\ LET ce == CreateEndpoints(args) IN
       /\ endpoints' = ce.n
       /\ isDistXL' = (ce.setup = "DistXL")
       /\ isXL' = (ce.setup \in {"XL", "DistXL"})
       /\ printed' = IF ce.err THEN printed \cup {"args"} ELSE printed
  /\ Goto("listen")
  /\ UNCHANGED <<args, listener, layer>> /\ UNCHANGED reqVars

\* configureServerHandler (never fails here), then go ListenAndServe.
StartListener ==
  /\ phase = "listen"
  /\ listener' = "started"
  /\ Goto("initLayer")
  /\ UNCHANGED <<args, endpoints, isXL, isDistXL, layer, printed>> /\ UNCHANGED reqVars

\* The listener goroutine starts accepting connections.
ListenAndServe ==
  /\ listener = "started"
  /\ listener' = "listening"
  /\ UNCHANGED <<args, phase, endpoints, isXL, isDistXL, layer, printed>> /\ UNCHANGED reqVars

\* newObjectLayer(globalEndpoints): one endpoint is an FS layer, which may
\* fail (printed); any other count returns (nil, nil).  The result is
\* published under globalObjLayerMutex; serverMain then waits forever.
InitObjectLayer ==
  /\ phase = "initLayer"
  /\ \/ endpoints = 1 /\ layer' = "fs" /\ UNCHANGED printed
     \/ endpoints = 1 /\ layer' = "nil" /\ printed' = printed \cup {"layer"}
     \/ endpoints # 1 /\ layer' = "nil" /\ UNCHANGED printed
  /\ Goto("serving")
  /\ UNCHANGED <<args, endpoints, isXL, isDistXL, listener>> /\ UNCHANGED reqVars

\* Connection c sends a request once the listener accepts connections.
Receive(c) ==
  /\ listener = "listening" /\ req[c].state = "idle" /\ requests < MaxRequests
  /\ \E op \in Ops, b \in Buckets :
       req' = [req EXCEPT ![c] = [state |-> "sent", op |-> op,
                                  bucket |-> IF op = "PutBucket" THEN b ELSE "none",
                                  resp |-> NoResp]]
  /\ requests' = requests + 1
  /\ UNCHANGED buckets /\ UNCHANGED bootVars

Respond(c, r) == req' = [req EXCEPT ![c].state = "done", ![c].resp = r]

\* ListBucketsHandler: calls ListBuckets on whatever newObjectLayerFn
\* returned; a nil layer panics the handler goroutine (net/http closes the
\* connection, no response); on an error it returns without writing, so
\* net/http sends an empty 200.
ListBucketsHandler(c) ==
  /\ req[c].state = "sent" /\ req[c].op = "ListBuckets"
  /\ \/ layer = "nil" /\ Respond(c, [NoResp EXCEPT !.status = "reset"])
     \/ layer = "fs" /\ Respond(c, [NoResp EXCEPT !.status = "200"])
     \/ layer = "fs" /\ Respond(c, [status |-> "200", listed |-> TRUE, listing |-> buckets])
  /\ UNCHANGED <<buckets, requests>> /\ UNCHANGED bootVars

\* PutBucketHandler: ServerNotInitialized on a nil layer; otherwise
\* MakeBucket, whose error (the bucket exists, or I/O) is the response.
PutBucketHandler(c) ==
  /\ req[c].state = "sent" /\ req[c].op = "PutBucket"
  /\ LET b == req[c].bucket IN
     \/ layer = "nil" /\ Respond(c, [NoResp EXCEPT !.status = "ServerNotInitialized"])
        /\ UNCHANGED buckets
     \/ layer = "fs" /\ b \in buckets
        /\ Respond(c, [NoResp EXCEPT !.status = "BucketAlreadyOwnedByYou"])
        /\ UNCHANGED buckets
     \/ layer = "fs" /\ Respond(c, [NoResp EXCEPT !.status = "InternalError"])
        /\ UNCHANGED buckets
     \/ layer = "fs" /\ b \notin buckets
        /\ buckets' = buckets \cup {b}
        /\ Respond(c, [NoResp EXCEPT !.status = "200"])
  /\ UNCHANGED requests /\ UNCHANGED bootVars

\* The client reads the response and the connection becomes free.
Complete(c) ==
  /\ req[c].state = "done"
  /\ req' = [req EXCEPT ![c].state = "idle"]
  /\ UNCHANGED <<buckets, requests>> /\ UNCHANGED bootVars

\* serverMain has exited, or waits on globalServiceDoneCh for ever.
Quiet ==
  /\ phase \in {"exited", "serving"}
  /\ listener # "started"
  /\ UNCHANGED vars

Server == Start \/ HandleCmdArgs \/ StartListener \/ ListenAndServe \/ InitObjectLayer

Next ==
  \/ Server
  \/ \E c \in Clients : \/ Receive(c) \/ ListBucketsHandler(c) \/ PutBucketHandler(c)
                       \/ Complete(c)
  \/ Quiet

Spec == Init /\ [][Next]_vars

-----------------------------------------------------------------------------
TypeOK ==
  /\ phase \in {"start", "cmdargs", "listen", "initLayer", "serving", "exited"}
  /\ isDistXL => isXL
  /\ layer \in {"nil", "fs"} /\ printed \subseteq {"args", "layer"}
  /\ buckets \subseteq Buckets /\ requests \in 0..MaxRequests

(* A ListBuckets request is answered with a status that reflects its      *)
(* outcome: never a reset connection, never a 200 without the listing.    *)
ListBucketsAnswered ==
  \A c \in Clients : req[c].state = "done" /\ req[c].op = "ListBuckets" =>
    req[c].resp.status # "reset" /\ (req[c].resp.status = "200" => req[c].resp.listed)
=============================================================================
