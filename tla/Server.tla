------------------------------- MODULE Server -------------------------------
(***************************************************************************)
(* The server as one process: the start-up of serverMain with the bucket  *)
(* handlers (module ServerBoot) composed with the object handlers         *)
(* (module ObjectHandlers).  The two share the listener and the object    *)
(* layer: object requests arrive once ListenAndServe accepts connections, *)
(* and every handler reads globalObjectAPI through newObjectLayerFn       *)
(* (cmd/routers.go), which is whatever InitObjectLayer has published so   *)
(* far.  Each step is a step of one component; the other's variables are  *)
(* unchanged.                                                              *)
(***************************************************************************)
EXTENDS Naturals, Sequences, FiniteSets

CONSTANTS
  Clients, Buckets, ArgKinds, MaxRequests,    \* see ServerBoot
  Getters, Method, Versions, PutInputs, MaxPuts  \* see ObjectHandlers

VARIABLES
  args, phase, endpoints, isXL, isDistXL, listener, globalObjectAPI, printed,
  buckets, req, requests,
  store, puts, gpc, objInfo, rng, src, getErr, dataWritten, resp

bootVars == <<args, phase, endpoints, isXL, isDistXL, listener, globalObjectAPI, printed,
              buckets, req, requests>>
objVars == <<store, puts, gpc, objInfo, rng, src, getErr, dataWritten, resp>>
vars == <<bootVars, objVars>>

Boot == INSTANCE ServerBoot WITH layer <- globalObjectAPI

\* newObjectLayerFn: the layer the object handlers see.  Until serverMain
\* has published the result of newObjectLayer it is not set.
ObjectAPI == CASE globalObjectAPI = "fs" -> "ready"
               [] phase = "serving"   -> "nil"
               [] OTHER               -> "unset"

Obj == INSTANCE ObjectHandlers WITH layer <- ObjectAPI

Init == Boot!Init /\ Obj!Init

\* A step of serverMain, the listener or a bucket request.
BootStep == Boot!Next /\ UNCHANGED objVars

\* A step of an object request; requests reach the handlers only through
\* the listener.
ObjectStep == listener = "listening" /\ UNCHANGED bootVars /\ Obj!Next

Next == BootStep \/ ObjectStep

Spec == Init /\ [][Next]_vars

-----------------------------------------------------------------------------
TypeOK == Boot!TypeOK /\ Obj!TypeOK

(* ObjectHandlers!CompleteResponses: every finished GET and HEAD sent a  *)
(* status and exactly the body that status promises, while PUTs replace  *)
(* the object and the start-up publishes the object layer.               *)
CompleteResponses == Obj!CompleteResponses

(* ObjectHandlers!BodyMatchesETag: a successful GET returns bytes of the *)
(* version whose ETag its headers carry, with PUTs replacing the object   *)
(* between GetObjectInfo and GetObject.                                   *)
BodyMatchesETag == Obj!BodyMatchesETag

=============================================================================
