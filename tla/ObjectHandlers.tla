----------------------------- MODULE ObjectHandlers -----------------------------
(***************************************************************************)
(* GetObjectHandler and PutObjectHandler (cmd/object-handlers.go) serving *)
(* one object concurrently.  The object layer they read through           *)
(* api.ObjectAPI (newObjectLayerFn) is the variable layer, set by the     *)
(* server start-up this module is composed with (module Server):          *)
(* "unset" before newObjectLayer returns, "ready" or "nil" after.         *)
(*                                                                         *)
(* The namespace lock of both handlers is commented out in the source, so *)
(* a GET reads the object info and later streams the object in two       *)
(* separate calls of the object layer, and a PUT may replace the object   *)
(* in between.  The object layer (GetObjectInfo, GetObject, PutObject)    *)
(* and setObjectHeaders are not in this source: the object layer replaces *)
(* a version atomically (spec 3, lifecycle), GetObject streams the bytes  *)
(* of the version current when it is called, one write per step, and may *)
(* fail before or between writes; headers carry the ETag and length of   *)
(* the objInfo the handler read.                                          *)
(***************************************************************************)
EXTENDS Naturals, Sequences

CONSTANTS
  Getters,    \* goroutines serving one request each
  Method,     \* Method[g]: "GET", "HEAD" or "ListParts", the request of g
  Versions,   \* object versions a PUT may store: [etag, data]
  PutInputs,  \* request headers of a PUT, see PutObjectHandler
  MaxPuts     \* bound on PUT requests

NoObject == [etag |-> "none", data |-> << >>]
Size(v) == Len(v.data)

VARIABLES
  layer,      \* globalObjectAPI: "unset" before newObjectLayer, "ready" or "nil" after
  store,      \* the object as the object layer holds it
  puts,       \* number of PUT requests served
  gpc,        \* gpc[g]: "start", "get", "stream", "finish", "done"
  objInfo,    \* objInfo[g]: the version GetObjectInfo returned
  rng,        \* rng[g]: startOffset, length and whether hrange was set
  src,        \* src[g]: bytes GetObject still has to write
  getErr,     \* getErr[g]: whether GetObject returned an error
  dataWritten,\* dataWritten[g]
  resp        \* resp[g]: status, header etag and length, body

vars == <<layer, store, puts, gpc, objInfo, rng, src, getErr, dataWritten, resp>>

NoResp == [status |-> "none", etag |-> "none", length |-> 0, body |-> << >>]

\* The ranges a GET may ask for on an object of size n: none, every
\* valid byte range, and an unsatisfiable one (parseRequestRange).
Ranges(n) == {[kind |-> "none", off |-> 0, len |-> n], [kind |-> "invalid", off |-> 0, len |-> 0]}
             \cup UNION {{[kind |-> "range", off |-> o, len |-> l] : l \in 1..(n - o)} : o \in 0..(n - 1)}

Init ==
  /\ store = NoObject /\ puts = 0
  /\ gpc = [g \in Getters |-> "start"]
  /\ objInfo = [g \in Getters |-> NoObject]
  /\ rng = [g \in Getters |-> [off |-> 0, len |-> 0, ranged |-> FALSE]]
  /\ src = [g \in Getters |-> << >>]
  /\ getErr = [g \in Getters |-> FALSE]
  /\ dataWritten = [g \in Getters |-> FALSE]
  /\ resp = [g \in Getters |-> NoResp]

\* The error XML body of writeErrorResponse.
ErrBody == "errorXML"

\* writeErrorResponse: the status is sent unless a status was already sent
\* (http.ResponseWriter ignores a superfluous WriteHeader), and the error
\* XML is written to the body either way.
ErrorResponse(g, code) ==
  resp' = [resp EXCEPT ![g].status = IF @ = "none" THEN code ELSE @,
                       ![g].body = Append(@, ErrBody)]

\* The writer's first call: setObjectHeaders from objInfo and hrange.
SetHeaders(r, g) ==
  [r EXCEPT !.status = IF rng[g].ranged THEN "206" ELSE "200",
            !.etag = objInfo[g].etag, !.length = rng[g].len]

Finish(g, pc) == gpc' = [gpc EXCEPT ![g] = pc]

\* errAllowableObjectNotFound: the policy check for anonymous requests is
\* commented out, so a missing object is always NoSuchKey.
errAllowableObjectNotFound == "NoSuchKey"

\* GetObjectHandler up to the GetObject call: the object layer check, a
\* GetObjectInfo, and the Range header.
GetStart(g) ==
  /\ gpc[g] = "start" /\ Method[g] = "GET"
  /\ \/ layer # "ready" /\ ErrorResponse(g, "ServerNotInitialized")
           /\ Finish(g, "done") /\ UNCHANGED <<objInfo, rng>>
     \/ layer = "ready" /\ store = NoObject /\ ErrorResponse(g, errAllowableObjectNotFound)
           /\ Finish(g, "done") /\ UNCHANGED <<objInfo, rng>>
     \/ layer = "ready" /\ store # NoObject
        /\ \E r \in Ranges(Size(store)) :
             \/ r.kind = "invalid" /\ ErrorResponse(g, "InvalidRange")
                /\ Finish(g, "done") /\ UNCHANGED <<objInfo, rng>>
             \/ r.kind # "invalid"
                /\ objInfo' = [objInfo EXCEPT ![g] = store]
                /\ rng' = [rng EXCEPT ![g] = [off |-> r.off, len |-> r.len, ranged |-> r.kind = "range"]]
                /\ Finish(g, "get") /\ UNCHANGED resp
  /\ UNCHANGED <<layer, store, puts, src, getErr, dataWritten>>

\* objectAPI.GetObject(bucket, object, startOffset, length, writer) is
\* called: it fails at once, or streams the range of the version stored
\* now, which need not be the one objInfo describes.
GetObjectCall(g) ==
  /\ gpc[g] = "get"
  /\ \/ getErr' = [getErr EXCEPT ![g] = TRUE] /\ Finish(g, "finish") /\ UNCHANGED src
     \/ rng[g].off + rng[g].len <= Size(store) /\ store # NoObject
        /\ src' = [src EXCEPT ![g] = SubSeq(store.data, rng[g].off + 1, rng[g].off + rng[g].len)]
        /\ Finish(g, "stream") /\ UNCHANGED getErr
  /\ UNCHANGED <<layer, store, puts, objInfo, rng, dataWritten, resp>>

\* GetObject calls writer with the next byte, or fails between writes.
\* writer: the first call sets the headers, then w.Write(p).
Stream(g) ==
  /\ gpc[g] = "stream"
  /\ \/ src[g] # << >>
        /\ resp' = [resp EXCEPT ![g] =
                    [IF dataWritten[g] THEN @ ELSE SetHeaders(@, g)
                     EXCEPT !.body = Append(@, Head(src[g]))]]
        /\ dataWritten' = [dataWritten EXCEPT ![g] = TRUE]
        /\ src' = [src EXCEPT ![g] = Tail(@)]
        /\ UNCHANGED <<gpc, getErr>>
     \/ src[g] # << >> /\ getErr' = [getErr EXCEPT ![g] = TRUE]
        /\ Finish(g, "finish") /\ UNCHANGED <<resp, dataWritten, src>>
     \/ src[g] = << >> /\ Finish(g, "finish") /\ UNCHANGED <<resp, dataWritten, src, getErr>>
  /\ UNCHANGED <<layer, store, puts, objInfo, rng>>

\* Mutant: the error response is sent even after data was written.
HandleResultAlwaysError(g) ==
  /\ gpc[g] = "finish"
  /\ \/ getErr[g] /\ ErrorResponse(g, "GetFailed")
     \/ ~getErr[g] /\ ~dataWritten[g] /\ resp' = [resp EXCEPT ![g] = SetHeaders(@, g)]
     \/ ~getErr[g] /\ dataWritten[g] /\ UNCHANGED resp
  /\ Finish(g, "done")
  /\ UNCHANGED <<layer, store, puts, objInfo, rng, src, getErr, dataWritten>>

\* After GetObject returns: an error response only if no data was
\* written; on success with nothing written, writer.Write(nil) sets the
\* headers of a 0-byte object.
HandleResult(g) ==
  /\ gpc[g] = "finish"
  /\ \/ getErr[g] /\ ~dataWritten[g] /\ ErrorResponse(g, "GetFailed")
     \/ getErr[g] /\ dataWritten[g] /\ UNCHANGED resp
     \/ ~getErr[g] /\ ~dataWritten[g] /\ resp' = [resp EXCEPT ![g] = SetHeaders(@, g)]
     \/ ~getErr[g] /\ dataWritten[g] /\ UNCHANGED resp
  /\ Finish(g, "done")
  /\ UNCHANGED <<layer, store, puts, objInfo, rng, src, getErr, dataWritten>>

\* HeadObjectHandler: the object layer check, GetObjectInfo, then the
\* headers of objInfo and 200; every response is headers only.
HeadObject(g) ==
  /\ gpc[g] = "start" /\ Method[g] = "HEAD"
  /\ \/ layer # "ready" /\ resp' = [resp EXCEPT ![g].status = "ServerNotInitialized"]
        /\ UNCHANGED objInfo
     \/ layer = "ready" /\ store = NoObject
        /\ resp' = [resp EXCEPT ![g].status = errAllowableObjectNotFound]
        /\ UNCHANGED objInfo
     \/ layer = "ready" /\ store # NoObject
        /\ objInfo' = [objInfo EXCEPT ![g] = store]
        /\ resp' = [resp EXCEPT ![g] = [@ EXCEPT !.status = "200", !.etag = store.etag,
                                                 !.length = Size(store)]]
  /\ Finish(g, "done")
  /\ UNCHANGED <<layer, store, puts, rng, src, getErr, dataWritten>>

\* ListObjectPartsHandler: a success response with an empty body, whatever
\* the state of the server.
ListObjectParts(g) ==
  /\ gpc[g] = "start" /\ Method[g] = "ListParts"
  /\ resp' = [resp EXCEPT ![g].status = "200"]
  /\ Finish(g, "done")
  /\ UNCHANGED <<layer, store, puts, objInfo, rng, src, getErr, dataWritten>>

\* PutObjectHandler: rejected when the object layer is not set or the
\* headers are invalid (copy source, Content-Md5, Content-Length, size);
\* otherwise PutObject stores a new version or fails.
Put(in) ==
  /\ puts < MaxPuts
  /\ puts' = puts + 1
  /\ \/ (layer # "ready" \/ in # "ok") /\ UNCHANGED store
     \/ layer = "ready" /\ in = "ok" /\ \E v \in Versions \cup {store} : store' = v
  /\ UNCHANGED <<layer, gpc, objInfo, rng, src, getErr, dataWritten, resp>>

\* Every request has been served.
AllServed == puts = MaxPuts /\ \A g \in Getters : gpc[g] = "done"

Next ==
  \/ \E in \in PutInputs : Put(in)
  \/ \E g \in Getters : \/ GetStart(g) \/ GetObjectCall(g) \/ Stream(g) \/ HandleResult(g)
                       \/ HeadObject(g) \/ ListObjectParts(g)
  \/ AllServed /\ UNCHANGED vars

-----------------------------------------------------------------------------
TypeOK ==
  /\ layer \in {"unset", "ready", "nil"}
  /\ store \in Versions \cup {NoObject}
  /\ puts \in 0..MaxPuts
  /\ gpc \in [Getters -> {"start", "get", "stream", "finish", "done"}]
  /\ Method \in [Getters -> {"GET", "HEAD", "ListParts"}]
  /\ \A g \in Getters : Len(resp[g].body) <= Size(objInfo[g]) + 1

SuccessCodes == {"200", "206"}

(* Every finished GET sent a status, and its body is what the status      *)
(* promises: an error status carries only the error XML; a 200 or 206     *)
(* carries object bytes only, exactly Content-Length of them unless       *)
(* GetObject failed part way, when the client sees a short body.  A HEAD  *)
(* sends headers only, and a 200 to it carries the Content-Length of the  *)
(* version whose ETag it carries.                                         *)
CompleteResponses ==
  \A g \in Getters : gpc[g] = "done" =>
    \/ /\ Method[g] = "HEAD" /\ resp[g].status # "none" /\ resp[g].body = << >>
       /\ (resp[g].status = "200" =>
             \E v \in Versions : v.etag = resp[g].etag /\ Size(v) = resp[g].length)
    \/ Method[g] = "ListParts"
    \/ Method[g] = "GET" /\ resp[g].status \notin SuccessCodes \cup {"none"} /\ resp[g].body = << ErrBody >>
    \/ /\ Method[g] = "GET" /\ resp[g].status \in SuccessCodes
       /\ \A i \in DOMAIN resp[g].body : resp[g].body[i] # ErrBody
       /\ IF getErr[g] THEN Len(resp[g].body) < resp[g].length
                       ELSE Len(resp[g].body) = resp[g].length

(* A successful GET returns bytes of the version its ETag names: the body *)
(* is the requested range of the object whose ETag the headers carry.     *)
BodyMatchesETag ==
  \A g \in Getters : gpc[g] = "done" /\ Method[g] = "GET" /\ resp[g].status \in SuccessCodes /\ ~getErr[g] =>
    \E v \in Versions : v.etag = resp[g].etag
        /\ resp[g].body = SubSeq(v.data, rng[g].off + 1, rng[g].off + rng[g].len)
=============================================================================
