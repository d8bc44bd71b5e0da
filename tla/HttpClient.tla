----------------------------- MODULE HttpClient -----------------------------
(***************************************************************************)
(* The HTTP client of infostudio: SyncHttp (studio/base/synchttp.h), used  *)
(* on the window thread, and AsyncHttp (studio/base/asynchttp.h, .cpp),    *)
(* called back by WinINet's worker thread.                                 *)
(*                                                                         *)
(* A SyncHttp ("client") allocates one SyncHttp::Handler, an AsyncHttp, for *)
(* each request.  The worker thread reads the answer and posts WM_USER to  *)
(* the hidden window all clients share; the window thread then hands the   *)
(* answer to the client's callback.  Close leaves the Handler to the worker *)
(* thread to delete, ~SyncHttp deletes it and waits for the worker thread. *)
(*                                                                         *)
(* WinINet is external.  What the code relies on: the callbacks of one     *)
(* Handler do not overlap; a handle's HANDLE_CLOSING comes after           *)
(* InternetCloseHandle and is its last callback; a broken connection is    *)
(* reported by REQUEST_COMPLETE, not by InternetReadFileEx.                *)
(***************************************************************************)
EXTENDS Naturals, Sequences

CONSTANTS
  Clients,    \* SyncHttp objects
  Handlers,   \* SyncHttp::Handler objects, numbered as they are allocated
  None,       \* a NULL pointer
  MaxBody     \* bound: pieces the body of an answer arrives in

ASSUME HttpAssumption == None \notin Clients \cup Handlers /\ MaxBody \in Nat
ASSUME NumberAssumption == Handlers \subseteq Nat

VARIABLES
  client,     \* is the SyncHttp object "none", "alive" or "gone"
  handler,    \* SyncHttp::handler_
  queue,      \* WM_USER messages: the SyncHttp they name, who posted them
  mpc, mh,    \* the window thread: where in Close or a destructor, of whom
  life,       \* is the Handler "none", "live" or "deleted"
  parent,     \* Handler::parent_
  conn, req,  \* hConn_, hRequest_: "null", or the handle is "open" or "closing"
  event,      \* event_: "null", "unset" or "set"
  deleteSelf, \* delete_self_
  io,         \* the last call to WinINet: "none", "pending" or "failed"
  left,       \* pieces of the body not yet read
  wpc,        \* the worker thread: where in a callback of the Handler
  posts       \* how often the Handler posted WM_USER

clientVars  == <<client, handler>>
mainVars    == <<mpc, mh>>
handleVars  == <<conn, req, event, deleteSelf>>
objectVars  == <<life, parent>>
workerVars  == <<io, left, wpc, posts>>
vars == <<clientVars, queue, mainVars, objectVars, handleVars, workerVars>>

Alive(c) == client[c] = "alive"
Window == \E c \in Clients : Alive(c)       \* proxy_ is a window, ref_ > 0
Idle == mpc = "idle"
\* The window thread is inside ~Handler: OnResponse is AsyncHttp's empty one.
Destroying(h) == ~Idle /\ mh = h /\ ~deleteSelf[h]
\* A WM_USER message, with the Handler that posted it.
Messages == [to : Clients, from : Handlers]
NoHandles(h) == req[h] = "null" /\ conn[h] = "null"
-----------------------------------------------------------------------------
(* The window thread.                                                      *)

\* SyncHttp::SyncHttp
Construct(c) ==
  /\ Idle /\ client[c] = "none"
  /\ client' = [client EXCEPT ![c] = "alive"]
  /\ UNCHANGED <<handler, queue, mainVars, objectVars, handleVars, workerVars>>

\* How far a request gets: no connection, no request handle, not sent, sent.
Outcomes == {"connect", "open", "send", "sent"}

\* SyncHttp::PrepareGet and PreparePost with a new Handler h: hConn_,
\* hRequest_, HttpSendRequest.
Prepare(c, h, outcome, body) ==
  /\ Idle /\ Alive(c) /\ handler[c] = None
  /\ life[h] = "none" /\ \A g \in Handlers : life[g] = "none" => h <= g
  /\ handler' = [handler EXCEPT ![c] = h]
  /\ life' = [life EXCEPT ![h] = "live"]
  /\ parent' = [parent EXCEPT ![h] = c]
  /\ conn' = [conn EXCEPT ![h] = IF outcome = "connect" THEN "null" ELSE "open"]
  /\ req' = [req EXCEPT ![h] =
               IF outcome \in {"send", "sent"} THEN "open" ELSE "null"]
  /\ io' = [io EXCEPT ![h] = IF outcome = "sent" THEN "pending" ELSE "failed"]
  /\ left' = [left EXCEPT ![h] = body]
  /\ UNCHANGED <<client, queue, mainVars, event, deleteSelf, wpc, posts>>

\* Mutant of Close: handler_ keeps its value.
CloseKeeps(c) ==
  /\ Idle /\ Alive(c) /\ handler[c] # None
  /\ LET h == handler[c] IN
     IF NoHandles(h)
     THEN /\ life' = [life EXCEPT ![h] = "deleted"]
          /\ UNCHANGED <<mainVars, event, deleteSelf>>
     ELSE /\ deleteSelf' = [deleteSelf EXCEPT ![h] = TRUE]
          /\ event' = [event EXCEPT ![h] = "unset"]
          /\ mpc' = "closeRequest" /\ mh' = h
          /\ UNCHANGED life
  /\ UNCHANGED <<clientVars, queue, parent, conn, req, workerVars>>

\* SyncHttp::Close: Close2 deletes a Handler without handles, and starts to
\* close the handles of another one, which the worker thread then deletes.
\* (handler_ is cleared at the end; nobody else reads it meanwhile.)
Close(c) ==
  /\ Idle /\ Alive(c) /\ handler[c] # None
  /\ handler' = [handler EXCEPT ![c] = None]
  /\ LET h == handler[c] IN
     IF NoHandles(h)
     THEN /\ life' = [life EXCEPT ![h] = "deleted"]
          /\ UNCHANGED <<mainVars, event, deleteSelf>>
     ELSE /\ deleteSelf' = [deleteSelf EXCEPT ![h] = TRUE]
          /\ event' = [event EXCEPT ![h] = "unset"]
          /\ mpc' = "closeRequest" /\ mh' = h
          /\ UNCHANGED life
  /\ UNCHANGED <<client, queue, parent, conn, req, workerVars>>

\* AsyncHttp::Close closes hRequest_ if there is one, then hConn_; meanwhile
\* HANDLE_CLOSING of the first may be at work.
CloseRequest ==
  /\ mpc = "closeRequest"
  /\ mpc' = "closeConn"
  /\ req' = [req EXCEPT ![mh] = IF @ = "open" THEN "closing" ELSE @]
  /\ UNCHANGED <<clientVars, queue, mh, objectVars, conn, event, deleteSelf,
                 workerVars>>

CloseConn ==
  /\ mpc = "closeConn"
  /\ conn' = [conn EXCEPT ![mh] = IF @ = "open" THEN "closing" ELSE @]
  /\ mpc' = IF deleteSelf[mh] THEN "idle" ELSE "wait"
  /\ UNCHANGED <<clientVars, queue, mh, objectVars, req, event, deleteSelf,
                 workerVars>>

\* The SyncHttp c is gone; with the last one the window goes, and its messages.
Gone(c) ==
  /\ client' = [client EXCEPT ![c] = "gone"]
  /\ handler' = [handler EXCEPT ![c] = None]
  /\ queue' = IF \E d \in Clients \ {c} : Alive(d) THEN queue ELSE <<>>

\* ~SyncHttp: deletes handler_, if any; ~AsyncHttp calls Close when there are
\* handles to close.
Delete(c) ==
  /\ Idle /\ Alive(c)
  /\ LET h == handler[c] IN
     IF h # None /\ ~NoHandles(h)
     THEN /\ event' = [event EXCEPT ![h] = "unset"]
          /\ mpc' = "closeRequest" /\ mh' = h
          /\ UNCHANGED <<clientVars, queue, life>>
     ELSE /\ life' = IF h = None THEN life ELSE [life EXCEPT ![h] = "deleted"]
          /\ Gone(c)
          /\ UNCHANGED <<mainVars, event>>
  /\ UNCHANGED <<parent, conn, req, deleteSelf, workerVars>>

\* Mutant of Deleted: ~AsyncHttp does not wait for the event.
DeletedNoWait ==
  /\ mpc = "wait"
  /\ mpc' = "idle" /\ UNCHANGED mh
  /\ life' = [life EXCEPT ![mh] = "deleted"]
  /\ event' = [event EXCEPT ![mh] = "null"]
  /\ Gone(parent[mh])
  /\ UNCHANGED <<parent, conn, req, deleteSelf, workerVars>>

\* ~AsyncHttp sees the event, and the Handler and its SyncHttp are freed.
Deleted ==
  /\ mpc = "wait" /\ event[mh] = "set"
  /\ mpc' = "idle" /\ UNCHANGED mh
  /\ life' = [life EXCEPT ![mh] = "deleted"]
  /\ event' = [event EXCEPT ![mh] = "null"]
  /\ Gone(parent[mh])
  /\ UNCHANGED <<parent, conn, req, deleteSelf, workerVars>>

\* ThreadProxy::OnHttpResponse and SyncHttp::Response hand the content of
\* handler_ to the callback.  For a SyncHttp that is gone or has no handler_
\* the behaviour is undefined, for a later Handler with no content yet it may
\* be (&c[0]); the model stops there.
Dispatch ==
  /\ Idle /\ queue # <<>>
  /\ queue' = Tail(queue)
  /\ LET m == Head(queue) IN
     mpc' \in IF ~Alive(m.to) \/ handler[m.to] = None THEN {"undefined"}
             ELSE IF handler[m.to] = m.from THEN {"idle"}
             ELSE {"idle", "undefined"}
  /\ UNCHANGED <<clientVars, mh, objectVars, handleVars, workerVars>>
-----------------------------------------------------------------------------
(* The worker thread.                                                      *)

Running == mpc # "undefined"

\* InternetStatusCallback with REQUEST_COMPLETE, for HttpSendRequest or for a
\* read: RequestComplete.  A request that failed is dropped.
Complete(h, ok) ==
  /\ Running /\ wpc[h] = "out" /\ io[h] = "pending" /\ req[h] # "null"
  /\ io' = [io EXCEPT ![h] = IF ok THEN "none" ELSE "failed"]
  /\ wpc' = [wpc EXCEPT ![h] = IF event[h] = "null" /\ ok THEN "read" ELSE "out"]
  /\ UNCHANGED <<clientVars, queue, mainVars, objectVars, handleVars, left, posts>>

\* Where RequestComplete goes when it has read all: "race condition ?".
Finished(h) == IF event[h] = "null" THEN "post" ELSE "out"

\* Mutant of ReadPiece: an empty piece does not end the loop.
ReadPieceBeyond(h) ==
  /\ Running /\ wpc[h] = "read" /\ req[h] = "open"
  /\ left' = [left EXCEPT ![h] = @ - 1]
  /\ UNCHANGED <<clientVars, queue, mainVars, objectVars, handleVars, io, wpc, posts>>

\* InternetReadFileEx returns a piece of the body.
ReadPiece(h) ==
  /\ Running /\ wpc[h] = "read" /\ req[h] = "open"
  /\ left[h] > 0
  /\ left' = [left EXCEPT ![h] = @ - 1]
  /\ UNCHANGED <<clientVars, queue, mainVars, objectVars, handleVars, io, wpc, posts>>

\* Mutant of ReadPending: the error code is not looked at.
ReadPendingEnds(h) ==
  /\ Running /\ wpc[h] = "read" /\ req[h] = "open"
  /\ left[h] > 0
  /\ wpc' = [wpc EXCEPT ![h] = Finished(h)]
  /\ UNCHANGED <<clientVars, queue, mainVars, objectVars, handleVars, left, io, posts>>

\* Mutant of ReadPending: the code returns without a read being pending.
ReadPendingForgets(h) ==
  /\ Running /\ wpc[h] = "read" /\ req[h] = "open"
  /\ left[h] > 0
  /\ wpc' = [wpc EXCEPT ![h] = "out"]
  /\ UNCHANGED <<clientVars, queue, mainVars, objectVars, handleVars, left, io, posts>>

\* InternetReadFileEx fails with ERROR_IO_PENDING.
ReadPending(h) ==
  /\ Running /\ wpc[h] = "read" /\ req[h] = "open"
  /\ left[h] > 0
  /\ io' = [io EXCEPT ![h] = "pending"]
  /\ wpc' = [wpc EXCEPT ![h] = "out"]
  /\ UNCHANGED <<clientVars, queue, mainVars, objectVars, handleVars, left, posts>>

\* InternetReadFileEx returns nothing, or, the handle having been closed
\* meanwhile, fails with another error: both mean "finished".
ReadEnd(h) ==
  /\ Running /\ wpc[h] = "read"
  /\ left[h] = 0 \/ req[h] = "closing"
  /\ wpc' = [wpc EXCEPT ![h] = Finished(h)]
  /\ UNCHANGED <<clientVars, queue, mainVars, objectVars, handleVars, left, io, posts>>

\* Handler::OnResponse: SendNotifyMessage(WM_USER), lost without a window.
OnResponse(h) ==
  /\ Running /\ wpc[h] = "post"
  /\ wpc' = [wpc EXCEPT ![h] = "out"]
  /\ IF Destroying(h) THEN UNCHANGED <<queue, posts>>
     ELSE /\ queue' = IF Window
                      THEN Append(queue, [to |-> parent[h], from |-> h])
                      ELSE queue
          /\ posts' = [posts EXCEPT ![h] = @ + 1]
  /\ UNCHANGED <<clientVars, mainVars, objectVars, handleVars, left, io>>

\* Mutant of HandleClosing: one handle closed is enough.
HandleClosingAny(h) ==
  /\ Running /\ wpc[h] = "out"
  /\ \/ conn[h] = "closing" /\ conn' = [conn EXCEPT ![h] = "null"] /\ UNCHANGED req
     \/ req[h] = "closing" /\ req' = [req EXCEPT ![h] = "null"] /\ UNCHANGED conn
  /\ io' = [io EXCEPT ![h] = IF req'[h] = "null" THEN "none" ELSE @]
  /\ event' = [event EXCEPT ![h] = "set"]
  /\ wpc' = [wpc EXCEPT ![h] = "closing"]
  /\ UNCHANGED <<clientVars, queue, mainVars, objectVars, deleteSelf, left, posts>>

\* Mutant of HandleClosing: the event is not set when delete_self_ is FALSE.
HandleClosingSilent(h) ==
  /\ Running /\ wpc[h] = "out"
  /\ \/ conn[h] = "closing" /\ conn' = [conn EXCEPT ![h] = "null"] /\ UNCHANGED req
     \/ req[h] = "closing" /\ req' = [req EXCEPT ![h] = "null"] /\ UNCHANGED conn
  /\ io' = [io EXCEPT ![h] = IF req'[h] = "null" THEN "none" ELSE @]
  /\ IF NoHandles(h)' /\ deleteSelf[h]
     THEN /\ event' = [event EXCEPT ![h] = "set"]
          /\ wpc' = [wpc EXCEPT ![h] = "closing"]
     ELSE UNCHANGED <<event, wpc>>
  /\ UNCHANGED <<clientVars, queue, mainVars, objectVars, deleteSelf, left, posts>>

\* InternetStatusCallback with HANDLE_CLOSING: HandleClosing, up to SetEvent.
HandleClosing(h) ==
  /\ Running /\ wpc[h] = "out"
  /\ \/ conn[h] = "closing" /\ conn' = [conn EXCEPT ![h] = "null"] /\ UNCHANGED req
     \/ req[h] = "closing" /\ req' = [req EXCEPT ![h] = "null"] /\ UNCHANGED conn
  /\ io' = [io EXCEPT ![h] = IF req'[h] = "null" THEN "none" ELSE @]
  /\ IF NoHandles(h)'
     THEN /\ event' = [event EXCEPT ![h] = "set"]
          /\ wpc' = [wpc EXCEPT ![h] = "closing"]
     ELSE UNCHANGED <<event, wpc>>
  /\ UNCHANGED <<clientVars, queue, mainVars, objectVars, deleteSelf, left, posts>>

\* Mutant of DeleteSelf: nobody deletes a Handler that Close2 gave up.
DeleteSelfNever(h) ==
  /\ Running /\ wpc[h] = "closing"
  /\ wpc' = [wpc EXCEPT ![h] = "out"]
  /\ UNCHANGED <<clientVars, queue, mainVars, objectVars, handleVars, left, io, posts>>

\* The rest of HandleClosing reads delete_self_.  If ~AsyncHttp was faster the
\* Handler is freed memory: the read gives anything, TRUE deletes it again.
DeleteSelf(h) ==
  /\ Running /\ wpc[h] = "closing"
  /\ wpc' = [wpc EXCEPT ![h] = "out"]
  /\ \/ /\ life[h] = "live"
        /\ life' = [life EXCEPT ![h] = IF deleteSelf[h] THEN "deleted" ELSE @]
        /\ UNCHANGED mpc
     \/ /\ life[h] = "deleted"
        /\ mpc' \in {mpc, "undefined"}
        /\ UNCHANGED life
  /\ UNCHANGED <<clientVars, queue, mh, parent, handleVars, left, io, posts>>
-----------------------------------------------------------------------------
Init ==
  /\ client = [c \in Clients |-> "none"]
  /\ handler = [c \in Clients |-> None]
  /\ queue = <<>>
  /\ mpc = "idle" /\ mh = None
  /\ life = [h \in Handlers |-> "none"]
  /\ parent = [h \in Handlers |-> None]
  /\ conn = [h \in Handlers |-> "null"]
  /\ req = [h \in Handlers |-> "null"]
  /\ event = [h \in Handlers |-> "null"]
  /\ deleteSelf = [h \in Handlers |-> FALSE]
  /\ io = [h \in Handlers |-> "none"]
  /\ left = [h \in Handlers |-> 0]
  /\ wpc = [h \in Handlers |-> "out"]
  /\ posts = [h \in Handlers |-> 0]

\* What the owner of the clients does, in any order.
Use ==
  \E c \in Clients :
    \/ Construct(c) \/ Close(c) \/ Delete(c)
    \/ \E h \in Handlers, o \in Outcomes, b \in 0..MaxBody : Prepare(c, h, o, b)

Closing == CloseRequest \/ CloseConn \/ Deleted

Worker(h) ==
  \/ \E ok \in BOOLEAN : Complete(h, ok)
  \/ ReadPiece(h) \/ ReadPending(h) \/ ReadEnd(h)
  \/ OnResponse(h)
  \/ HandleClosing(h) \/ DeleteSelf(h)

Next == Use \/ Closing \/ Dispatch \/ \E h \in Handlers : Worker(h)

Spec == Init /\ [][Next]_vars

\* Threads run, the message loop dispatches, WinINet calls back, and the
\* server of a request that does not fail sends all of its answer.
Fairness ==
  /\ WF_vars(Closing) /\ WF_vars(Dispatch)
  /\ \A h \in Handlers : WF_vars(Worker(h)) /\ SF_vars(ReadPiece(h))

FairSpec == Spec /\ Fairness
-----------------------------------------------------------------------------
(* Properties.                                                             *)

TypeOK ==
  /\ client \in [Clients -> {"none", "alive", "gone"}]
  /\ handler \in [Clients -> Handlers \cup {None}]
  /\ queue \in Seq(Messages)
  /\ mpc \in {"idle", "closeRequest", "closeConn", "wait", "undefined"}
  /\ mh \in Handlers \cup {None}
  /\ life \in [Handlers -> {"none", "live", "deleted"}]
  /\ parent \in [Handlers -> Clients \cup {None}]
  /\ conn \in [Handlers -> {"null", "open", "closing"}]
  /\ req \in [Handlers -> {"null", "open", "closing"}]
  /\ event \in [Handlers -> {"null", "unset", "set"}]
  /\ deleteSelf \in [Handlers -> BOOLEAN]
  /\ io \in [Handlers -> {"none", "pending", "failed"}]
  /\ left \in [Handlers -> Nat]
  /\ wpc \in [Handlers -> {"out", "read", "post", "closing"}]
  /\ posts \in [Handlers -> Nat]

\* WinINet never calls back into a freed Handler (dwContext in
\* InternetStatusCallback): when one is freed both handles are closed and no
\* RequestComplete is under way, whoever frees it.
CallbackFindsHandler ==
  \A h \in Handlers : life[h] # "live" =>
    NoHandles(h) /\ wpc[h] \notin {"read", "post"}

\* After SyncHttp::Close the Handler belongs to the worker thread: it is not
\* freed while a callback is inside it and no SyncHttp still points at it.
ClosedBelongsToWorker ==
  \A h \in Handlers :
    /\ deleteSelf[h] => \A c \in Clients : handler[c] # h
    /\ deleteSelf[h] /\ wpc[h] # "out" => life[h] = "live"

\* handler_ of a SyncHttp is a live Handler of its own.
HandlerIsLive ==
  \A c \in Clients : handler[c] # None =>
    Alive(c) /\ life[handler[c]] = "live" /\ parent[handler[c]] = c

\* A Handler posts at most one answer, when it has read the whole body, and
\* none is still pending then.
OneWholeAnswer ==
  \A h \in Handlers :
    /\ posts[h] <= 1
    /\ posts[h] = 1 => left[h] = 0 /\ io[h] # "pending" /\ wpc[h] \in {"out", "closing"}

\* The assertion in RequestComplete (asynchttp.cpp:459): a read fails only
\* with ERROR_IO_PENDING, not because the window thread closed the handle.
ReadErrorIsPending ==
  [][\A h \in Handlers : ReadEnd(h) => req[h] = "open"]_vars

\* A Handler given up by Close2 is deleted.
ClosedIsFreed ==
  \A h \in Handlers : deleteSelf[h] ~> (life[h] = "deleted" \/ ~Running)

\* ~SyncHttp, which waits for the worker thread without a timeout, returns.
DestructorReturns == mpc = "wait" ~> mpc # "wait"

\* The answer to a request that WinINet has begun to deliver is posted to the
\* window thread, unless the request fails or is closed.
AnswerArrives ==
  \A h \in Handlers :
    wpc[h] = "read" ~> \/ posts[h] = 1
                       \/ io[h] = "failed"
                       \/ event[h] # "null" \/ ~Running
-----------------------------------------------------------------------------
(* The inductive invariant behind the safety properties.                   *)

\* Nothing has happened to a Handler that was never allocated; another one has
\* its SyncHttp.
FreshInv ==
  \A h \in Handlers :
    /\ life[h] = "none" => /\ event[h] = "null" /\ ~deleteSelf[h]
                           /\ io[h] = "none" /\ wpc[h] = "out" /\ posts[h] = 0
    /\ life[h] # "none" => parent[h] \in Clients

\* event_ says how far a live Handler has come with closing its handles.
EventInv ==
  \A h \in Handlers : life[h] = "live" =>
    /\ event[h] = "null" => /\ req[h] # "closing" /\ conn[h] # "closing"
                           /\ (req[h] = "open" => conn[h] = "open")
                           /\ wpc[h] # "closing" /\ ~deleteSelf[h]
    /\ event[h] = "unset" => ~NoHandles(h) /\ wpc[h] # "closing"
    /\ event[h] = "set" => NoHandles(h)

\* What the window thread works on is there, and its connection open until
\* the window thread itself closes it.
MainInv ==
  mpc \in {"closeRequest", "closeConn", "wait"} =>
    /\ mh \in Handlers
    /\ mpc # "wait" =>
         life[mh] = "live" /\ event[mh] = "unset" /\ conn[mh] = "open"
    /\ mpc = "wait" => ~deleteSelf[mh]
    /\ ~deleteSelf[mh] =>
         /\ life[mh] = "live" /\ event[mh] # "null"
         /\ parent[mh] \in Clients /\ handler[parent[mh]] = mh

\* A handler_ has not begun to close, or it is what the window thread closes.
OwnedInv ==
  \A c \in Clients : Running /\ handler[c] # None =>
    event[handler[c]] = "null" \/ (~Idle /\ mh = handler[c])

\* A callback reading the answer holds the request handle open in WinINet.
ReadInv ==
  \A h \in Handlers :
    /\ wpc[h] \in {"read", "post"} =>
         life[h] = "live" /\ req[h] # "null" /\ io[h] # "pending" /\ posts[h] = 0
    /\ wpc[h] = "post" => left[h] = 0

HttpInv ==
  /\ FreshInv /\ EventInv /\ MainInv /\ OwnedInv /\ ReadInv
  /\ CallbackFindsHandler /\ ClosedBelongsToWorker /\ HandlerIsLive
  /\ OneWholeAnswer
=============================================================================
