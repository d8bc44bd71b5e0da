-------------------------- MODULE HttpClientProofs --------------------------
(***************************************************************************)
(* Proofs about HttpClient, for any number of clients and Handlers: the    *)
(* type invariant, and through the inductive invariant HttpInv the safety  *)
(* properties of the run http_client.                                      *)
(***************************************************************************)
EXTENDS HttpClient, SequenceTheorems, TLAPS

LEMMA InitTypeOK == Init => TypeOK
BY HttpAssumption DEF Init, TypeOK

LEMMA NextTypeOK == TypeOK /\ HttpInv /\ [Next]_vars => TypeOK'
<1> SUFFICES ASSUME TypeOK, HttpInv, [Next]_vars PROVE TypeOK'
  OBVIOUS
<1> USE HttpAssumption DEF TypeOK, clientVars, mainVars, objectVars, handleVars, workerVars
<1>1. ASSUME NEW c \in Clients, Construct(c) PROVE TypeOK'
  BY <1>1 DEF Construct
<1>2. ASSUME NEW c \in Clients, NEW h \in Handlers, NEW o \in Outcomes, NEW b \in 0..MaxBody, Prepare(c, h, o, b) PROVE TypeOK'
  BY <1>2 DEF Prepare
<1>3. ASSUME NEW c \in Clients, Close(c) PROVE TypeOK'
  <2>1. handler[c] \in Handlers
    BY <1>3 DEF Close
  <2>2. CASE NoHandles(handler[c])
    BY <1>3, <2>1, <2>2 DEF Close
  <2>3. CASE ~NoHandles(handler[c])
    BY <1>3, <2>1, <2>3 DEF Close
  <2> QED
    BY <2>2, <2>3
<1>4. ASSUME NEW c \in Clients, Delete(c) PROVE TypeOK'
  <2>1. CASE handler[c] # None /\ ~NoHandles(handler[c])
    <3>1. handler[c] \in Handlers
      BY <2>1
    <3> QED
      BY <1>4, <2>1, <3>1 DEF Delete
  <2>2. CASE ~(handler[c] # None /\ ~NoHandles(handler[c]))
    <3>1. queue' = queue \/ queue' = <<>>
      BY <1>4, <2>2 DEF Delete, Gone
    <3>2. /\ life' \in [Handlers -> {"none", "live", "deleted"}]
          /\ client' \in [Clients -> {"none", "alive", "gone"}]
          /\ handler' \in [Clients -> Handlers \cup {None}]
          /\ UNCHANGED <<mpc, mh, event>>
      BY <1>4, <2>2 DEF Delete, Gone
    <3>3. queue' \in Seq(Messages)
      BY <3>1, EmptySeq, Zenon
    <3>4. UNCHANGED <<parent, conn, req, deleteSelf, workerVars>>
      BY <1>4 DEF Delete
    <3> QED
      BY <3>2, <3>3, <3>4
  <2> QED
    BY <2>1, <2>2
<1>5. ASSUME CloseRequest PROVE TypeOK'
  BY <1>5 DEF CloseRequest
<1>6. ASSUME CloseConn PROVE TypeOK'
  BY <1>6 DEF CloseConn
<1>7. ASSUME Deleted PROVE TypeOK'
  <2>1. queue' \in Seq(Messages)
    BY <1>7 DEF Deleted, Gone
  <2>2. /\ client' \in [Clients -> {"none", "alive", "gone"}]
        /\ handler' \in [Clients -> Handlers \cup {None}]
    BY <1>7 DEF Deleted, Gone
  <2> QED
    BY <1>7, <2>1, <2>2 DEF Deleted
<1>8. ASSUME Dispatch PROVE TypeOK'
  BY <1>8 DEF Dispatch
<1>9. ASSUME NEW h \in Handlers, NEW ok \in BOOLEAN, Complete(h, ok) PROVE TypeOK'
  BY <1>9 DEF Complete
<1>10. ASSUME NEW h \in Handlers, ReadPiece(h) PROVE TypeOK'
  BY <1>10 DEF ReadPiece
<1>11. ASSUME NEW h \in Handlers, ReadPending(h) PROVE TypeOK'
  BY <1>11 DEF ReadPending
<1>12. ASSUME NEW h \in Handlers, ReadEnd(h) PROVE TypeOK'
  BY <1>12 DEF ReadEnd, Finished
<1>13. ASSUME NEW h \in Handlers, OnResponse(h) PROVE TypeOK'
  <2>1. parent[h] \in Clients
    BY <1>13 DEF OnResponse, HttpInv, ReadInv, FreshInv
  <2>2. [to |-> parent[h], from |-> h] \in Messages
    BY <2>1 DEF Messages
  <2>3. queue' \in Seq(Messages)
    <3>1. \/ queue' = queue
          \/ queue' = Append(queue, [to |-> parent[h], from |-> h])
      BY <1>13 DEF OnResponse
    <3>2. \A m \in Messages : Append(queue, m) \in Seq(Messages)
      BY AppendProperties, Zenon
    <3> QED
      BY <2>2, <3>1, <3>2, Zenon
  <2>4. /\ posts' \in [Handlers -> Nat]
        /\ wpc' \in [Handlers -> {"out", "read", "post", "closing"}]
    BY <1>13 DEF OnResponse
  <2> QED
    BY <1>13, <2>3, <2>4 DEF OnResponse
<1>14. ASSUME NEW h \in Handlers, HandleClosing(h) PROVE TypeOK'
  <2>1. /\ conn' \in [Handlers -> {"null", "open", "closing"}]
        /\ req' \in [Handlers -> {"null", "open", "closing"}]
    BY <1>14 DEF HandleClosing
  <2>2. io' \in [Handlers -> {"none", "pending", "failed"}]
    BY <1>14 DEF HandleClosing
  <2>3. /\ event' \in [Handlers -> {"null", "unset", "set"}]
        /\ wpc' \in [Handlers -> {"out", "read", "post", "closing"}]
    <3>1. \/ /\ event' = [event EXCEPT ![h] = "set"]
             /\ wpc' = [wpc EXCEPT ![h] = "closing"]
          \/ UNCHANGED <<event, wpc>>
      BY <1>14 DEF HandleClosing, NoHandles
    <3> QED
      BY <3>1
  <2> QED
    BY <1>14, <2>1, <2>2, <2>3 DEF HandleClosing
<1>15. ASSUME NEW h \in Handlers, DeleteSelf(h) PROVE TypeOK'
  BY <1>15 DEF DeleteSelf
<1>16. CASE UNCHANGED vars
  BY <1>16 DEF vars
<1> QED
  BY <1>1, <1>2, <1>3, <1>4, <1>5, <1>6, <1>7, <1>8, <1>9, <1>10, <1>11, <1>12, <1>13, <1>14, <1>15, <1>16 DEF Next, Use, Closing, Worker

LEMMA InitHttpInv == Init => HttpInv
BY HttpAssumption
   DEF Init, HttpInv, FreshInv, EventInv, MainInv, OwnedInv, ReadInv,
       CallbackFindsHandler, ClosedBelongsToWorker, HandlerIsLive,
       OneWholeAnswer, NoHandles, Idle, Running

LEMMA NextHttpInv == TypeOK /\ TypeOK' /\ HttpInv /\ [Next]_vars => HttpInv'
<1> SUFFICES ASSUME TypeOK, TypeOK', HttpInv, [Next]_vars PROVE HttpInv'
  OBVIOUS
<1> USE HttpAssumption
    DEF TypeOK, HttpInv, clientVars, mainVars, objectVars, handleVars,
        workerVars, Idle, Running, NoHandles, Alive
<1> USE DEF FreshInv, EventInv, MainInv, OwnedInv, ReadInv,
            CallbackFindsHandler, ClosedBelongsToWorker, HandlerIsLive,
            OneWholeAnswer
<1>1. ASSUME NEW c \in Clients, Construct(c) PROVE HttpInv'
  <2>1. FreshInv' /\ EventInv' /\ MainInv' /\ OwnedInv'
        /\ ReadInv' /\ CallbackFindsHandler' /\ ClosedBelongsToWorker' /\ OneWholeAnswer'
    BY <1>1 DEF Construct
  <2>2. HandlerIsLive'
    BY <1>1 DEF Construct
  <2> QED
    BY <2>1, <2>2
<1>2. ASSUME NEW c \in Clients, NEW h \in Handlers, NEW o \in Outcomes, NEW b \in 0..MaxBody,
             Prepare(c, h, o, b)
      PROVE  HttpInv'
  <2>1. FreshInv'
    BY <1>2 DEF Prepare
  <2>2. EventInv'
    BY <1>2 DEF Prepare
  <2>3. MainInv'
    BY <1>2 DEF Prepare
  <2>4. OwnedInv'
    BY <1>2 DEF Prepare
  <2>5. ReadInv'
    BY <1>2 DEF Prepare
  <2>6. CallbackFindsHandler'
    BY <1>2 DEF Prepare
  <2>7. ClosedBelongsToWorker'
    BY <1>2 DEF Prepare
  <2>8. HandlerIsLive'
    BY <1>2 DEF Prepare
  <2>9. OneWholeAnswer'
    BY <1>2 DEF Prepare
  <2> QED
    BY <2>1, <2>2, <2>3, <2>4, <2>5, <2>6, <2>7, <2>8, <2>9
<1>3. ASSUME NEW c \in Clients, Close(c) PROVE HttpInv'
  <2>1. OneWholeAnswer'
    BY <1>3 DEF Close
  <2>2. FreshInv'
    BY <1>3 DEF Close
  <2>3. EventInv'
    BY <1>3 DEF Close
  <2>4. MainInv'
    BY <1>3 DEF Close
  <2>5. OwnedInv'
    BY <1>3 DEF Close
  <2>6. ReadInv'
    BY <1>3 DEF Close
  <2>7. CallbackFindsHandler'
    BY <1>3 DEF Close
  <2>8. ClosedBelongsToWorker'
    BY <1>3 DEF Close
  <2>9. HandlerIsLive'
    BY <1>3 DEF Close
  <2> QED
    BY <2>1, <2>2, <2>3, <2>4, <2>5, <2>6, <2>7, <2>8, <2>9
<1>4. ASSUME NEW c \in Clients, Delete(c) PROVE HttpInv'
  <2>1. OneWholeAnswer'
    BY <1>4 DEF Delete, Gone
  <2>2. FreshInv'
    BY <1>4 DEF Delete, Gone
  <2>3. EventInv'
    BY <1>4 DEF Delete, Gone
  <2>4. MainInv'
    BY <1>4 DEF Delete, Gone
  <2>5. OwnedInv'
    BY <1>4 DEF Delete, Gone
  <2>6. ReadInv'
    BY <1>4 DEF Delete, Gone
  <2>7. CallbackFindsHandler'
    BY <1>4 DEF Delete, Gone
  <2>8. ClosedBelongsToWorker'
    BY <1>4 DEF Delete, Gone
  <2>9. HandlerIsLive'
    BY <1>4 DEF Delete, Gone
  <2> QED
    BY <2>1, <2>2, <2>3, <2>4, <2>5, <2>6, <2>7, <2>8, <2>9
<1>5. ASSUME CloseRequest PROVE HttpInv'
  <2>1. FreshInv' /\ ClosedBelongsToWorker' /\ HandlerIsLive' /\ OneWholeAnswer'
    BY <1>5 DEF CloseRequest
  <2>2. EventInv'
    BY <1>5 DEF CloseRequest
  <2>3. MainInv'
    BY <1>5 DEF CloseRequest
  <2>4. OwnedInv'
    BY <1>5 DEF CloseRequest
  <2>5. ReadInv'
    BY <1>5 DEF CloseRequest
  <2>6. CallbackFindsHandler'
    BY <1>5 DEF CloseRequest
  <2> QED
    BY <2>1, <2>2, <2>3, <2>4, <2>5, <2>6
<1>6. ASSUME CloseConn PROVE HttpInv'
  <2>1. FreshInv' /\ ReadInv' /\ ClosedBelongsToWorker'
        /\ HandlerIsLive' /\ OneWholeAnswer'
    BY <1>6 DEF CloseConn
  <2>2. EventInv'
    BY <1>6 DEF CloseConn
  <2>3. MainInv'
    BY <1>6 DEF CloseConn
  <2>4. OwnedInv'
    BY <1>6 DEF CloseConn
  <2>5. CallbackFindsHandler'
    BY <1>6 DEF CloseConn
  <2> QED
    BY <2>1, <2>2, <2>3, <2>4, <2>5
<1>7. ASSUME Deleted PROVE HttpInv'
  <2>1. OneWholeAnswer'
    BY <1>7 DEF Deleted, Gone
  <2>2. FreshInv'
    BY <1>7 DEF Deleted, Gone
  <2>3. EventInv'
    BY <1>7 DEF Deleted, Gone
  <2>4. MainInv'
    BY <1>7 DEF Deleted, Gone
  <2>5. OwnedInv'
    BY <1>7 DEF Deleted, Gone
  <2>6. ReadInv'
    BY <1>7 DEF Deleted, Gone
  <2>7. CallbackFindsHandler'
    BY <1>7 DEF Deleted, Gone
  <2>8. ClosedBelongsToWorker'
    BY <1>7 DEF Deleted, Gone
  <2>9. HandlerIsLive'
    BY <1>7 DEF Deleted, Gone
  <2> QED
    BY <2>1, <2>2, <2>3, <2>4, <2>5, <2>6, <2>7, <2>8, <2>9
<1>8. ASSUME Dispatch PROVE HttpInv'
  <2>1. FreshInv' /\ EventInv' /\ ReadInv' /\ CallbackFindsHandler'
        /\ ClosedBelongsToWorker' /\ HandlerIsLive' /\ OneWholeAnswer'
    BY <1>8 DEF Dispatch
  <2>2. MainInv'
    BY <1>8 DEF Dispatch
  <2>3. OwnedInv'
    BY <1>8 DEF Dispatch
  <2> QED
    BY <2>1, <2>2, <2>3
<1>9. ASSUME NEW h \in Handlers, NEW ok \in BOOLEAN,
             Complete(h, ok)
      PROVE  HttpInv'
  <2>1. MainInv' /\ OwnedInv' /\ HandlerIsLive'
    BY <1>9 DEF Complete
  <2>2. FreshInv'
    BY <1>9 DEF Complete
  <2>3. EventInv'
    BY <1>9 DEF Complete
  <2>4. ReadInv'
    BY <1>9 DEF Complete
  <2>5. CallbackFindsHandler'
    BY <1>9 DEF Complete
  <2>6. ClosedBelongsToWorker'
    BY <1>9 DEF Complete
  <2>7. OneWholeAnswer'
    BY <1>9 DEF Complete
  <2> QED
    BY <2>1, <2>2, <2>3, <2>4, <2>5, <2>6, <2>7
<1>10. ASSUME NEW h \in Handlers, ReadPiece(h) PROVE HttpInv'
  <2>1. FreshInv' /\ EventInv' /\ MainInv' /\ OwnedInv'
        /\ CallbackFindsHandler' /\ ClosedBelongsToWorker' /\ HandlerIsLive'
    BY <1>10 DEF ReadPiece
  <2>2. ReadInv'
    BY <1>10 DEF ReadPiece
  <2>3. OneWholeAnswer'
    BY <1>10 DEF ReadPiece
  <2> QED
    BY <2>1, <2>2, <2>3
<1>11. ASSUME NEW h \in Handlers, ReadPending(h) PROVE HttpInv'
  <2>1. MainInv' /\ OwnedInv' /\ HandlerIsLive'
    BY <1>11 DEF ReadPending
  <2>2. FreshInv'
    BY <1>11 DEF ReadPending
  <2>3. EventInv'
    BY <1>11 DEF ReadPending
  <2>4. ReadInv'
    BY <1>11 DEF ReadPending
  <2>5. CallbackFindsHandler'
    BY <1>11 DEF ReadPending
  <2>6. ClosedBelongsToWorker'
    BY <1>11 DEF ReadPending
  <2>7. OneWholeAnswer'
    BY <1>11 DEF ReadPending
  <2> QED
    BY <2>1, <2>2, <2>3, <2>4, <2>5, <2>6, <2>7
<1>12. ASSUME NEW h \in Handlers, ReadEnd(h) PROVE HttpInv'
  <2>1. MainInv' /\ OwnedInv' /\ HandlerIsLive'
    BY <1>12 DEF ReadEnd, Finished
  <2>2. FreshInv'
    BY <1>12 DEF ReadEnd, Finished
  <2>3. EventInv'
    BY <1>12 DEF ReadEnd, Finished
  <2>4. ReadInv'
    BY <1>12 DEF ReadEnd, Finished
  <2>5. CallbackFindsHandler'
    BY <1>12 DEF ReadEnd, Finished
  <2>6. ClosedBelongsToWorker'
    BY <1>12 DEF ReadEnd, Finished
  <2>7. OneWholeAnswer'
    BY <1>12 DEF ReadEnd, Finished
  <2> QED
    BY <2>1, <2>2, <2>3, <2>4, <2>5, <2>6, <2>7
<1>13. ASSUME NEW h \in Handlers, OnResponse(h) PROVE HttpInv'
  <2>1. MainInv' /\ OwnedInv' /\ HandlerIsLive'
    BY <1>13 DEF OnResponse
  <2>2. FreshInv'
    BY <1>13 DEF OnResponse
  <2>3. EventInv'
    BY <1>13 DEF OnResponse
  <2>4. ReadInv'
    BY <1>13 DEF OnResponse
  <2>5. CallbackFindsHandler'
    BY <1>13 DEF OnResponse
  <2>6. ClosedBelongsToWorker'
    BY <1>13 DEF OnResponse
  <2>7. OneWholeAnswer'
    BY <1>13 DEF OnResponse
  <2> QED
    BY <2>1, <2>2, <2>3, <2>4, <2>5, <2>6, <2>7
<1>14. ASSUME NEW h \in Handlers, HandleClosing(h) PROVE HttpInv'
  <2>1. HandlerIsLive'
    BY <1>14 DEF HandleClosing
  <2>2. FreshInv'
    BY <1>14 DEF HandleClosing
  <2>3. EventInv'
    <3> SUFFICES ASSUME NEW g \in Handlers PROVE EventInv!(g)'
      OBVIOUS
    <3>1. CASE g = h
      BY <1>14, <3>1 DEF HandleClosing
    <3>2. CASE g # h
      BY <1>14, <3>2 DEF HandleClosing
    <3> QED
      BY <3>1, <3>2
  <2>4. MainInv'
    BY <1>14 DEF HandleClosing
  <2>5. OwnedInv'
    BY <1>14 DEF HandleClosing
  <2>6. ReadInv'
    BY <1>14 DEF HandleClosing
  <2>7. CallbackFindsHandler'
    BY <1>14 DEF HandleClosing
  <2>8. ClosedBelongsToWorker'
    BY <1>14 DEF HandleClosing
  <2>9. OneWholeAnswer'
    BY <1>14 DEF HandleClosing
  <2> QED
    BY <2>1, <2>2, <2>3, <2>4, <2>5, <2>6, <2>7, <2>8, <2>9
<1>15. ASSUME NEW h \in Handlers, DeleteSelf(h) PROVE HttpInv'
  <2>1. FreshInv'
    BY <1>15 DEF DeleteSelf
  <2>2. EventInv'
    BY <1>15 DEF DeleteSelf
  <2>3. MainInv'
    BY <1>15 DEF DeleteSelf
  <2>4. OwnedInv'
    BY <1>15 DEF DeleteSelf
  <2>5. ReadInv'
    BY <1>15 DEF DeleteSelf
  <2>6. CallbackFindsHandler'
    BY <1>15 DEF DeleteSelf
  <2>7. ClosedBelongsToWorker'
    BY <1>15 DEF DeleteSelf
  <2>8. HandlerIsLive'
    BY <1>15 DEF DeleteSelf
  <2>9. OneWholeAnswer'
    BY <1>15 DEF DeleteSelf
  <2> QED
    BY <2>1, <2>2, <2>3, <2>4, <2>5, <2>6, <2>7, <2>8, <2>9
<1>16. CASE UNCHANGED vars
  BY <1>16 DEF vars
<1> QED
  BY <1>1, <1>2, <1>3, <1>4, <1>5, <1>6, <1>7, <1>8, <1>9, <1>10, <1>11, <1>12, <1>13, <1>14, <1>15, <1>16
     DEF Next, Use, Closing, Worker

LEMMA HttpInvariant == Spec => [](TypeOK /\ HttpInv)
<1>1. Init => TypeOK /\ HttpInv
  BY InitTypeOK, InitHttpInv
<1>2. TypeOK /\ HttpInv /\ [Next]_vars => (TypeOK /\ HttpInv)'
  BY NextTypeOK, NextHttpInv
<1> QED
  BY <1>1, <1>2, PTL DEF Spec

\* The variables keep their types; in particular a posted message names a
\* SyncHttp (that Handler::parent_ is set follows from HttpInv).
THEOREM TypeCorrect == Spec => []TypeOK
BY HttpInvariant, PTL

\* Whichever thread frees a Handler, WinINet has no call of it left to report:
\* InternetStatusCallback never casts dwContext to a freed object.
THEOREM FreedHandlersAreSilent == Spec => []CallbackFindsHandler
<1>1. HttpInv => CallbackFindsHandler
  BY DEF HttpInv
<1> QED
  BY <1>1, HttpInvariant, PTL

\* A Handler given up by Close2 is the worker thread's alone, and is not freed
\* under the feet of a callback.
THEOREM WorkerOwnsClosed == Spec => []ClosedBelongsToWorker
<1>1. HttpInv => ClosedBelongsToWorker
  BY DEF HttpInv
<1> QED
  BY <1>1, HttpInvariant, PTL

\* Each request posts at most one WM_USER, after its whole body was read.
THEOREM AnswersAreWhole == Spec => []OneWholeAnswer
<1>1. HttpInv => OneWholeAnswer
  BY DEF HttpInv
<1> QED
  BY <1>1, HttpInvariant, PTL

\* handler_ never points at a freed Handler or at another client's.
THEOREM HandlersAreLive == Spec => []HandlerIsLive
<1>1. HttpInv => HandlerIsLive
  BY DEF HttpInv
<1> QED
  BY <1>1, HttpInvariant, PTL

=============================================================================
