--------------------------- MODULE SiteTaskProofs ---------------------------
(***************************************************************************)
(* Proofs about SiteTask, for any number of tasks, requests and actions:   *)
(* every step is a step of HttpClient, so that HttpInv holds; with it      *)
(* SiteInv is inductive; and from SiteInv follow that the answers in the   *)
(* queue are current and that a SiteTask implements ActionSequence.        *)
(***************************************************************************)
EXTENDS SiteTask, HttpClientProofs

LEMMA TailMembers ==
  ASSUME NEW S, NEW q \in Seq(S), q # <<>>
  PROVE  /\ 1 \in DOMAIN q /\ Head(q) = q[1] /\ Head(q) \in S
         /\ \A i \in DOMAIN Tail(q) :
              i \in Nat /\ i + 1 \in DOMAIN q /\ i + 1 # 1 /\ Tail(q)[i] = q[i + 1]
<1>1. /\ Len(q) \in Nat \ {0} /\ DOMAIN q = 1..Len(q)
      /\ DOMAIN Tail(q) = 1..(Len(q) - 1)
  BY HeadTailProperties, LenProperties, EmptySeq
<1>2. Head(q) = q[1] /\ \A i \in 1..(Len(q) - 1) : Tail(q)[i] = q[i + 1]
  BY HeadTailProperties
<1>3. q[1] \in S
  BY <1>1, ElementOfSeq
<1> QED
  BY <1>1, <1>2, <1>3

LEMMA AppendMembers ==
  ASSUME NEW S, NEW q \in Seq(S), NEW m \in S
  PROVE  \A i \in DOMAIN Append(q, m) :
           \/ i \in DOMAIN q /\ Append(q, m)[i] = q[i]
           \/ i = Len(q) + 1 /\ i \notin DOMAIN q /\ Append(q, m)[i] = m
BY AppendProperties, LenProperties

LEMMA StepIsHttpStep == [SiteNext]_allVars => [Next]_vars
<1> SUFFICES ASSUME [SiteNext]_allVars PROVE [Next]_vars
  OBVIOUS
<1>1. ASSUME NEW c \in Clients, Start(c) PROVE Next
  BY <1>1 DEF Start, Next, Use
<1>2. ASSUME NEW c \in Clients, Step(c) PROVE [Next]_vars
  <2>1. CASE BuildRequest(c)
    BY <2>1 DEF BuildRequest, Next, Use
  <2>2. CASE ProcessSent(c)
    BY <2>2 DEF ProcessSent
  <2>3. CASE NextAction(c)
    BY <2>3 DEF NextAction, Next, Use
  <2>4. CASE LastResponse(c)
    BY <2>4 DEF LastResponse
  <2>5. CASE Free(c)
    BY <2>5 DEF Free, Next, Use
  <2> QED
    BY <1>2, <2>1, <2>2, <2>3, <2>4, <2>5 DEF Step
<1>3. CASE OnHttpResponse
  BY <1>3 DEF OnHttpResponse, Next
<1>4. CASE Closing
  BY <1>4 DEF Next
<1>5. ASSUME NEW h \in Handlers, Worker(h) PROVE Next
  BY <1>5 DEF Next
<1>6. CASE UNCHANGED allVars
  BY <1>6 DEF allVars
<1> QED
  BY <1>1, <1>2, <1>3, <1>4, <1>5, <1>6 DEF SiteNext

LEMMA InitSite == SiteInit => SiteTypeOK /\ HttpInv /\ SiteInv
<1> SUFFICES ASSUME SiteInit PROVE SiteTypeOK /\ HttpInv /\ SiteInv
  OBVIOUS
<1>1. TypeOK /\ HttpInv
  BY InitTypeOK, InitHttpInv DEF SiteInit
<1>2. SiteTypeOK
  BY <1>1, SiteAssumption, EmptySeq DEF SiteInit, SiteTypeOK
<1>3. ProgressInv
  BY DEF SiteInit, Init, ProgressInv
<1>4. RequestInv
  BY HttpAssumption DEF SiteInit, Init, RequestInv, Alive
<1>5. QueueInv
  BY EmptySeq DEF SiteInit, Init, QueueInv
<1>6. EndInv
  BY DEF SiteInit, Init, EndInv, Idle
<1> QED
  BY <1>1, <1>2, <1>3, <1>4, <1>5, <1>6 DEF SiteInv

\* The message being dispatched is the answer its task waits for.
LEMMA HeadIsCurrent ==
  ASSUME TypeOK, HttpInv, SiteInv, OnHttpResponse
  PROVE  LET c == Head(queue).to IN
         /\ c \in Clients /\ mpc' = "idle"
         /\ handler[c] = Head(queue).from /\ posts[handler[c]] = 1
         /\ handler[c] \in Handlers
         /\ state[c] = "START" /\ sent[c] /\ blocked[c]
         /\ ~done[c] /\ Len(answered[c]) = curact[c]
<1> DEFINE c == Head(queue).to
<1>1. queue # <<>> /\ queue \in Seq(Messages)
  BY DEF OnHttpResponse, Dispatch, TypeOK
<1>2. 1 \in DOMAIN queue /\ Head(queue) = queue[1] /\ Head(queue) \in Messages
  BY <1>1, TailMembers, Zenon
<1>3. c \in Clients /\ Head(queue).from \in Handlers
  BY <1>2 DEF Messages
<1>4. /\ posts[Head(queue).from] = 1 /\ handler[c] = Head(queue).from
      /\ state[c] = "START" /\ sent[c] /\ blocked[c]
  BY <1>2 DEF SiteInv, QueueInv
<1>5. Alive(c) /\ handler[c] # None
  BY <1>3, <1>4, HttpAssumption DEF HttpInv, HandlerIsLive
<1>6. mpc' = "idle"
  BY <1>4, <1>5 DEF OnHttpResponse, Dispatch
<1>7. ~done[c] /\ Len(answered[c]) = curact[c]
  BY <1>3, <1>4 DEF SiteInv, ProgressInv
<1> QED
  BY <1>3, <1>4, <1>6, <1>7

LEMMA NextSiteTypeOK ==
  SiteTypeOK /\ HttpInv /\ SiteInv /\ [SiteNext]_allVars => SiteTypeOK'
<1> SUFFICES ASSUME SiteTypeOK, HttpInv, SiteInv, [SiteNext]_allVars
             PROVE  SiteTypeOK'
  OBVIOUS
<1>0. TypeOK'
  BY StepIsHttpStep, NextTypeOK DEF SiteTypeOK
<1> USE <1>0, SiteAssumption DEF SiteTypeOK, siteVars
<1>1. ASSUME NEW c \in Clients, Start(c) PROVE SiteTypeOK'
  BY <1>1 DEF Start
<1>2. ASSUME NEW c \in Clients, Step(c) PROVE SiteTypeOK'
  <2>1. CASE BuildRequest(c)
    BY <2>1 DEF BuildRequest
  <2>2. CASE ProcessSent(c)
    BY <2>2 DEF ProcessSent
  <2>3. CASE NextAction(c)
    BY <2>3 DEF NextAction
  <2>4. CASE LastResponse(c)
    BY <2>4 DEF LastResponse
  <2>5. CASE Free(c)
    BY <2>5 DEF Free
  <2> QED
    BY <1>2, <2>1, <2>2, <2>3, <2>4, <2>5 DEF Step
<1>3. CASE OnHttpResponse
  <2> DEFINE c == Head(queue).to
  <2>1. c \in Clients /\ mpc' = "idle"
    BY <1>3, HeadIsCurrent
  <2>2. /\ answered' = [answered EXCEPT ![c] = Append(@, curact[c])]
        /\ blocked' = [blocked EXCEPT ![c] = state[c] = "DONE"]
        /\ UNCHANGED <<state, sent, curact, done>>
    BY <1>3, <2>1 DEF OnHttpResponse
  <2>3. Append(answered[c], curact[c]) \in Seq(0..LastAction)
    <3>1. answered[c] \in Seq(0..LastAction) /\ curact[c] \in 0..LastAction
      BY <2>1
    <3> QED
      BY <3>1, AppendProperties, Zenon
  <2>4. answered' \in [Clients -> Seq(0..LastAction)]
    BY <2>1, <2>2, <2>3, Zenon
  <2> QED
    BY <2>1, <2>2, <2>4
<1>4. CASE UNCHANGED siteVars
  BY <1>4
<1> QED
  BY <1>1, <1>2, <1>3, <1>4 DEF SiteNext, allVars

\* The steps of the task c itself, and of its answer, keep its bookkeeping.
LEMMA NextProgressInv ==
  SiteTypeOK /\ SiteTypeOK' /\ HttpInv /\ SiteInv /\ [SiteNext]_allVars => ProgressInv'
<1> SUFFICES ASSUME SiteTypeOK, SiteTypeOK', HttpInv, SiteInv, [SiteNext]_allVars
             PROVE  ProgressInv'
  OBVIOUS
<1> USE SiteAssumption DEF SiteTypeOK, siteVars, ProgressInv, SiteInv
<1>0. TypeOK
  OBVIOUS
<1>1. ASSUME NEW c \in Clients, Start(c) PROVE ProgressInv'
  BY <1>1 DEF Start, Construct, TypeOK
<1>2. ASSUME NEW c \in Clients, Step(c) PROVE ProgressInv'
  <2>0. \A d \in Clients : client'[d] = "none" <=> client[d] = "none"
    <3>1. CASE BuildRequest(c)
      BY <3>1 DEF BuildRequest, Prepare
    <3>2. CASE NextAction(c)
      BY <3>2 DEF NextAction, Close
    <3>3. CASE Free(c)
      <4>1. client' = client \/ client' = [client EXCEPT ![c] = "gone"]
        BY <3>3 DEF Free, Delete, Gone, clientVars
      <4>2. client[c] = "alive"
        BY <3>3 DEF Free, Delete, Alive
      <4> QED
        BY <4>1, <4>2 DEF TypeOK
    <3>4. CASE ProcessSent(c) \/ LastResponse(c)
      BY <3>4 DEF ProcessSent, LastResponse, vars, clientVars
    <3> QED
      BY <1>2, <3>1, <3>2, <3>3, <3>4 DEF Step
  <2>1. CASE BuildRequest(c)
    BY <2>0, <2>1 DEF BuildRequest
  <2>2. CASE ProcessSent(c)
    BY <2>0, <2>2 DEF ProcessSent, Runnable
  <2>3. CASE NextAction(c)
    BY <2>0, <2>3 DEF NextAction, Runnable
  <2>4. CASE LastResponse(c)
    BY <2>0, <2>4 DEF LastResponse
  <2>5. CASE Free(c)
    BY <2>0, <2>5 DEF Free
  <2> QED
    BY <1>2, <2>1, <2>2, <2>3, <2>4, <2>5 DEF Step
<1>3. CASE OnHttpResponse
  <2> DEFINE c == Head(queue).to
  <2>1. /\ c \in Clients /\ mpc' = "idle" /\ client' = client
        /\ state[c] = "START" /\ sent[c] /\ blocked[c] /\ Len(answered[c]) = curact[c]
    BY <1>3, HeadIsCurrent DEF OnHttpResponse, Dispatch, clientVars
  <2>2. /\ answered' = [answered EXCEPT ![c] = Append(@, curact[c])]
        /\ blocked' = [blocked EXCEPT ![c] = state[c] = "DONE"]
        /\ UNCHANGED <<state, sent, curact, done>>
    BY <1>3, <2>1 DEF OnHttpResponse
  <2>3. Len(Append(answered[c], curact[c])) = curact[c] + 1
    <3>1. answered[c] \in Seq(0..LastAction) /\ curact[c] \in 0..LastAction
      BY <2>1
    <3> QED
      BY <2>1, <3>1, AppendProperties
  <2>4. Len(answered'[c]) = curact[c] + 1 /\ ~blocked'[c]
    BY <2>1, <2>2, <2>3
  <2>5. \A d \in Clients \ {c} : answered'[d] = answered[d] /\ blocked'[d] = blocked[d]
    BY <2>1, <2>2
  <2> HIDE DEF c
  <2>6. SUFFICES ASSUME NEW d \in Clients PROVE ProgressInv!(d)'
    OBVIOUS
  <2>7. CASE d = c
    BY <2>1, <2>2, <2>4, <2>7
  <2>8. CASE d # c
    BY <2>1, <2>2, <2>5, <2>8
  <2> QED
    BY <2>7, <2>8
<1>4. CASE UNCHANGED siteVars /\ (Closing \/ \E h \in Handlers : Worker(h))
  <2>1. \A d \in Clients : client'[d] = "none" <=> client[d] = "none"
    <3>1. CASE CloseRequest \/ CloseConn
      BY <3>1 DEF CloseRequest, CloseConn, clientVars
    <3>2. CASE Deleted
      <4>1. parent[mh] \in Clients /\ Alive(parent[mh])
        BY <3>2, HttpAssumption
           DEF Deleted, HttpInv, MainInv, ClosedBelongsToWorker, HandlerIsLive, TypeOK
      <4> QED
        BY <3>2, <4>1 DEF Deleted, Gone, Alive, TypeOK
    <3>3. ASSUME NEW h \in Handlers, Worker(h) PROVE client' = client
      BY <3>3 DEF Worker, Complete, ReadPiece, ReadPending, ReadEnd, OnResponse,
                  HandleClosing, DeleteSelf, clientVars
    <3> QED
      BY <1>4, <3>1, <3>2, <3>3 DEF Closing
  <2> QED
    BY <1>4, <2>1
<1>5. CASE UNCHANGED allVars
  BY <1>5 DEF allVars, vars, clientVars
<1> QED
  BY <1>1, <1>2, <1>3, <1>4, <1>5 DEF SiteNext

\* Only the request a task waits for is still to be answered.
LEMMA NextRequestInv ==
  SiteTypeOK /\ SiteTypeOK' /\ HttpInv /\ SiteInv /\ [SiteNext]_allVars => RequestInv'
<1> SUFFICES ASSUME SiteTypeOK, SiteTypeOK', HttpInv, SiteInv, [SiteNext]_allVars
             PROVE  RequestInv'
  OBVIOUS
<1> USE HttpAssumption, SiteAssumption
    DEF SiteTypeOK, TypeOK, siteVars, clientVars, objectVars, workerVars, SiteInv,
        RequestInv, Alive
<1>1. ASSUME NEW c \in Clients, Start(c) PROVE RequestInv'
  <2>1. handler[c] = None /\ ~sent[c]
    BY <1>1 DEF Start, Construct, HttpInv, HandlerIsLive, ProgressInv
  <2> QED
    BY <1>1, <2>1 DEF Start, Construct
<1>2. ASSUME NEW c \in Clients, Step(c) PROVE RequestInv'
  <2>1. CASE BuildRequest(c)
    <3>1. PICK h \in Handlers, o \in Outcomes, b \in 0..MaxBody : Prepare(c, h, o, b)
      BY <2>1 DEF BuildRequest
    <3>2. /\ handler' = [handler EXCEPT ![c] = h] /\ life' = [life EXCEPT ![h] = "live"]
          /\ parent' = [parent EXCEPT ![h] = c] /\ UNCHANGED <<client, posts>>
      BY <3>1 DEF Prepare
    <3>3. /\ sent' = [sent EXCEPT ![c] = TRUE] /\ blocked' = [blocked EXCEPT ![c] = TRUE]
          /\ state[c] = "START" /\ state' = state
      BY <2>1 DEF BuildRequest
    <3>4. \A g \in Handlers \ {h} : life[g] = "live" /\ posts[g] = 0 => parent[g] # c
      BY <3>1 DEF Prepare
    <3> QED
      BY <3>2, <3>3, <3>4
  <2>2. CASE ProcessSent(c)
    BY <2>2 DEF ProcessSent, Runnable, vars
  <2>3. CASE NextAction(c)
    <3>1. handler[c] \in Handlers /\ posts[handler[c]] # 0
      BY <2>3 DEF NextAction, Close
    <3>2. /\ handler' = [handler EXCEPT ![c] = None]
          /\ life' = life \/ life' = [life EXCEPT ![handler[c]] = "deleted"]
          /\ UNCHANGED <<client, parent, posts, blocked>>
          /\ sent' = [sent EXCEPT ![c] = FALSE]
          /\ state' = [state EXCEPT ![c] = "START"]
      BY <2>3 DEF NextAction, Close
    <3> QED
      BY <3>1, <3>2
  <2>4. CASE LastResponse(c)
    BY <2>4 DEF LastResponse, Runnable, vars
  <2>5. CASE Free(c)
    <3>1. handler[c] # None => posts[handler[c]] # 0
      BY <2>5 DEF Free
    <3>2. /\ UNCHANGED <<parent, posts, blocked, sent, state>>
          /\ \/ UNCHANGED <<client, handler, life>>
             \/ /\ client' = [client EXCEPT ![c] = "gone"]
                /\ handler' = [handler EXCEPT ![c] = None]
                /\ \/ life' = life
                   \/ handler[c] # None /\ life' = [life EXCEPT ![handler[c]] = "deleted"]
      BY <2>5 DEF Free, Delete, Gone
    <3>3. CASE UNCHANGED <<client, handler, life>>
      BY <3>2, <3>3
    <3>4. CASE /\ client' = [client EXCEPT ![c] = "gone"]
               /\ handler' = [handler EXCEPT ![c] = None]
      <4>1. \A h \in Handlers : life'[h] = "live" => life[h] = "live" /\ parent[h] \in Clients
        BY <3>2 DEF HttpInv, FreshInv
      <4> QED
        BY <3>1, <3>2, <3>4, <4>1
    <3> QED
      BY <3>2, <3>3, <3>4
  <2> QED
    BY <1>2, <2>1, <2>2, <2>3, <2>4, <2>5 DEF Step
<1>3. CASE OnHttpResponse
  <2> DEFINE c == Head(queue).to
  <2>1. c \in Clients /\ mpc' = "idle" /\ posts[handler[c]] = 1
    BY <1>3, HeadIsCurrent
  <2>2. /\ blocked' = [blocked EXCEPT ![c] = state[c] = "DONE"]
        /\ UNCHANGED <<state, sent, client, handler, life, parent, posts>>
    BY <1>3, <2>1 DEF OnHttpResponse, Dispatch
  <2> HIDE DEF c
  <2> QED
    BY <2>1, <2>2
<1>4. CASE UNCHANGED siteVars /\ Closing
  <2>1. CASE CloseRequest \/ CloseConn
    BY <1>4, <2>1 DEF CloseRequest, CloseConn
  <2>2. CASE Deleted
    <3> DEFINE c == parent[mh]
    <3>1. c \in Clients /\ handler[c] = mh /\ mh \in Handlers
      BY <2>2 DEF Deleted, HttpInv, MainInv
    <3>2. /\ client' = [client EXCEPT ![c] = "gone"]
          /\ handler' = [handler EXCEPT ![c] = None]
          /\ life' = [life EXCEPT ![mh] = "deleted"] /\ UNCHANGED <<parent, posts>>
      BY <2>2 DEF Deleted, Gone
    <3> QED
      BY <1>4, <3>1, <3>2
  <2> QED
    BY <1>4, <2>1, <2>2 DEF Closing
<1>5. ASSUME UNCHANGED siteVars, NEW h \in Handlers, Worker(h) PROVE RequestInv'
  <2>1. CASE OnResponse(h)
    BY <1>5, <2>1 DEF OnResponse
  <2>2. CASE DeleteSelf(h)
    BY <1>5, <2>2 DEF DeleteSelf
  <2>3. CASE UNCHANGED <<clientVars, objectVars, posts>>
    BY <1>5, <2>3
  <2> QED
    BY <1>5, <2>1, <2>2, <2>3 DEF Worker, Complete, ReadPiece, ReadPending, ReadEnd, HandleClosing
<1>6. CASE UNCHANGED allVars
  BY <1>6 DEF allVars, vars
<1> QED
  BY <1>1, <1>2, <1>3, <1>4, <1>5, <1>6 DEF SiteNext

\* A queued message stays the answer its task waits for.
LEMMA NextQueueInv ==
  SiteTypeOK /\ SiteTypeOK' /\ HttpInv /\ SiteInv /\ [SiteNext]_allVars => QueueInv'
<1> SUFFICES ASSUME SiteTypeOK, SiteTypeOK', HttpInv, SiteInv, [SiteNext]_allVars
             PROVE  QueueInv'
  OBVIOUS
<1> USE HttpAssumption DEF siteVars, clientVars, objectVars, workerVars, SiteInv, QueueInv
<1>0. /\ queue \in Seq(Messages)
      /\ \A i \in DOMAIN queue : queue[i].to \in Clients /\ queue[i].from \in Handlers
  <2>1. queue \in Seq(Messages)
    BY DEF SiteTypeOK, TypeOK
  <2>2. \A i \in DOMAIN queue : queue[i] \in Messages
    BY <2>1, ElementOfSeq, LenProperties
  <2> QED
    BY <2>1, <2>2 DEF Messages
<1>a. /\ handler \in [Clients -> Handlers \cup {None}] /\ posts \in [Handlers -> Nat]
      /\ state \in [Clients -> {"none", "START", "RESPONSE", "DONE"}]
      /\ sent \in [Clients -> BOOLEAN] /\ blocked \in [Clients -> BOOLEAN]
  BY DEF SiteTypeOK, TypeOK
<1>1. ASSUME NEW c \in Clients, Start(c) PROVE QueueInv'
  <2>1. state[c] = "none"
    BY <1>1 DEF Start, Construct, ProgressInv
  <2> QED
    BY <1>0, <1>a, <1>1, <2>1 DEF Start, Construct
<1>2. ASSUME NEW c \in Clients, Step(c) PROVE QueueInv'
  <2>1. CASE BuildRequest(c)
    BY <1>0, <1>a, <2>1 DEF BuildRequest, Prepare
  <2>2. CASE ProcessSent(c)
    BY <1>0, <1>a, <2>2 DEF ProcessSent, Runnable, vars
  <2>3. CASE NextAction(c)
    BY <1>0, <1>a, <2>3 DEF NextAction, Close
  <2>4. CASE LastResponse(c)
    BY <1>0, <1>a, <2>4 DEF LastResponse, vars
  <2>5. CASE Free(c)
    <3>1. /\ UNCHANGED <<posts, blocked, sent, state>> /\ state[c] = "DONE"
          /\ \/ UNCHANGED <<queue, handler>>
             \/ /\ queue' = queue \/ queue' = <<>>
                /\ handler' = [handler EXCEPT ![c] = None]
      BY <2>5 DEF Free, Delete, Gone
    <3>2. DOMAIN <<>> = {}
      OBVIOUS
    <3> QED
      BY <1>0, <1>a, <3>1, <3>2
  <2> QED
    BY <1>2, <2>1, <2>2, <2>3, <2>4, <2>5 DEF Step
<1>3. CASE OnHttpResponse
  <2> DEFINE c == Head(queue).to
  <2>1. c \in Clients /\ mpc' = "idle" /\ handler[c] = Head(queue).from
    BY <1>3, HeadIsCurrent DEF SiteTypeOK
  <2>2. /\ blocked' = [blocked EXCEPT ![c] = state[c] = "DONE"]
        /\ UNCHANGED <<state, sent, handler, posts>>
        /\ queue # <<>> /\ queue' = Tail(queue)
    BY <1>3, <2>1 DEF OnHttpResponse, Dispatch
  <2>3. /\ 1 \in DOMAIN queue /\ Head(queue) = queue[1]
        /\ \A i \in DOMAIN queue' :
             i \in Nat /\ i + 1 \in DOMAIN queue /\ i + 1 # 1 /\ queue'[i] = queue[i + 1]
    BY <1>0, <2>2, TailMembers
  <2>4. \A i \in DOMAIN queue' : queue'[i].to # c
    BY <1>0, <2>1, <2>3
  <2>5. \A i, j \in DOMAIN queue' : i + 1 = j + 1 => i = j
    BY <2>3
  <2> HIDE DEF c
  <2> QED
    BY <1>0, <1>a, <2>1, <2>2, <2>3, <2>4, <2>5
<1>4. CASE UNCHANGED siteVars /\ Closing
  <2>1. CASE CloseRequest \/ CloseConn
    BY <1>4, <2>1 DEF CloseRequest, CloseConn
  <2>2. CASE Deleted
    <3> DEFINE c == parent[mh]
    <3>1. c \in Clients /\ state[c] = "DONE"
      BY <2>2 DEF Deleted, HttpInv, MainInv, EndInv, Idle, Running
    <3>2. /\ queue' = queue \/ queue' = <<>>
          /\ handler' = [handler EXCEPT ![c] = None] /\ posts' = posts
      BY <2>2 DEF Deleted, Gone
    <3>3. DOMAIN <<>> = {}
      OBVIOUS
    <3> QED
      BY <1>0, <1>a, <1>4, <3>1, <3>2, <3>3
  <2> QED
    BY <1>4, <2>1, <2>2 DEF Closing
<1>5. ASSUME UNCHANGED siteVars, NEW h \in Handlers, Worker(h) PROVE QueueInv'
  <2>1. CASE OnResponse(h)
    <3>1. /\ posts[h] = 0 /\ parent[h] \in Clients /\ handler[parent[h]] = h
      BY <2>1, <1>0, <1>a
         DEF OnResponse, HttpInv, ReadInv, FreshInv, RequestInv, SiteTypeOK, TypeOK
    <3>2. state[parent[h]] = "START" /\ sent[parent[h]] /\ blocked[parent[h]]
      BY <3>1 DEF RequestInv
    <3>3. CASE queue' = queue
      BY <1>0, <1>a, <1>5, <2>1, <3>1, <3>3 DEF OnResponse
    <3>4. CASE queue' = Append(queue, [to |-> parent[h], from |-> h])
      <4> DEFINE m == [to |-> parent[h], from |-> h]
      <4>0. m \in Messages /\ m.to = parent[h] /\ m.from = h
        BY <3>1 DEF Messages
      <4>1. CASE Destroying(h)
        BY <1>0, <1>a, <1>5, <2>1, <4>1 DEF OnResponse
      <4>2. CASE ~Destroying(h)
        <5>1. posts' = [posts EXCEPT ![h] = @ + 1] /\ handler' = handler
          BY <2>1, <4>2 DEF OnResponse
        <5>2. \A i \in DOMAIN queue' :
                \/ i \in DOMAIN queue /\ queue'[i] = queue[i] /\ queue'[i].from # h
                \/ i = Len(queue) + 1 /\ i \notin DOMAIN queue /\ queue'[i] = m
          BY <1>0, <3>1, <3>4, <4>0, AppendMembers
        <5>3. \A i \in DOMAIN queue :
                posts[queue[i].from] = 1 /\ queue[i].from # h /\ posts'[queue[i].from] = 1
          BY <1>0, <1>a, <3>1, <5>1
        <5> HIDE DEF m
        <5>4. SUFFICES ASSUME NEW i \in DOMAIN queue' PROVE QueueInv!(i)'
          OBVIOUS
        <5>5. CASE i \in DOMAIN queue
          BY <1>0, <1>5, <4>0, <5>1, <5>2, <5>3, <5>5
        <5>6. CASE queue'[i] = m /\ i = Len(queue) + 1
          BY <1>0, <1>a, <1>5, <3>1, <3>2, <4>0, <5>1, <5>2, <5>6
        <5> QED
          BY <5>2, <5>5, <5>6
      <4> QED
        BY <4>1, <4>2
    <3> QED
      BY <2>1, <3>3, <3>4 DEF OnResponse
  <2>2. CASE UNCHANGED <<clientVars, queue, posts>>
    BY <1>5, <2>2
  <2> QED
    BY <1>5, <2>1, <2>2 DEF Worker, Complete, ReadPiece, ReadPending, ReadEnd, HandleClosing, DeleteSelf
<1>6. CASE UNCHANGED allVars
  BY <1>6 DEF allVars, vars
<1> QED
  BY <1>1, <1>2, <1>3, <1>4, <1>5, <1>6 DEF SiteNext

\* A SyncHttp is destroyed with its task, when that is done.
LEMMA NextEndInv ==
  SiteTypeOK /\ HttpInv /\ SiteInv /\ [SiteNext]_allVars => EndInv'
<1> SUFFICES ASSUME SiteTypeOK, HttpInv, SiteInv, [SiteNext]_allVars
             PROVE  EndInv'
  OBVIOUS
<1> USE HttpAssumption
    DEF SiteTypeOK, TypeOK, siteVars, mainVars, objectVars, handleVars, SiteInv, EndInv,
        Idle, Running
<1>1. ASSUME NEW c \in Clients, Start(c) PROVE EndInv'
  BY <1>1 DEF Start, Construct
<1>2. ASSUME NEW c \in Clients, Step(c) PROVE EndInv'
  <2>1. CASE BuildRequest(c)
    BY <2>1 DEF BuildRequest, Prepare
  <2>2. CASE ProcessSent(c)
    BY <2>2 DEF ProcessSent, Runnable, vars
  <2>3. CASE NextAction(c)
    BY <2>3 DEF NextAction, Close
  <2>4. CASE LastResponse(c)
    BY <2>4 DEF LastResponse, Runnable, vars
  <2>5. CASE Free(c)
    BY <2>5 DEF Free, Delete, HttpInv, HandlerIsLive
  <2> QED
    BY <1>2, <2>1, <2>2, <2>3, <2>4, <2>5 DEF Step
<1>3. CASE OnHttpResponse
  BY <1>3, HeadIsCurrent
<1>4. CASE UNCHANGED siteVars /\ Closing
  BY <1>4 DEF Closing, CloseRequest, CloseConn, Deleted
<1>5. ASSUME UNCHANGED siteVars, NEW h \in Handlers, Worker(h) PROVE EndInv'
  BY <1>5 DEF Worker, Complete, ReadPiece, ReadPending, ReadEnd, OnResponse,
              HandleClosing, DeleteSelf
<1>6. CASE UNCHANGED allVars
  BY <1>6 DEF allVars, vars
<1> QED
  BY <1>1, <1>2, <1>3, <1>4, <1>5, <1>6 DEF SiteNext

LEMMA SiteInvariant == SiteSpec => [](SiteTypeOK /\ HttpInv /\ SiteInv)
<1> DEFINE IInv == SiteTypeOK /\ HttpInv /\ SiteInv
<1>1. SiteInit => IInv
  BY InitSite
<1>2. IInv /\ [SiteNext]_allVars => IInv'
  <2> SUFFICES ASSUME IInv, [SiteNext]_allVars PROVE IInv'
    OBVIOUS
  <2>1. SiteTypeOK'
    BY NextSiteTypeOK
  <2>2. HttpInv'
    BY <2>1, StepIsHttpStep, NextHttpInv DEF SiteTypeOK
  <2>3. SiteInv'
    BY <2>1, NextProgressInv, NextRequestInv, NextQueueInv, NextEndInv DEF SiteInv
  <2> QED
    BY <2>1, <2>2, <2>3
<1> QED
  BY <1>1, <1>2, PTL DEF SiteSpec

\* The variables of the site engine and of its HTTP client keep their types.
THEOREM SiteTypeCorrect == SiteSpec => []SiteTypeOK
BY SiteInvariant, PTL

\* A WM_USER in the queue always names a task that still waits for exactly the
\* request that posted it: SyncHttp::Response finds the right Handler.
THEOREM QueuedAnswersAreCurrent == SiteSpec => []AnswersAreCurrent
<1>1. SiteInv => AnswersAreCurrent
  BY DEF SiteInv, QueueInv, AnswersAreCurrent
<1> QED
  BY <1>1, SiteInvariant, PTL

\* What a waiting task has: a Handler of its own that nobody is closing.
LEMMA WaitingFacts ==
  ASSUME SiteTypeOK, HttpInv, SiteInv, NEW c \in Clients,
         Alive(c), state[c] = "START", blocked[c]
  PROVE  /\ handler[c] \in Handlers /\ parent[handler[c]] = c
         /\ life[handler[c]] = "live"
         /\ Running => /\ event[handler[c]] = "null" /\ ~Destroying(handler[c])
                       /\ req[handler[c]] # "closing" /\ conn[handler[c]] # "closing"
         /\ \A d \in Clients : handler[d] = handler[c] => d = c
<1> USE HttpAssumption DEF SiteTypeOK, TypeOK, SiteInv, HttpInv
<1>1. sent[c] /\ handler[c] # None
  BY DEF ProgressInv, RequestInv
<1>2. handler[c] \in Handlers /\ parent[handler[c]] = c /\ life[handler[c]] = "live"
  BY <1>1 DEF HandlerIsLive
<1>3. \A d \in Clients : handler[d] = handler[c] => d = c
  BY <1>1, <1>2 DEF HandlerIsLive
<1>4. ~deleteSelf[handler[c]]
  BY <1>2 DEF ClosedBelongsToWorker
<1>5. ASSUME Running, ~Idle PROVE mh # handler[c]
  BY <1>2, <1>4, <1>5 DEF EndInv
<1>6. ASSUME Running PROVE event[handler[c]] = "null" /\ ~Destroying(handler[c])
  BY <1>1, <1>5, <1>6 DEF OwnedInv, Destroying
<1> QED
  BY <1>2, <1>3, <1>6 DEF EventInv

\* No step leaves a waiting task without a request, a reader or an answer.
LEMMA NextWaitingIsServed ==
  /\ SiteTypeOK /\ SiteTypeOK' /\ HttpInv /\ SiteInv /\ SiteInv'
  /\ WaitingIsServed /\ [SiteNext]_allVars
  => WaitingIsServed'
<1> SUFFICES ASSUME SiteTypeOK, SiteTypeOK', HttpInv, SiteInv, SiteInv',
                    WaitingIsServed, [SiteNext]_allVars,
                    NEW c \in Clients, Alive(c)', state'[c] = "START", blocked'[c]
             PROVE  \/ io'[handler'[c]] \in {"pending", "failed"}
                    \/ wpc'[handler'[c]] \in {"read", "post"}
                    \/ \E i \in DOMAIN queue' : queue'[i].from = handler'[c]
  BY DEF WaitingIsServed
<1> DEFINE Served(h) == \/ io[h] \in {"pending", "failed"}
                        \/ wpc[h] \in {"read", "post"}
                        \/ \E i \in DOMAIN queue : queue[i].from = h
<1>0. /\ handler \in [Clients -> Handlers \cup {None}]
      /\ io \in [Handlers -> {"none", "pending", "failed"}]
      /\ wpc \in [Handlers -> {"out", "read", "post", "closing"}]
      /\ client \in [Clients -> {"none", "alive", "gone"}]
      /\ state \in [Clients -> {"none", "START", "RESPONSE", "DONE"}]
      /\ blocked \in [Clients -> BOOLEAN] /\ queue \in Seq(Messages)
  BY DEF SiteTypeOK, TypeOK
<1>W. ASSUME Alive(c), state[c] = "START", blocked[c]
      PROVE  /\ Served(handler[c])
             /\ handler[c] \in Handlers /\ parent[handler[c]] = c
             /\ Running => /\ event[handler[c]] = "null" /\ ~Destroying(handler[c])
                           /\ req[handler[c]] # "closing" /\ conn[handler[c]] # "closing"
             /\ \A d \in Clients : handler[d] = handler[c] => d = c
  BY <1>W, WaitingFacts DEF WaitingIsServed
<1> USE DEF siteVars, clientVars, objectVars, workerVars, handleVars
<1>1. ASSUME NEW d \in Clients, Start(d) PROVE Served(handler[c])'
  <2>1. c # d
    <3>1. ~blocked[d]
      BY <1>1 DEF Start, Construct, SiteInv, ProgressInv
    <3> QED
      BY <1>1, <3>1 DEF Start
  <2> QED
    BY <1>0, <1>1, <1>W, <2>1 DEF Start, Construct, Alive
<1>2. ASSUME NEW d \in Clients, Step(d) PROVE Served(handler[c])'
  <2>1. CASE BuildRequest(d)
    <3>1. PICK h \in Handlers, o \in Outcomes, b \in 0..MaxBody : Prepare(d, h, o, b)
      BY <2>1 DEF BuildRequest
    <3>2. CASE c = d
      BY <1>0, <3>1, <3>2 DEF Prepare
    <3>3. CASE c # d
      <4>1. Alive(c) /\ state[c] = "START" /\ blocked[c]
        BY <1>0, <2>1, <3>1, <3>3 DEF BuildRequest, Prepare, Alive
      <4>2. handler[c] # h
        BY <3>1, <4>1, WaitingFacts DEF Prepare
      <4> QED
        BY <1>0, <1>W, <3>1, <3>3, <4>1, <4>2 DEF Prepare
    <3> QED
      BY <3>2, <3>3
  <2>2. CASE ProcessSent(d)
    BY <1>0, <1>W, <2>2 DEF ProcessSent, vars, Alive
  <2>3. CASE NextAction(d)
    <3>1. c # d
      BY <2>3 DEF NextAction, Runnable
    <3> QED
      BY <1>0, <1>W, <2>3, <3>1 DEF NextAction, Close, Alive
  <2>4. CASE LastResponse(d)
    BY <1>0, <1>W, <2>4 DEF LastResponse, vars, Alive
  <2>5. CASE Free(d)
    <3>1. c # d /\ state[c] = "START" /\ blocked[c]
      BY <2>5 DEF Free
    <3>2. Alive(c) /\ handler'[c] = handler[c] /\ queue' = queue
      BY <1>0, <2>5, <3>1 DEF Free, Delete, Gone, Alive
    <3> QED
      BY <1>W, <2>5, <3>1, <3>2 DEF Free, Delete
  <2> QED
    BY <1>2, <2>1, <2>2, <2>3, <2>4, <2>5 DEF Step
<1>3. CASE OnHttpResponse
  <2> DEFINE d == Head(queue).to
  <2>1. d \in Clients /\ mpc' = "idle" /\ handler[d] = Head(queue).from /\ state[d] = "START"
    BY <1>3, HeadIsCurrent DEF SiteTypeOK
  <2>2. /\ blocked' = [blocked EXCEPT ![d] = state[d] = "DONE"]
        /\ UNCHANGED <<state, client, handler, io, wpc>>
        /\ queue # <<>> /\ queue' = Tail(queue)
    BY <1>3, <2>1 DEF OnHttpResponse, Dispatch
  <2>3. c # d /\ Alive(c) /\ state[c] = "START" /\ blocked[c]
    BY <1>0, <2>1, <2>2 DEF Alive
  <2>4. handler[d] # handler[c]
    BY <1>W, <2>1, <2>3
  <2>5. ASSUME NEW i \in DOMAIN queue, queue[i].from = handler[c]
        PROVE  \E j \in DOMAIN Tail(queue) : Tail(queue)[j].from = handler[c]
    <3>1. i # 1
      BY <1>0, <2>1, <2>2, <2>4, <2>5, TailMembers
    <3>2. i - 1 \in DOMAIN Tail(queue) /\ Tail(queue)[i - 1] = queue[i]
      BY <1>0, <2>2, <3>1, HeadTailProperties, LenProperties
    <3> QED
      BY <2>5, <3>2
  <2> HIDE DEF d
  <2> QED
    BY <1>W, <2>2, <2>3, <2>5
<1>4. CASE UNCHANGED siteVars /\ Closing
  <2>0. state[c] = "START" /\ blocked[c]
    BY <1>4
  <2>1. CASE CloseRequest \/ CloseConn
    BY <1>W, <2>0, <2>1 DEF CloseRequest, CloseConn, Alive
  <2>2. CASE Deleted
    <3>1. parent[mh] \in Clients /\ state[parent[mh]] = "DONE"
      BY <2>2 DEF Deleted, HttpInv, MainInv, SiteInv, EndInv, Idle, Running
    <3>2. Alive(c) /\ handler'[c] = handler[c] /\ queue' = queue
      BY <1>0, <2>0, <2>2, <3>1 DEF Deleted, Gone, Alive
    <3> QED
      BY <1>W, <2>0, <2>2, <3>2 DEF Deleted
  <2> QED
    BY <1>4, <2>1, <2>2 DEF Closing
<1>5. ASSUME UNCHANGED siteVars, NEW h \in Handlers, Worker(h) PROVE Served(handler[c])'
  <2>1. UNCHANGED clientVars
    BY <1>5 DEF Worker, Complete, ReadPiece, ReadPending, ReadEnd, OnResponse,
                HandleClosing, DeleteSelf
  <2>2. Alive(c) /\ state[c] = "START" /\ blocked[c]
    BY <1>5, <2>1 DEF Alive
  <2>3. Running
    BY <1>5 DEF Worker, Complete, ReadPiece, ReadPending, ReadEnd, OnResponse,
                HandleClosing, DeleteSelf
  <2>4. CASE h # handler[c]
    <3>1. io'[handler[c]] = io[handler[c]] /\ wpc'[handler[c]] = wpc[handler[c]]
      BY <1>0, <1>5, <1>W, <2>2, <2>4
         DEF Worker, Complete, ReadPiece, ReadPending, ReadEnd, OnResponse,
             HandleClosing, DeleteSelf
    <3>2. CASE queue' = queue
      BY <1>W, <2>1, <2>2, <3>1, <3>2
    <3>3. CASE queue' = Append(queue, [to |-> parent[h], from |-> h])
      <4>1. \A i \in DOMAIN queue : i \in DOMAIN queue' /\ queue'[i] = queue[i]
        <5> DEFINE m == [to |-> parent[h], from |-> h]
        <5>1. CASE m \in Messages
          BY <1>0, <3>3, <5>1, AppendProperties, LenProperties
        <5>2. queue' \in Seq(Messages) /\ Len(queue) \in Nat
          BY <1>0, LenProperties DEF SiteTypeOK, TypeOK
        <5> HIDE DEF m
        <5> QED
          BY <1>0, <3>3, <5>2
      <4> QED
        BY <1>W, <2>1, <2>2, <3>1, <4>1
    <3> QED
      BY <1>5, <3>2, <3>3 DEF Worker, Complete, ReadPiece, ReadPending, ReadEnd,
                              OnResponse, HandleClosing, DeleteSelf
  <2>5. CASE h = handler[c]
    <3>0. event[h] = "null" /\ ~Destroying(h) /\ parent[h] = c
      BY <1>W, <2>2, <2>3, <2>5
    <3>1. CASE \E ok \in BOOLEAN : Complete(h, ok)
      BY <1>0, <2>1, <2>5, <3>0, <3>1 DEF Complete
    <3>2. CASE ReadPiece(h)
      BY <1>W, <2>2, <2>5, <3>2 DEF ReadPiece
    <3>3. CASE ReadPending(h)
      BY <1>0, <2>1, <2>5, <3>3 DEF ReadPending
    <3>4. CASE ReadEnd(h)
      BY <1>0, <2>1, <2>5, <3>0, <3>4 DEF ReadEnd, Finished
    <3>5. CASE OnResponse(h)
      <4> DEFINE m == [to |-> c, from |-> h]
      <4>1. queue' = Append(queue, m)
        BY <2>2, <3>0, <3>5 DEF OnResponse, Window
      <4>2. m \in Messages /\ m.from = h
        BY DEF Messages
      <4> HIDE DEF m
      <4>3. Len(queue) + 1 \in DOMAIN queue' /\ queue'[Len(queue) + 1] = m
        BY <1>0, <4>1, <4>2, AppendProperties, LenProperties
      <4> QED
        BY <2>1, <2>5, <4>2, <4>3
    <3>6. CASE HandleClosing(h)
      BY <1>W, <2>2, <2>3, <2>5, <3>6 DEF HandleClosing
    <3>7. CASE DeleteSelf(h)
      BY <1>0, <1>W, <2>1, <2>2, <2>5, <3>7 DEF DeleteSelf
    <3> QED
      BY <1>5, <3>1, <3>2, <3>3, <3>4, <3>5, <3>6, <3>7 DEF Worker
  <2> QED
    BY <2>4, <2>5
<1>6. CASE UNCHANGED allVars
  BY <1>6, <1>W DEF allVars, vars, Alive
<1> QED
  BY <1>1, <1>2, <1>3, <1>4, <1>5, <1>6 DEF SiteNext

\* A task that waits is never forgotten: its request is with WinINet, being
\* read or answered in the queue, or has failed.  The answer is lost neither
\* to a Handler closed meanwhile ("race condition ?" in RequestComplete) nor
\* with the window of another task.
THEOREM WaitersAreServed == SiteSpec => []WaitingIsServed
<1>1. SiteInit => WaitingIsServed
  BY DEF SiteInit, WaitingIsServed
<1>2. /\ SiteTypeOK /\ SiteTypeOK' /\ HttpInv /\ SiteInv /\ SiteInv'
      /\ WaitingIsServed /\ [SiteNext]_allVars
      => WaitingIsServed'
  BY NextWaitingIsServed
<1> QED
  BY <1>1, <1>2, SiteInvariant, PTL DEF SiteSpec

\* A step of a SiteTask, its HTTP client or a worker thread answers the next
\* action of one task, ends a task all of whose actions are answered, or is
\* invisible.
LEMMA StepIsSequenceStep ==
  SiteTypeOK /\ HttpInv /\ SiteInv /\ [SiteNext]_allVars
    => [Sequence!Next]_<<answered, done>>
<1> SUFFICES ASSUME SiteTypeOK, HttpInv, SiteInv, [SiteNext]_allVars
             PROVE  [Sequence!Next]_<<answered, done>>
  OBVIOUS
<1>1. ASSUME NEW c \in Clients, Start(c) PROVE UNCHANGED <<answered, done>>
  BY <1>1 DEF Start
<1>2. ASSUME NEW c \in Clients, LastResponse(c) PROVE Sequence!Next
  <2>1. ~done[c] /\ Len(answered[c]) = LastAction + 1
    BY <1>2 DEF LastResponse, SiteInv, ProgressInv
  <2>2. Sequence!Finish(c)
    BY <1>2, <2>1 DEF LastResponse, Sequence!Finish
  <2> QED
    BY <2>2 DEF Sequence!Next
<1>3. ASSUME NEW c \in Clients, Step(c), ~LastResponse(c) PROVE UNCHANGED <<answered, done>>
  BY <1>3 DEF Step, BuildRequest, ProcessSent, NextAction, Free, siteVars
<1>4. CASE OnHttpResponse
  <2> DEFINE c == Head(queue).to
  <2>1. /\ c \in Clients /\ mpc' = "idle"
        /\ ~done[c] /\ Len(answered[c]) = curact[c]
    BY <1>4, HeadIsCurrent DEF SiteTypeOK
  <2>2. answered' = [answered EXCEPT ![c] = Append(@, curact[c])] /\ done' = done
    BY <1>4, <2>1 DEF OnHttpResponse
  <2>3. Len(answered[c]) <= LastAction
    BY <2>1, SiteAssumption DEF SiteTypeOK
  <2>4. Sequence!Answer(c)
    BY <2>1, <2>2, <2>3 DEF Sequence!Answer
  <2> QED
    BY <2>1, <2>4 DEF Sequence!Next
<1>5. CASE UNCHANGED siteVars
  BY <1>5 DEF siteVars
<1> QED
  BY <1>1, <1>2, <1>3, <1>4, <1>5 DEF SiteNext, allVars

\* SiteTasks implement ActionSequence: for any site, any number of tasks and
\* requests, the actions are answered in order, each once, and SignalDone
\* comes after the last answer.
THEOREM SiteTasksFollowSequence == SiteSpec => ActionsInOrder
<1>1. SiteInit => Sequence!Init
  BY DEF SiteInit, Sequence!Init
<1>2. SiteTypeOK /\ HttpInv /\ SiteInv /\ [SiteNext]_allVars
        => [Sequence!Next]_<<answered, done>>
  BY StepIsSequenceStep
<1> QED
  BY <1>1, <1>2, SiteInvariant, PTL DEF SiteSpec, ActionsInOrder, Sequence!Spec
=============================================================================
