------------------------------ MODULE SiteTask ------------------------------
(***************************************************************************)
(* SiteTask and its base GeneralTask (studio/engine/infoengine.h, .cpp): a *)
(* task that performs the actions of a site, one HTTP request each, over   *)
(* the SyncHttp it owns.  The client c of HttpClient is http_ of task c.   *)
(*                                                                         *)
(* Of the scheduler only this is kept (see TaskRunner): Process of a task  *)
(* that is not blocked is called on the window thread, BLOCKED holds it    *)
(* until Wake, and a task that is done is deleted.                         *)
(***************************************************************************)
EXTENDS HttpClient

CONSTANT LastAction    \* site_.actions().size() - 1

ASSUME SiteAssumption == LastAction \in Nat

VARIABLES
  state,        \* "none" before Start; state_, or "DONE" when done_
  blocked,      \* blocked_ of Task
  sent,         \* sent_
  curact,       \* curact_
  answered,     \* the actions SignalActionResponse was emitted for
  done          \* has SignalDone been emitted

siteVars == <<state, blocked, sent, curact, answered, done>>
allVars  == <<vars, siteVars>>

Runnable(c) == Idle /\ Alive(c) /\ ~blocked[c]

\* new SiteTask, Start, and the first step of the task.
Start(c) ==
  /\ Construct(c)
  /\ state' = [state EXCEPT ![c] = "START"]
  /\ UNCHANGED <<blocked, sent, curact, answered, done>>

\* Mutant of BuildRequest: the task does not wait for the answer.
BuildRequestGoesOn(c) ==
  /\ Runnable(c) /\ state[c] = "START" /\ ~sent[c]
  /\ \E h \in Handlers, o \in Outcomes, b \in 0..MaxBody : Prepare(c, h, o, b)
  /\ sent' = [sent EXCEPT ![c] = TRUE]
  /\ UNCHANGED <<state, blocked, curact, answered, done>>

\* GeneralTask::ProcessStart, first time: the request of curact_ is sent, and
\* the task waits for the answer (even when PrepareGet failed).
BuildRequest(c) ==
  /\ Runnable(c) /\ state[c] = "START" /\ ~sent[c]
  /\ \E h \in Handlers, o \in Outcomes, b \in 0..MaxBody : Prepare(c, h, o, b)
  /\ sent' = [sent EXCEPT ![c] = TRUE]
  /\ blocked' = [blocked EXCEPT ![c] = TRUE]
  /\ UNCHANGED <<state, curact, answered, done>>

\* GeneralTask::ProcessStart, woken up.
ProcessSent(c) ==
  /\ Runnable(c) /\ state[c] = "START" /\ sent[c]
  /\ state' = [state EXCEPT ![c] = "RESPONSE"]
  /\ UNCHANGED <<vars, blocked, sent, curact, answered, done>>

\* Mutant of NextAction: goes on after the last action.
NextActionBeyond(c) ==
  /\ Runnable(c) /\ state[c] = "RESPONSE"
  /\ curact' = [curact EXCEPT ![c] = @ + 1]
  /\ sent' = [sent EXCEPT ![c] = FALSE]
  /\ Close(c)
  /\ state' = [state EXCEPT ![c] = "START"]
  /\ UNCHANGED <<blocked, answered, done>>

\* SiteTask::ProcessResponse before the last action: the request is closed and
\* the next action begins.
NextAction(c) ==
  /\ Runnable(c) /\ state[c] = "RESPONSE" /\ curact[c] # LastAction
  /\ curact' = [curact EXCEPT ![c] = @ + 1]
  /\ sent' = [sent EXCEPT ![c] = FALSE]
  /\ Close(c)
  /\ state' = [state EXCEPT ![c] = "START"]
  /\ UNCHANGED <<blocked, answered, done>>

\* Mutant of LastResponse: off by one.
LastResponseEarly(c) ==
  /\ Runnable(c) /\ state[c] = "RESPONSE" /\ curact[c] + 1 >= LastAction
  /\ done' = [done EXCEPT ![c] = TRUE]
  /\ state' = [state EXCEPT ![c] = "DONE"]
  /\ blocked' = [blocked EXCEPT ![c] = TRUE]
  /\ UNCHANGED <<vars, sent, curact, answered>>

\* SiteTask::ProcessResponse after the last action: SignalDone; the request
\* stays open.
LastResponse(c) ==
  /\ Runnable(c) /\ state[c] = "RESPONSE" /\ curact[c] = LastAction
  /\ done' = [done EXCEPT ![c] = TRUE]
  /\ state' = [state EXCEPT ![c] = "DONE"]
  /\ blocked' = [blocked EXCEPT ![c] = TRUE]
  /\ UNCHANGED <<vars, sent, curact, answered>>

\* The scheduler deletes the task, and with it http_.
Free(c) ==
  /\ state[c] = "DONE"
  /\ Delete(c)
  /\ UNCHANGED siteVars

\* Mutant of OnHttpResponse: does not call Wake.
OnHttpResponseNoWake ==
  /\ Dispatch
  /\ IF mpc' = "undefined" THEN UNCHANGED siteVars
     ELSE LET c == Head(queue).to IN
          /\ answered' = [answered EXCEPT ![c] = Append(@, curact[c])]
          /\ UNCHANGED <<state, blocked, sent, curact, done>>

\* WM_USER reaches GeneralTask::OnHttpResponse: GotResponse, then Wake.
OnHttpResponse ==
  /\ Dispatch
  /\ IF mpc' = "undefined" THEN UNCHANGED siteVars
     ELSE LET c == Head(queue).to IN
          /\ answered' = [answered EXCEPT ![c] = Append(@, curact[c])]
          /\ blocked' = [blocked EXCEPT ![c] = state[c] = "DONE"]
          /\ UNCHANGED <<state, sent, curact, done>>

\* Task::Abort, called from outside: the task is done, without SignalDone.
Abort(c) ==
  /\ Idle /\ Alive(c) /\ state[c] # "DONE"
  /\ state' = [state EXCEPT ![c] = "DONE"]
  /\ blocked' = [blocked EXCEPT ![c] = TRUE]
  /\ UNCHANGED <<vars, sent, curact, answered, done>>

Step(c) ==
  BuildRequest(c) \/ ProcessSent(c) \/ NextAction(c) \/ LastResponse(c) \/ Free(c)

SiteInit ==
  /\ Init
  /\ state = [c \in Clients |-> "none"]
  /\ blocked = [c \in Clients |-> FALSE]
  /\ sent = [c \in Clients |-> FALSE]
  /\ curact = [c \in Clients |-> 0]
  /\ answered = [c \in Clients |-> <<>>]
  /\ done = [c \in Clients |-> FALSE]

SiteNext ==
  \/ \E c \in Clients : Start(c) \/ Step(c)
  \/ OnHttpResponse
  \/ Closing /\ UNCHANGED siteVars
  \/ \E h \in Handlers : Worker(h) /\ UNCHANGED siteVars

SiteSpec == SiteInit /\ [][SiteNext]_allVars

\* With Task::Abort, which nothing in the studio calls on a SiteTask but the
\* scheduler, when the parent of the task is done.
AbortSpec == SiteInit /\ [][SiteNext \/ \E c \in Clients : Abort(c)]_allVars

\* As in HttpClient, and the scheduler steps every task that may run.
SiteFairness ==
  /\ WF_allVars(Closing /\ UNCHANGED siteVars) /\ WF_allVars(OnHttpResponse)
  /\ \A c \in Clients : WF_allVars(Step(c))
  /\ \A h \in Handlers : /\ WF_allVars(Worker(h) /\ UNCHANGED siteVars)
                         /\ SF_allVars(ReadPiece(h) /\ UNCHANGED siteVars)

FairSiteSpec == SiteSpec /\ SiteFairness
-----------------------------------------------------------------------------
(* Properties.                                                             *)

SiteTypeOK ==
  /\ TypeOK
  /\ state \in [Clients -> {"none", "START", "RESPONSE", "DONE"}]
  /\ blocked \in [Clients -> BOOLEAN]
  /\ sent \in [Clients -> BOOLEAN]
  /\ curact \in [Clients -> 0..LastAction]
  /\ answered \in [Clients -> Seq(0..LastAction)]
  /\ done \in [Clients -> BOOLEAN]

\* Every WM_USER in the queue is the answer to the request the task is
\* waiting for, so that Response hands over the right content.
AnswersAreCurrent ==
  \A i \in DOMAIN queue :
    LET m == queue[i] IN handler[m.to] = m.from /\ state[m.to] = "START" /\ sent[m.to]

\* "Called from outside to stop task without any more callbacks" (Abort,
\* task.h:39): no WM_USER reaches the SyncHttp of a task that is done.
AbortIsSilent ==
  [][\A c \in Clients : OnHttpResponse /\ Head(queue).to = c => state[c] # "DONE"]_allVars

\* A waiting task is not forgotten: its request is with WinINet, in the hands
\* of the worker thread, or answered in the queue, or it has failed.
WaitingIsServed ==
  \A c \in Clients : Alive(c) /\ state[c] = "START" /\ blocked[c] =>
    LET h == handler[c] IN
      \/ io[h] \in {"pending", "failed"}
      \/ wpc[h] \in {"read", "post"}
      \/ \E i \in DOMAIN queue : queue[i].from = h

Sequence == INSTANCE ActionSequence WITH Tasks <- Clients, Last <- LastAction

\* A SiteTask does what ActionSequence promises, whatever the worker thread,
\* the window thread and the other tasks do meanwhile.
ActionsInOrder == Sequence!Spec

\* When no request fails, a task that was started performs all its actions
\* and is freed with its request.  (That the behaviour stays defined is a
\* premise because of the read in DeleteSelf: the end of one task may bring
\* down the others.)
EveryTaskFinishes ==
  ([] (Running /\ \A h \in Handlers : io[h] # "failed"))
    => \A c \in Clients : state[c] = "START" ~> client[c] = "gone"
-----------------------------------------------------------------------------
(* The inductive invariant behind them.                                    *)

\* Where a task is says how many actions have been answered.
ProgressInv ==
  \A c \in Clients :
    /\ state[c] = "none" => /\ client[c] = "none" /\ ~blocked[c] /\ ~sent[c]
                            /\ ~done[c] /\ curact[c] = 0 /\ answered[c] = <<>>
    /\ client[c] = "none" => state[c] = "none"
    /\ state[c] = "START" =>
         /\ ~done[c] /\ (blocked[c] => sent[c])
         /\ Len(answered[c]) =
              IF sent[c] /\ ~blocked[c] THEN curact[c] + 1 ELSE curact[c]
    /\ state[c] = "RESPONSE" =>
         ~done[c] /\ sent[c] /\ ~blocked[c] /\ Len(answered[c]) = curact[c] + 1
    /\ state[c] = "DONE" =>
         done[c] /\ blocked[c] /\ Len(answered[c]) = LastAction + 1

\* Only the request a task waits for may not have posted its answer yet.
RequestInv ==
  /\ \A c \in Clients : handler[c] # None /\ posts[handler[c]] = 0 =>
       state[c] = "START" /\ sent[c] /\ blocked[c]
  /\ \A c \in Clients : Alive(c) /\ handler[c] = None => ~sent[c]
  /\ \A h \in Handlers : life[h] = "live" /\ posts[h] = 0 => handler[parent[h]] = h

\* A queued message is the one answer to the request its task waits for.
QueueInv ==
  \A i \in DOMAIN queue :
    /\ LET m == queue[i] IN
         /\ posts[m.from] = 1 /\ handler[m.to] = m.from
         /\ state[m.to] = "START" /\ sent[m.to] /\ blocked[m.to]
    /\ \A j \in DOMAIN queue : queue[i].from = queue[j].from => i = j

\* ~SyncHttp runs only for a task that is done.
EndInv ==
  ~Idle /\ Running /\ ~deleteSelf[mh] => state[parent[mh]] = "DONE"

SiteInv == ProgressInv /\ RequestInv /\ QueueInv /\ EndInv
=============================================================================
