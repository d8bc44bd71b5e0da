---------------------------- MODULE HttpSession ----------------------------
(***************************************************************************)
(* HttpSession and HttpTask (tagpath/network/httpsession.cpp): requests    *)
(* that one thread, the application, starts, stops and releases, and that  *)
(* a work thread runs.  The application posts START and DELETE, which wait *)
(* in the work thread's queue; CANCELTASK and QUIT it sends: they are      *)
(* handled ahead of the queue while it waits.                              *)
(*                                                                         *)
(* talk_base, the library below, is not in the repository.  What the code  *)
(* expects of it: start() may fail at once; a running request completes,   *)
(* or its connection closes; reset() completes a running request before it *)
(* returns and does nothing to another; a connection kept after the end of *)
(* its request may close later; deleting a thread drops its queue.         *)
(***************************************************************************)
EXTENDS Naturals, Sequences, FiniteSets

CONSTANTS Tasks,  \* HttpTask objects, each started once
          Null

ASSUME SessionAssumption == Null \notin Tasks

VARIABLES
    manage,    \* manage_: the session deletes its tasks
    app,       \* [at, task]: the call the application is in
    queue,     \* what is posted to the work thread
    tasks,     \* tasks_
    started,   \* StartTask was called
    client,    \* client_: "idle", "running", "kept": idle, its connection still open
    complete,  \* complete_
    deleted,   \* the objects that are gone
    pool,      \* pool_ is there
    closed,    \* history: the connection closed under the running request
    late,      \* history: the connection closed after the request was complete
    released,  \* history: ReleaseTask has posted DELETE
    overtaken, \* history: ~HttpSession began with a START in the queue
    fault      \* "none", or what was used after it was freed

vars == <<manage, app, queue, tasks, started, client, complete, deleted, pool,
          closed, late, released, overtaken, fault>>

taskVars == <<tasks, client, complete, queue>>
history  == <<closed, late, released, overtaken>>

Msg(id, t) == [id |-> id, task |-> t]
Posted(m)  == \E i \in DOMAIN queue : queue[i] = m
At(a, t)   == [at |-> a, task |-> t]
Idle       == At("idle", Null)

------------------------------------------------------------------------------
(* What happens to a task on the work thread                                 *)

\* Mutant of Finish: the task stays in tasks_.
FinishKeeps(t, q) ==
    /\ tasks' = tasks
    /\ queue' = IF manage THEN Append(q, Msg("DELETE", t)) ELSE q

\* SignalTaskClose: OnTaskFinish.
Finish(t, q) ==
    /\ tasks' = tasks \ {t}
    /\ queue' = IF manage THEN Append(q, Msg("DELETE", t)) ELSE q

\* The request of t ends: OnHttpComplete, and the connection is kept or not.
End(t, q) ==
    /\ complete' = complete \cup {t}
    /\ \E c \in {"idle", "kept"} : client' = [client EXCEPT ![t] = c]
    /\ Finish(t, q)

\* client().reset() on the work thread, with q left in its queue.
Reset(t, q) ==
    IF client[t] = "running"
    THEN End(t, q)
    ELSE UNCHANGED <<tasks, client, complete>> /\ queue' = q

Fault(what) ==
    /\ fault' = what
    /\ UNCHANGED <<manage, app, taskVars, started, deleted, pool, history>>

------------------------------------------------------------------------------
(* The application                                                           *)

AppReady == fault = "none" /\ app = Idle

StartTask(t) ==
    /\ AppReady /\ t \notin started
    /\ started' = started \cup {t}
    /\ queue' = Append(queue, Msg("START", t))
    /\ UNCHANGED <<manage, app, tasks, client, complete, deleted, pool, history, fault>>

\* Only a session that manages its tasks may have deleted t by now.
StopTask(t) ==
    /\ AppReady /\ t \in started \ released
    /\ app' = At("stop", t)
    /\ UNCHANGED <<manage, taskVars, started, deleted, pool, history, fault>>

PostDelete(t) ==
    /\ queue' = Append(queue, Msg("DELETE", t))
    /\ released' = released \cup {t}
    /\ UNCHANGED <<tasks, client, complete, closed, late, overtaken>>

\* ReleaseTask up to its Send: done() is read here, the task may end meanwhile.
ReleaseTask(t) ==
    /\ AppReady /\ ~manage /\ t \in started \ released
    /\ \/ t \in complete /\ PostDelete(t) /\ UNCHANGED app
       \/ t \notin complete /\ app' = At("cancel", t) /\ UNCHANGED <<taskVars, history>>
    /\ UNCHANGED <<manage, started, deleted, pool, fault>>

\* ReleaseTask after its Send.
ReleaseCancelled ==
    /\ fault = "none" /\ app.at = "cancelled"
    /\ PostDelete(app.task)
    /\ app' = Idle
    /\ UNCHANGED <<manage, started, deleted, pool, fault>>

\* Mutant of Destroy: nothing is told to quit.
DestroyNoQuit ==
    /\ AppReady
    /\ app' = At("pool", Null)
    /\ overtaken' = \E t \in Tasks : Posted(Msg("START", t))
    /\ UNCHANGED <<manage, taskVars, started, deleted, pool, closed, late, released, fault>>

\* ~HttpSession reads tasks_ on the application's thread.
Destroy ==
    /\ AppReady
    /\ app' = IF tasks # {} THEN At("quit", Null) ELSE At("pool", Null)
    /\ overtaken' = \E t \in Tasks : Posted(Msg("START", t))
    /\ UNCHANGED <<manage, taskVars, started, deleted, pool, closed, late, released, fault>>

DeletePool ==
    /\ fault = "none" /\ app.at = "pool"
    /\ pool' = FALSE
    /\ app' = At("thread", Null)
    /\ UNCHANGED <<manage, taskVars, started, deleted, history, fault>>

\* Mutant of EndWorkThread: what was posted outlives the thread.
EndWorkThreadKeeps ==
    /\ fault = "none" /\ app.at = "thread"
    /\ app' = At("gone", Null)
    /\ UNCHANGED <<manage, taskVars, started, deleted, pool, history, fault>>

\* EndWorkThread.
EndWorkThread ==
    /\ fault = "none" /\ app.at = "thread"
    /\ app' = At("gone", Null)
    /\ queue' = <<>>
    /\ UNCHANGED <<manage, tasks, client, complete, started, deleted, pool, history, fault>>

------------------------------------------------------------------------------
(* The work thread                                                           *)

Working == fault = "none" /\ app.at # "gone"

\* OnMessage, MSG_HS_CANCELTASK, and the sender goes on.
Cancel ==
    LET t == app.task IN
    /\ Working /\ app.at \in {"stop", "cancel"}
    /\ \/ t \in deleted /\ Fault("freed task")
       \/ /\ t \notin deleted
          /\ Reset(t, queue)
          /\ app' = IF app.at = "cancel" THEN At("cancelled", t) ELSE Idle
          /\ UNCHANGED <<manage, started, deleted, pool, history, fault>>

\* OnMessage, MSG_HS_QUIT: one round of the loop, or its end.
Quit ==
    /\ Working /\ app.at = "quit"
    /\ \/ tasks = {} /\ app' = At("pool", Null) /\ UNCHANGED taskVars
       \/ /\ UNCHANGED app
          /\ \E t \in tasks : Reset(t, queue)
    /\ UNCHANGED <<manage, started, deleted, pool, history, fault>>

\* Mutant of Start: the request is started before the task is listed.
StartUnlisted ==
    LET t == Head(queue).task  q == Tail(queue) IN
    /\ Working /\ queue # <<>> /\ Head(queue).id = "START"
    /\ \/ ~pool /\ Fault("freed pool")
       \/ /\ pool
          /\ tasks' = tasks \cup {t}
          /\ \/ /\ client' = [client EXCEPT ![t] = "running"]
                /\ queue' = q
                /\ UNCHANGED complete
             \/ /\ complete' = complete \cup {t}
                /\ queue' = IF manage THEN Append(q, Msg("DELETE", t)) ELSE q
                /\ UNCHANGED client
          /\ UNCHANGED <<manage, app, started, deleted, pool, history, fault>>

\* OnMessage, MSG_HS_START: start() leaves the request running, or ends it at once.
Start ==
    LET t == Head(queue).task  q == Tail(queue) IN
    /\ Working /\ queue # <<>> /\ Head(queue).id = "START"
    /\ \/ ~pool /\ Fault("freed pool")
       \/ /\ pool
          /\ \/ /\ tasks' = tasks \cup {t}
                /\ client' = [client EXCEPT ![t] = "running"]
                /\ queue' = q
                /\ UNCHANGED complete
             \/ End(t, q)
          /\ UNCHANGED <<manage, app, started, deleted, pool, history, fault>>

\* OnMessage, MSG_HS_DELETE.
Delete ==
    LET t == Head(queue).task IN
    /\ Working /\ queue # <<>> /\ Head(queue).id = "DELETE"
    /\ \/ t \in deleted /\ Fault("freed task")
       \/ client[t] = "running" /\ ~pool /\ Fault("freed pool")
       \/ /\ t \notin deleted /\ (client[t] = "running" => pool)
          /\ Reset(t, Tail(queue))
          /\ deleted' = deleted \cup {t}
          /\ UNCHANGED <<manage, app, started, pool, history, fault>>

\* A running request completes; its connection goes back to the pool.
Complete(t) ==
    /\ Working /\ t \notin deleted /\ client[t] = "running"
    /\ \/ ~pool /\ Fault("freed pool")
       \/ /\ pool
          /\ End(t, queue)
          /\ UNCHANGED <<manage, app, started, deleted, pool, history, fault>>

\* OnHttpClosed, for a running request or for a connection that was kept.
Closed(t) ==
    /\ Working /\ t \notin deleted /\ client[t] # "idle"
    /\ client' = [client EXCEPT ![t] = "idle"]
    /\ IF client[t] = "running"
       THEN closed' = closed \cup {t} /\ UNCHANGED late
       ELSE late' = late \cup {t} /\ UNCHANGED closed
    /\ Finish(t, queue)
    /\ UNCHANGED <<manage, app, complete, started, deleted, pool, released, overtaken, fault>>

------------------------------------------------------------------------------
Init ==
    /\ manage \in BOOLEAN
    /\ app = Idle
    /\ queue = <<>>
    /\ tasks = {} /\ started = {} /\ complete = {} /\ deleted = {}
    /\ client = [t \in Tasks |-> "idle"]
    /\ pool = TRUE
    /\ closed = {} /\ late = {} /\ released = {} /\ overtaken = FALSE
    /\ fault = "none"

Application ==
    \/ ReleaseCancelled
    \/ DeletePool
    \/ EndWorkThread

Worker ==
    \/ Cancel
    \/ Quit
    \/ Start
    \/ Delete

Next ==
    \/ \E t \in Tasks : StartTask(t) \/ StopTask(t) \/ ReleaseTask(t)
    \/ Destroy
    \/ Application
    \/ Worker
    \/ \E t \in Tasks : Complete(t) \/ Closed(t)

\* Both threads go on with what they have begun; the network owes nothing.
Fairness == WF_vars(Application) /\ WF_vars(Cancel \/ Quit) /\ WF_vars(Start \/ Delete)

Spec == Init /\ [][Next]_vars /\ Fairness

------------------------------------------------------------------------------
(* Properties                                                                *)

\* The variables keep their types; a deleted thread leaves no message behind.
TypeOK ==
    /\ manage \in BOOLEAN
    /\ app \in [at : {"idle", "stop", "cancel", "cancelled", "quit", "pool", "thread", "gone"},
                task : Tasks \cup {Null}]
    /\ app.at \in {"stop", "cancel", "cancelled"} <=> app.task # Null
    /\ queue \in Seq([id : {"START", "DELETE"}, task : started])
    /\ app.at = "gone" => queue = <<>>
    /\ tasks \subseteq started /\ started \subseteq Tasks
    /\ client \in [Tasks -> {"idle", "running", "kept"}]
    /\ complete \subseteq started /\ deleted \subseteq started
    /\ closed \subseteq started /\ late \subseteq started /\ released \subseteq started
    /\ pool = (app.at \notin {"thread", "gone"})
    /\ overtaken \in BOOLEAN
    /\ fault \in {"none", "freed task", "freed pool"}

Ended(t) == t \in complete \cup closed

\* As long as the work thread is there a task is in exactly one place: in the
\* queue to be started, in tasks_, or ended, whatever call came in between.  tasks_
\* has the tasks that run: ~HttpSession finds them all and its QUIT loop can end
\* (httpsession.cpp:134, 219); a task that ReleaseTask found not done and that is
\* not in tasks_ is still to be started, or has just ended (httpsession.cpp:182);
\* StopTask leaves a task ended unless it overtook its START (httpsession.cpp:166);
\* and one is deleted not done only if its connection closed under it (86).
Accounted ==
    app.at # "gone" => \A t \in started :
        /\ t \in tasks <=> client[t] = "running"
        /\ Posted(Msg("START", t)) => t \notin tasks /\ ~Ended(t)
        /\ t \in tasks => ~Ended(t)
        /\ Posted(Msg("START", t)) \/ t \in tasks \/ Ended(t)
        /\ t \in deleted => Ended(t)

\* A task is not used after it was deleted, with two exceptions, both in a session
\* that manages its tasks: StopTask, which cannot know that it is gone, and a
\* connection that closes after the request was complete, which makes OnTaskFinish
\* post DELETE again (httpsession.cpp:259).  The pool is not used after it was
\* deleted unless ~HttpSession overtook a START (httpsession.cpp:134).
SafeUse ==
    /\ fault = "freed task" => manage /\ (app.at = "stop" \/ late # {})
    /\ fault = "freed pool" => overtaken
    /\ ~pool /\ (\E t \in Tasks \ deleted : client[t] = "running") => overtaken

\* What was begun ends: ReleaseTask and ~HttpSession return, QUIT included, and a
\* task that is released, or that ended in a session that manages its tasks, is
\* deleted, unless ~HttpSession comes first (httpsession.cpp:178, 219).
Settles ==
    /\ app.at # "idle" ~> app.at \in {"idle", "gone"} \/ fault # "none"
    /\ \A t \in Tasks :
        t \in released \/ (manage /\ Ended(t))
            ~> t \in deleted \/ app.at = "gone" \/ fault # "none"
==============================================================================
