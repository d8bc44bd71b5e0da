----------------------------- MODULE TaskRunner -----------------------------
(***************************************************************************)
(* The cooperative scheduler of infostudio: class Task and class           *)
(* TaskRunner (studio/base/task.h, task.cpp), driven by the window         *)
(* messages of WindowRunner (studio/engine/wndrunner.h).                   *)
(*                                                                         *)
(* Everything runs on one thread.  User code (a message handler, or a      *)
(* Process/OnTimeout callback of the task being stepped) may call the      *)
(* public operations of any task; between two pieces of user code the      *)
(* library runs on its own.  "pc" says who has the thread:                 *)
(*    "idle"     the message loop: a handler may run, or a WM_WAKETASK     *)
(*    "scan"     the stepping loop of RunTasks                             *)
(*    "process"  inside Process of task tasks[cur] (its busy_ flag is set) *)
(*    "sweep"    the deletion loop of RunTasks                             *)
(*    "dead"     ~TaskRunner has returned                                  *)
(* so tasks_running_ is pc \in {"scan","process","sweep"}.                 *)
(***************************************************************************)
EXTENDS Naturals, Sequences, SequencesExt

CONSTANTS
  Tasks,      \* the Task objects the program may create
  Runner,     \* the TaskRunner, parent of the top-level tasks
  NoTask,     \* a NULL Task pointer
  Usage,      \* which questionable calls user code makes, see UsageKinds
  TimedTasks, \* the tasks whose timeout operations user code calls
  Seconds,    \* values passed to set_timeout_seconds
  MaxWakes,   \* bound: WM_WAKETASK messages waiting in the queue
  MaxTime     \* bound: the clock stops there

\* "abortBusy": Abort on a task that is executing, or on an ancestor of it.
UsageKinds == {"abortBusy"}

ASSUME TasksAssumption ==
  /\ Runner \notin Tasks
  /\ NoTask \notin Tasks \cup {Runner}
ASSUME BoundsAssumption ==
  /\ Usage \subseteq UsageKinds
  /\ TimedTasks \subseteq Tasks
  /\ Seconds \subseteq Nat
  /\ MaxWakes \in Nat
  /\ MaxTime \in Nat

VARIABLES
  life,       \* "none", "live" or "deleted": has the object been created, freed
  parent,     \* parent_
  children,   \* children_, of each task and of the runner
  childError, \* child_error_
  state,      \* state_
  blocked,    \* blocked_
  done,       \* done_
  aborted,    \* aborted_
  error,      \* error_
  tasks,      \* TaskRunner::tasks_
  pc, cur,    \* who has the thread; the loop index into tasks_
  didRun,     \* did_run of RunTasks
  recalc,     \* need_timeout_recalc of RunTasks
  dying,      \* ~TaskRunner has been entered
  wakes,      \* WM_WAKETASK messages in the queue
  now,        \* CurrentTime(), 0 means "no time" in timeout_time_
  seconds,    \* timeout_seconds_
  due,        \* timeout_time_
  suspended,  \* timeout_suspended_
  next        \* next_timeout_task_

treeVars  == <<parent, children, childError>>
flagVars  == <<state, blocked, done, aborted, error>>
loopVars  == <<pc, cur, didRun, recalc, dying>>
timerVars == <<seconds, due, suspended, next>>
vars == <<life, treeVars, flagVars, tasks, loopVars, wakes, now, timerVars>>

States == {"INIT", "START", "RESPONSE", "DONE", "ERROR"}
BLOCKED == "BLOCKED"    \* returned by Process, never stored in state_
Parents == Tasks \cup {Runner}

\* Mutant of HasError: error_ is also set by Abort.
HasErrorFlag(t) == error[t]

Live(t)    == life[t] = "live"
Started(t) == Contains(tasks, t)
HasError(t) == state[t] = "ERROR"
Running    == IF pc = "process" THEN tasks[cur] ELSE NoTask    \* busy_
UserCode   == pc \in {"idle", "process"} /\ ~dying
-----------------------------------------------------------------------------
(* Timeouts.                                                               *)

\* TimedOut
TimedOut(t) == seconds[t] # 0 /\ due[t] # 0 /\ now > due[t]

\* The task RecalcNextTimeout(ex) selects when the deadlines are d: the last
\* of the tasks in the list with the nearest deadline.
RecalcNext(ex, d) ==
  LET cand == {k \in DOMAIN tasks :
                 ~done[tasks[k]] /\ d[tasks[k]] > 0 /\ tasks[k] # ex}
      best == {k \in cand : \A j \in cand : d[tasks[k]] <= d[tasks[j]]}
  IN  IF cand = {} THEN NoTask
      ELSE tasks[CHOOSE k \in best : \A j \in best : j <= k]

\* Mutant of UpdatedNext: the NULL test is gone.
UpdatedNextNoNull(t, d) ==
  IF d[t] # 0
  THEN IF next # NoTask /\ d[t] <= d[next] THEN t ELSE next
  ELSE IF next = t THEN RecalcNext(t, d) ELSE next

\* next_timeout_task_ after UpdateTaskTimeout(t), the deadlines being d.
UpdatedNext(t, d) ==
  IF d[t] # 0
  THEN IF next = NoTask THEN t
       ELSE IF d[t] <= d[next] THEN t ELSE next
  ELSE IF next = t THEN RecalcNext(t, d) ELSE next

\* Sets timeout_time_ of t and tells the runner.
SetDue(t, when) ==
  /\ due' = [due EXCEPT ![t] = when]
  /\ next' = UpdatedNext(t, due')

\* ResetTimeout of t, whose fields are by now st, sec and susp.
ResetTimeout(t, st, sec, susp) ==
  SetDue(t, IF sec # 0 /\ st \notin {"INIT", "DONE", "ERROR"} /\ ~susp
            THEN now + sec ELSE 0)
-----------------------------------------------------------------------------
(* Stopping a task stops its children, recursively; Abort on a task that   *)
(* is aborted or done returns, and on a busy one only records the abort.   *)

Abortable(t) == ~aborted[t] /\ ~done[t]

\* S is closed under the recursive calls Abort -> Stop -> AbortAllChildren.
AbortClosed(S) ==
  \A t \in S \ {Running} : \A c \in children[t] : Abortable(c) => c \in S

\* Mutant of AbortTree: Stop does not abort the children.
AbortShallow(roots) == {r \in roots : Abortable(r)}

\* The tasks whose Abort gets past its first test when Abort is called on
\* each task of roots.
AbortTree(roots) ==
  {t \in Tasks : \A S \in SUBSET Tasks :
     ({r \in roots : Abortable(r)} \subseteq S /\ AbortClosed(S)) => t \in S}

\* The effect of those Aborts, and of the Stop of the tasks in "own" that
\* ended by themselves with state newstate.  The Wake() at the end of Abort
\* finds done_ set, whatever nowake is.
StopTasks(abort, own, newstate) ==
  LET hit  == abort \ {Running}
      gone == hit \cup own
  IN  /\ aborted' = [t \in Tasks |-> aborted[t] \/ t \in abort]
      /\ done'    = [t \in Tasks |-> done[t] \/ t \in gone]
      /\ blocked' = [t \in Tasks |-> blocked[t] \/ t \in gone]
      /\ error'   = [t \in Tasks |-> error[t] \/ t \in hit
                                     \/ (t \in own /\ newstate = "ERROR")]
      /\ state'   = [t \in Tasks |-> IF t \in own THEN newstate ELSE state[t]]
      /\ children' = [p \in Parents |-> children[p] \ gone]
      /\ childError' = [p \in Parents |-> childError[p] \/
                          \E t \in gone : parent[t] = p /\ HasError(t)']
      /\ UNCHANGED parent
-----------------------------------------------------------------------------
(* Calls made by user code.                                                *)

\* new Task(p)
Create(t, p) ==
  /\ UserCode
  /\ life[t] = "none"
  /\ p \in Tasks => Live(p) /\ ~done[p]
  /\ life' = [life EXCEPT ![t] = "live"]
  /\ parent' = [parent EXCEPT ![t] = p]
  /\ children' = [children EXCEPT ![p] = @ \cup {t}]
  /\ UNCHANGED <<childError, flagVars, tasks, loopVars, wakes, now, timerVars>>

\* Start, once per task: a second call before the first Step would list the
\* task twice.  StartTask calls UpdateTaskTimeout and WakeTasks.
Start(t) ==
  /\ UserCode /\ Live(t) /\ ~Started(t)
  /\ wakes < MaxWakes
  /\ state[t] = "INIT"
  /\ tasks' = Append(tasks, t)
  /\ next' = UpdatedNext(t, due)
  /\ wakes' = wakes + 1
  /\ UNCHANGED <<life, treeVars, flagVars, loopVars, now,
                 seconds, due, suspended>>

\* Mutant of WakeUp: a finished task is woken too.
WakeUpDone(t) ==
  IF blocked[t]
  THEN /\ blocked' = [blocked EXCEPT ![t] = FALSE]
       /\ wakes' = wakes + 1
  ELSE UNCHANGED <<blocked, wakes>>

\* Wake of t: blocked_ is cleared and a message posted, unless t is done or
\* not blocked.
WakeUp(t) ==
  IF blocked[t] /\ ~done[t]
  THEN /\ blocked' = [blocked EXCEPT ![t] = FALSE]
       /\ wakes' = wakes + 1
  ELSE UNCHANGED <<blocked, wakes>>

\* Wake
Wake(t) ==
  /\ UserCode /\ Live(t)
  /\ wakes < MaxWakes
  /\ WakeUp(t)
  /\ UNCHANGED <<life, treeVars, state, done, aborted, error, tasks,
                 loopVars, now, timerVars>>

\* Mutant of Error: the task is not woken.
ErrorNoWake(t) ==
  /\ UserCode /\ Live(t)
  /\ ~error[t] /\ ~done[t]
  /\ error' = [error EXCEPT ![t] = TRUE]
  /\ UNCHANGED <<life, treeVars, state, blocked, done, aborted, tasks, loopVars,
                 wakes, now, timerVars>>

\* Error, called on the task that is running too.
Error(t) ==
  /\ UserCode /\ Live(t)
  /\ wakes < MaxWakes
  /\ ~error[t] /\ ~done[t]
  /\ error' = [error EXCEPT ![t] = TRUE]
  /\ WakeUp(t)
  /\ UNCHANGED <<life, treeVars, state, done, aborted, tasks, loopVars, now,
                 timerVars>>

\* Mutant of Abort: every abort is deferred, as if the task were busy.
AbortDeferred(t) ==
  /\ UserCode /\ Live(t) /\ Abortable(t)
  /\ t # Running
  /\ aborted' = [aborted EXCEPT ![t] = TRUE]
  /\ UNCHANGED <<life, treeVars, state, blocked, done, error, tasks, loopVars,
                 wakes, now, timerVars>>

\* Abort
Abort(t) ==
  /\ UserCode /\ Live(t) /\ Abortable(t)
  /\ Running \in AbortTree({t}) => "abortBusy" \in Usage
  /\ StopTasks(AbortTree({t}), {}, "DONE")
  /\ UNCHANGED <<life, tasks, loopVars, wakes, now, timerVars>>

\* set_timeout_seconds
SetTimeoutSeconds(t, sec) ==
  /\ UserCode /\ Live(t)
  /\ seconds' = [seconds EXCEPT ![t] = sec]
  /\ ResetTimeout(t, state[t], sec, suspended[t])
  /\ UNCHANGED <<life, treeVars, flagVars, tasks, loopVars, wakes, now,
                 suspended>>

\* SuspendTimeout and ResumeTimeout
SuspendTimeout(t, susp) ==
  /\ UserCode /\ Live(t)
  /\ suspended[t] # susp
  /\ suspended' = [suspended EXCEPT ![t] = susp]
  /\ ResetTimeout(t, state[t], seconds[t], susp)
  /\ UNCHANGED <<life, treeVars, flagVars, tasks, loopVars, wakes, now,
                 seconds>>

\* Mutant of Destroy: RunTasks without AbortAllChildren.
DestroyNoAbort ==
  /\ pc = "idle" /\ ~dying
  /\ dying' = TRUE
  /\ pc' = "scan" /\ cur' = 1 /\ didRun' = FALSE /\ recalc' = FALSE
  /\ UNCHANGED <<life, treeVars, flagVars, tasks, wakes, now, timerVars>>

\* ~TaskRunner: AbortAllChildren, then RunTasks.
Destroy ==
  /\ pc = "idle" /\ ~dying
  /\ dying' = TRUE
  /\ StopTasks(AbortTree(children[Runner]), {}, "DONE")
  /\ pc' = "scan" /\ cur' = 1 /\ didRun' = FALSE /\ recalc' = FALSE
  /\ UNCHANGED <<life, tasks, wakes, now, timerVars>>

UserCall ==
  \/ \E t \in Tasks : \/ \E p \in Parents : Create(t, p)
                      \/ Start(t) \/ Wake(t) \/ Error(t) \/ Abort(t)
  \/ \E t \in TimedTasks : \/ \E sec \in Seconds : SetTimeoutSeconds(t, sec)
                           \/ \E susp \in BOOLEAN : SuspendTimeout(t, susp)
  \/ Destroy
-----------------------------------------------------------------------------
(* The message loop and RunTasks.                                          *)

Goto(where, index) == pc' = where /\ cur' = index

\* A WM_WAKETASK is dispatched: OnWakeTask calls RunTasks.
RunTasks ==
  /\ pc = "idle" /\ ~dying /\ wakes > 0
  /\ wakes' = wakes - 1
  /\ Goto("scan", 1)
  /\ didRun' = FALSE
  /\ recalc' = FALSE
  /\ UNCHANGED <<life, treeVars, flagVars, tasks, dying, now, timerVars>>

\* A callback pumps messages (a modal dialog): RunTasks finds tasks_running_
\* set and returns, the message is consumed.
RunTasksNested ==
  /\ pc = "process" /\ wakes > 0
  /\ wakes' = wakes - 1
  /\ UNCHANGED <<life, treeVars, flagVars, tasks, loopVars, now, timerVars>>

\* tasks_[cur] is blocked: on to the next.
ScanSkip ==
  /\ pc = "scan" /\ cur <= Len(tasks)
  /\ blocked[tasks[cur]]
  /\ cur' = cur + 1
  /\ UNCHANGED <<life, treeVars, flagVars, tasks, pc, didRun, recalc, dying,
                 wakes, now, timerVars>>

\* Some task ran in this pass over tasks_: one more pass.
ScanAgain ==
  /\ pc = "scan" /\ cur > Len(tasks) /\ didRun
  /\ cur' = 1 /\ didRun' = FALSE
  /\ UNCHANGED <<life, treeVars, flagVars, tasks, pc, recalc, dying, wakes,
                 now, timerVars>>

\* Mutant of ScanQuiet: a single pass over tasks_.
ScanOnce ==
  /\ pc = "scan" /\ cur > Len(tasks)
  /\ Goto("sweep", 1)
  /\ UNCHANGED <<life, treeVars, flagVars, tasks, didRun, recalc, dying, wakes,
                 now, timerVars>>

\* Nothing ran: the deletion loop starts.
ScanQuiet ==
  /\ pc = "scan" /\ cur > Len(tasks) /\ ~didRun
  /\ Goto("sweep", 1)
  /\ UNCHANGED <<life, treeVars, flagVars, tasks, didRun, recalc, dying, wakes,
                 now, timerVars>>

Stepping(t) ==
  /\ pc = "scan" /\ cur <= Len(tasks)
  /\ t = tasks[cur] /\ ~blocked[t]

\* Step of a task that is done (only blocked_ is forced, the release build's
\* branch) or on which Error was called.
StepEnded(t) ==
  /\ Stepping(t)
  /\ done[t] \/ error[t]
  /\ IF done[t]
     THEN /\ blocked' = [blocked EXCEPT ![t] = TRUE]
          /\ UNCHANGED <<treeVars, state, done, aborted, error>>
     ELSE StopTasks(AbortTree(children[t]), {t}, "ERROR")
  /\ didRun' = TRUE
  /\ UNCHANGED <<life, tasks, pc, cur, recalc, dying, wakes, now, timerVars>>

\* Step of a new task: Process calls nobody and returns STATE_START.
StepInit(t) ==
  /\ Stepping(t)
  /\ ~done[t] /\ ~error[t] /\ state[t] = "INIT" /\ ~TimedOut(t)
  /\ state' = [state EXCEPT ![t] = "START"]
  /\ ResetTimeout(t, "START", seconds[t], suspended[t])
  /\ didRun' = TRUE
  /\ UNCHANGED <<life, treeVars, blocked, done, aborted, error, tasks, pc, cur,
                 recalc, dying, wakes, now, seconds, suspended>>

\* Step enters Process, which calls ProcessStart or ProcessResponse, or, the
\* timeout being cleared, OnTimeout and SignalTimeout.
StepProcess(t) ==
  /\ Stepping(t)
  /\ ~done[t] /\ ~error[t]
  /\ state[t] # "INIT" \/ TimedOut(t)
  /\ pc' = "process"
  /\ IF TimedOut(t) THEN SetDue(t, 0) ELSE UNCHANGED <<due, next>>
  /\ UNCHANGED <<life, treeVars, flagVars, tasks, cur, didRun, recalc, dying,
                 wakes, now, seconds, suspended>>

\* Process returns new to Step.  If the task was aborted meanwhile, Step calls
\* Abort, which returns at once because aborted_ is set.
Return(t, new) ==
  /\ pc = "process" /\ t = tasks[cur]
  /\ pc' = "scan"
  /\ didRun' = TRUE
  /\ IF aborted[t] THEN UNCHANGED <<treeVars, flagVars, due, next>>
     ELSE IF new = BLOCKED
     THEN /\ blocked' = [blocked EXCEPT ![t] = TRUE]
          /\ UNCHANGED <<treeVars, state, done, aborted, error, due, next>>
     ELSE /\ ResetTimeout(t, new, seconds[t], suspended[t])
          /\ IF new \in {"DONE", "ERROR"}
             THEN StopTasks(AbortTree(children[t]), {t}, new)
             ELSE /\ state' = [state EXCEPT ![t] = new]
                  /\ blocked' = [blocked EXCEPT ![t] = FALSE]
                  /\ UNCHANGED <<treeVars, done, aborted, error>>
  /\ UNCHANGED <<life, tasks, cur, recalc, dying, wakes, now, seconds,
                 suspended>>

\* The deletion loop meets a task that is not done.
SweepKeep ==
  /\ pc = "sweep" /\ cur <= Len(tasks)
  /\ ~done[tasks[cur]]
  /\ cur' = cur + 1
  /\ UNCHANGED <<life, treeVars, flagVars, tasks, pc, didRun, recalc, dying,
                 wakes, now, timerVars>>

\* Mutant of SweepDelete: the slot is nulled but never erased.
SweepDeleteKeepsSlot ==
  /\ pc = "sweep" /\ cur <= Len(tasks)
  /\ done[tasks[cur]]
  /\ life' = [life EXCEPT ![tasks[cur]] = "deleted"]
  /\ tasks' = [tasks EXCEPT ![cur] = NoTask]
  /\ cur' = cur + 1
  /\ next' = IF next = tasks[cur] THEN NoTask ELSE next
  /\ recalc' = (recalc \/ next = tasks[cur])
  /\ UNCHANGED <<treeVars, flagVars, pc, didRun, dying, wakes, now,
                 seconds, due, suspended>>

\* Mutant of SweepDelete: the task that moves into the slot is passed over.
SweepDeleteSkips ==
  /\ pc = "sweep" /\ cur <= Len(tasks)
  /\ done[tasks[cur]]
  /\ life' = [life EXCEPT ![tasks[cur]] = "deleted"]
  /\ tasks' = RemoveAt(tasks, cur)
  /\ cur' = cur + 1
  /\ next' = IF next = tasks[cur] THEN NoTask ELSE next
  /\ recalc' = (recalc \/ next = tasks[cur])
  /\ UNCHANGED <<treeVars, flagVars, pc, didRun, dying, wakes, now,
                 seconds, due, suspended>>

\* The deletion loop deletes tasks_[cur] and drops its slot (the code nulls
\* the slots and erases the nulls after the loop; no user code runs between).
SweepDelete ==
  /\ pc = "sweep" /\ cur <= Len(tasks)
  /\ done[tasks[cur]]
  /\ life' = [life EXCEPT ![tasks[cur]] = "deleted"]
  /\ tasks' = RemoveAt(tasks, cur)
  /\ next' = IF next = tasks[cur] THEN NoTask ELSE next
  /\ recalc' = (recalc \/ next = tasks[cur])
  /\ UNCHANGED <<treeVars, flagVars, pc, cur, didRun, dying, wakes, now,
                 seconds, due, suspended>>

\* The end of RunTasks.
SweepEnd ==
  /\ pc = "sweep" /\ cur > Len(tasks)
  /\ Goto(IF dying THEN "dead" ELSE "idle", 1)
  /\ next' = IF recalc THEN RecalcNext(NoTask, due) ELSE next
  /\ recalc' = FALSE
  /\ UNCHANGED <<life, treeVars, flagVars, tasks, didRun, dying, wakes, now,
                 seconds, due, suspended>>

\* PollTasks, called from the message loop now and then.
PollTasks ==
  /\ pc = "idle" /\ ~dying /\ wakes + 1 < MaxWakes
  /\ next # NoTask
  /\ TimedOut(next)
  /\ IF blocked[next] /\ ~done[next]
     THEN /\ blocked' = [blocked EXCEPT ![next] = FALSE]
          /\ wakes' = wakes + 2
     ELSE /\ wakes' = wakes + 1
          /\ UNCHANGED blocked
  /\ UNCHANGED <<life, treeVars, state, done, aborted, error, tasks, loopVars,
                 now, timerVars>>

Tick ==
  /\ now < MaxTime
  /\ now' = now + 1
  /\ UNCHANGED <<life, treeVars, flagVars, tasks, loopVars, wakes, timerVars>>

Steps ==
  \/ ScanSkip \/ ScanAgain \/ ScanQuiet
  \/ \E t \in Tasks : StepEnded(t) \/ StepInit(t) \/ StepProcess(t)
  \/ SweepKeep \/ SweepDelete \/ SweepEnd

Results == {BLOCKED, "START", "RESPONSE", "DONE", "ERROR"}

Init ==
  /\ life = [t \in Tasks |-> "none"]
  /\ parent = [t \in Tasks |-> Runner]
  /\ children = [p \in Parents |-> {}]
  /\ childError = [p \in Parents |-> FALSE]
  /\ state = [t \in Tasks |-> "INIT"]
  /\ blocked = [t \in Tasks |-> FALSE]
  /\ done = [t \in Tasks |-> FALSE]
  /\ aborted = [t \in Tasks |-> FALSE]
  /\ error = [t \in Tasks |-> FALSE]
  /\ tasks = <<>>
  /\ pc = "idle" /\ cur = 1
  /\ didRun = FALSE /\ recalc = FALSE /\ dying = FALSE
  /\ wakes = 0
  /\ now = 1
  /\ seconds = [t \in Tasks |-> 0]
  /\ due = [t \in Tasks |-> 0]
  /\ suspended = [t \in Tasks |-> FALSE]
  /\ next = NoTask

Next ==
  \/ UserCall
  \/ RunTasks \/ RunTasksNested \/ Steps
  \/ \E t \in Tasks, new \in Results : Return(t, new)
  \/ PollTasks
  \/ Tick

Spec == Init /\ [][Next]_vars

\* The message loop dispatches what is queued, RunTasks runs on its own, a
\* callback returns, and a task does not return non-blocking states for ever
\* ("Running continues until all tasks are Blocked").
Fairness ==
  /\ WF_vars(RunTasks)
  /\ WF_vars(Steps)
  /\ WF_vars(\E t \in Tasks, new \in Results : Return(t, new))
  /\ SF_vars(\E t \in Tasks, new \in {BLOCKED, "DONE", "ERROR"} : Return(t, new))

FairSpec == Spec /\ Fairness
-----------------------------------------------------------------------------
(* Properties.                                                             *)

TypeOK ==
  /\ life \in [Tasks -> {"none", "live", "deleted"}]
  /\ parent \in [Tasks -> Parents]
  /\ children \in [Parents -> SUBSET Tasks]
  /\ childError \in [Parents -> BOOLEAN]
  /\ state \in [Tasks -> States]
  /\ blocked \in [Tasks -> BOOLEAN]
  /\ done \in [Tasks -> BOOLEAN]
  /\ aborted \in [Tasks -> BOOLEAN]
  /\ error \in [Tasks -> BOOLEAN]
  /\ tasks \in Seq(Tasks)
  /\ pc \in {"idle", "scan", "process", "sweep", "dead"}
  /\ cur \in Nat \ {0}
  /\ didRun \in BOOLEAN /\ recalc \in BOOLEAN /\ dying \in BOOLEAN
  /\ wakes \in Nat
  /\ now \in Nat \ {0}
  /\ seconds \in [Tasks -> Nat]
  /\ due \in [Tasks -> Nat]
  /\ suspended \in [Tasks -> BOOLEAN]
  /\ next \in Tasks \cup {NoTask}

\* The assertion in Step ("we do not know how !blocked_ happens when done_ -
\* should be impossible", task.cpp:59-63): whichever way a task ended, on its
\* own, by Error, by Abort or with its parent, it is never runnable again.
DoneImpliesBlocked == \A t \in Tasks : done[t] => blocked[t]

\* No lost wake-up: when the thread goes back to the message loop, a started
\* task that may run has a WM_WAKETASK waiting for it, also when a nested
\* message loop ate the message posted for it.
NoLostWake ==
  pc = "idle" =>
    \A t \in Tasks : Started(t) /\ ~blocked[t] => wakes > 0

\* A freed Task is in no pointer the library still follows: tasks_, a
\* children_ set, next_timeout_task_, or the parent_ of a task that will
\* still call parent_->OnChildStopped; and tasks_ lists no task twice, so
\* that RunTasks deletes none twice.
NoDanglingPointer ==
  /\ \A t \in Tasks : life[t] = "deleted" =>
       /\ ~Started(t)
       /\ next # t
       /\ \A p \in Parents : t \notin children[p]
       /\ \A u \in Tasks : Live(u) /\ ~done[u] => parent[u] # t
  /\ \A j, k \in DOMAIN tasks : tasks[j] = tasks[k] => j = k

\* AnyChildError tells a parent exactly that one of its children ended in
\* STATE_ERROR, even when the child has been erased from children_ and freed.
ChildErrorIsTrue ==
  \A p \in Parents :
    childError[p] <=> \E t \in Tasks : /\ life[t] # "none" /\ parent[t] = p
                                      /\ state[t] = "ERROR"

\* The runner knows of a deadline as long as a running task has one, so that
\* PollTasks is not blind.
DeadlinePolled ==
  pc \in {"idle", "process"} =>
    ((\E t \in Tasks : Started(t) /\ ~done[t] /\ due[t] > 0) => next # NoTask)

\* ~TaskRunner runs no task: by then the subclass that implements WakeTasks
\* and CurrentTime is gone, a callback would call a pure virtual.  When it
\* returns every started task has been freed.
DestroyIsSilent ==
  /\ dying => pc # "process"
  /\ pc = "dead" => tasks = <<>> /\ next = NoTask

\* "stop task without any more callbacks" (task.h:39): Process is entered
\* neither for an aborted task nor for one that ended.
NoCallbackAfterAbort ==
  [][pc # "process" /\ pc' = "process"
       => ~aborted[tasks[cur]] /\ ~done[tasks[cur]]]_vars

\* "Called inside to advise that the task should wake and signal an error"
\* (task.h:68): a task comes to wait with its error pending in one way only,
\* by returning STATE_BLOCKED from a Process in which its own Error was called
\* (task.cpp:141: Wake finds it awake); no Process begins with an error
\* pending.  Such a task signals the error when somebody else wakes it.
ErrorWaits(t) == error[t] /\ ~done[t] /\ blocked[t]
ErrorWakes ==
  [][\A t \in Tasks :
       /\ ErrorWaits(t)' => ErrorWaits(t) \/ (t = Running /\ error[t])
       /\ t = Running' => t = Running \/ ~error[t]]_vars

\* next_timeout_task_ is the task with the nearest deadline ("make sure that
\* the next timeout-able task hasn't changed", task.cpp:355-358).
NextIsNearest ==
  pc = "idle" /\ next # NoTask =>
    \A t \in Tasks : Started(t) /\ ~done[t] /\ due[t] > 0 => due[next] <= due[t]

\* A started task that may run gets its turn until it waits or is freed,
\* however long other tasks keep waking each other.
RunnableRuns ==
  \A t \in Tasks :
    (Started(t) /\ ~blocked[t]) ~> (blocked[t] \/ life[t] = "deleted")

\* User code eventually leaves the scheduler alone.
UserQuiet == <>[][~UserCall /\ ~RunTasksNested]_vars

\* A task that ends while RunTasks is at work is freed, once user code stops
\* waking other tasks from inside callbacks.
EndedIsFreed ==
  UserQuiet =>
    \A t \in Tasks : (Started(t) /\ done[t] /\ pc # "idle")
                       ~> (life[t] = "deleted")
-----------------------------------------------------------------------------
(* The inductive invariant behind the safety properties.                   *)

\* tasks_ holds live tasks, each once.
ListInv ==
  /\ \A k \in DOMAIN tasks : Live(tasks[k])
  /\ \A j, k \in DOMAIN tasks : tasks[j] = tasks[k] => j = k

\* children_ is the inverse of parent_ on the tasks that have not ended, and
\* such a task has a live parent; if the parent has ended the task is aborted.
TreeInv ==
  /\ \A t \in Tasks, p \in Parents :
       t \in children[p] <=> Live(t) /\ ~done[t] /\ parent[t] = p
  /\ \A t \in Tasks : Live(t) /\ ~done[t] /\ parent[t] \in Tasks =>
       Live(parent[t]) /\ (done[parent[t]] => aborted[t])
  /\ \A t \in Tasks : life[t] = "none" => ~done[t] /\ ~aborted[t]

\* The busy task is not blocked, and a task that is aborted but has not ended
\* is the one RunTasks is stepping.
StepInv ==
  /\ pc = "process" => /\ cur <= Len(tasks)
                       /\ ~blocked[tasks[cur]] /\ ~done[tasks[cur]]
  /\ \A t \in Tasks : aborted[t] /\ ~done[t] =>
       /\ pc \in {"scan", "process"}
       /\ cur <= Len(tasks) /\ tasks[cur] = t /\ ~blocked[t]

\* Every task RunTasks has passed since it last stepped one is blocked.
PassInv ==
  /\ pc = "scan" /\ ~didRun =>
       \A k \in DOMAIN tasks : k < cur => blocked[tasks[k]]
  /\ pc = "sweep" => \A k \in DOMAIN tasks : blocked[tasks[k]]

NextInv == next # NoTask => Live(next)

SchedulerInv ==
  ListInv /\ TreeInv /\ StepInv /\ DoneImpliesBlocked /\ PassInv /\ NoLostWake
  /\ NextInv
=============================================================================
