-------------------------- MODULE TaskRunnerProofs --------------------------
(* Proofs about the scheduler, for any number of tasks, any use of its       *)
(* operations by user code (Usage), and any bound on time and messages.      *)
EXTENDS TaskRunner, TLAPS, NaturalsInduction, WellFoundedInduction,
        SequenceTheorems

-----------------------------------------------------------------------------
(* Facts about the operators.                                              *)

\* A non-empty set of natural numbers has a least element.
LEMMA NatSetHasMin ==
  ASSUME NEW S \in SUBSET Nat, S # {}
  PROVE  \E n \in S : \A m \in S : n <= m
<1>1. PICK n \in S : \A m \in S : <<m, n>> \notin OpToRel(<, Nat)
  BY NatLessThanWellFounded, WFMin
<1>2. \A m \in S : ~(m < n)
  BY <1>1 DEF OpToRel
<1> QED
  BY <1>2

\* What the deletion of slot i leaves of a vector.
LEMMA RemoveAtFacts ==
  ASSUME NEW T, NEW s \in Seq(T), NEW i \in 1 .. Len(s)
  PROVE  /\ RemoveAt(s, i) \in Seq(T)
         /\ Len(RemoveAt(s, i)) = Len(s) - 1
         /\ \A k \in 1 .. Len(s) - 1 :
              RemoveAt(s, i)[k] = IF k < i THEN s[k] ELSE s[k + 1]
<1> DEFINE a == SubSeq(s, 1, i - 1)
           b == SubSeq(s, i + 1, Len(s))
<1>1. a \in Seq(T) /\ Len(a) = i - 1 /\ \A k \in 1 .. i - 1 : a[k] = s[k]
  OBVIOUS
<1>2. /\ b \in Seq(T) /\ Len(b) = Len(s) - i
      /\ \A k \in 1 .. Len(s) - i : b[k] = s[i + k]
  OBVIOUS
<1>3. RemoveAt(s, i) = a \o b
  BY DEF RemoveAt
<1> HIDE DEF a, b
<1>4. a \o b \in Seq(T) /\ Len(a \o b) = Len(s) - 1
  <2>1. a \o b \in Seq(T) /\ Len(a \o b) = Len(a) + Len(b)
    BY <1>1, <1>2, ConcatProperties
  <2> QED
    BY <1>1, <1>2, <2>1, LenProperties
<1>5. ASSUME NEW k \in 1 .. Len(s) - 1
      PROVE  (a \o b)[k] = IF k < i THEN s[k] ELSE s[k + 1]
  <2>1. CASE k < i
    BY <1>1, <1>2, <2>1
  <2>2. CASE ~(k < i)
    <3>1. (a \o b)[k] = b[k - (i - 1)]
      BY <1>1, <1>2, <2>2
    <3>2. b[k - (i - 1)] = s[i + (k - (i - 1))]
      BY <1>2, <2>2
    <3> QED
      BY <2>2, <3>1, <3>2
  <2> QED
    BY <2>1, <2>2
<1> QED
  BY <1>3, <1>4, <1>5

\* RecalcNextTimeout selects a task of the list, or none if there is none to select.
LEMMA RecalcNextFact ==
  ASSUME TypeOK, NEW d \in [Tasks -> Nat], NEW ex
  PROVE  \/ /\ RecalcNext(ex, d) = NoTask
            /\ \A k \in DOMAIN tasks : done[tasks[k]] \/ ~(d[tasks[k]] > 0) \/ tasks[k] = ex
         \/ \E k \in DOMAIN tasks : RecalcNext(ex, d) = tasks[k]
<1> DEFINE cand == {k \in DOMAIN tasks :
                      ~done[tasks[k]] /\ d[tasks[k]] > 0 /\ tasks[k] # ex}
           best == {k \in cand : \A j \in cand : d[tasks[k]] <= d[tasks[j]]}
<1>1. CASE cand = {}
  BY <1>1 DEF RecalcNext
<1>2. CASE cand # {}
  <2>1. DOMAIN tasks = 1 .. Len(tasks) /\ Len(tasks) \in Nat
        /\ \A k \in DOMAIN tasks : tasks[k] \in Tasks
    BY DEF TypeOK
  <2>2. {d[tasks[k]] : k \in cand} \in SUBSET Nat
    BY <2>1
  <2>3. {d[tasks[k]] : k \in cand} # {}
    BY <1>2
  <2>4. best # {}
    <3>1. PICK n \in {d[tasks[k]] : k \in cand} :
                 \A m \in {d[tasks[k]] : k \in cand} : n <= m
      BY <2>2, <2>3, NatSetHasMin
    <3>2. PICK k \in cand : n = d[tasks[k]]
      BY <3>1
    <3>3. k \in best
      BY <3>1, <3>2
    <3> QED
      BY <3>3
  <2>5. {Len(tasks) - k : k \in best} \in SUBSET Nat
    BY <2>1
  <2>6. {Len(tasks) - k : k \in best} # {}
    BY <2>4
  <2>7. PICK k \in best : \A j \in best : Len(tasks) - k <= Len(tasks) - j
    <3>1. PICK n \in {Len(tasks) - k : k \in best} :
                 \A m \in {Len(tasks) - k : k \in best} : n <= m
      BY <2>5, <2>6, NatSetHasMin
    <3> QED
      BY <3>1
  <2>8. \A j \in best : j <= k
    BY <2>1, <2>7
  <2>9. (CHOOSE m \in best : \A j \in best : j <= m) \in best
    BY <2>8, Zenon
  <2>10. (CHOOSE m \in best : \A j \in best : j <= m) \in DOMAIN tasks
    BY <2>9
  <2>11. RecalcNext(ex, d) = tasks[CHOOSE m \in best : \A j \in best : j <= m]
    BY <1>2 DEF RecalcNext
  <2> QED
    BY <2>10, <2>11
<1> QED
  BY <1>1, <1>2

\* AbortTree(R) contains the abortable tasks of R, is closed under the
\* recursive calls, and holds nothing but abortable tasks that are in R or
\* have a parent that still knows them.
LEMMA AbortTreeFacts ==
  ASSUME TypeOK, NEW R \in SUBSET Tasks
  PROVE  /\ AbortTree(R) \in SUBSET Tasks
         /\ AbortClosed(AbortTree(R))
         /\ \A t \in R : Abortable(t) => t \in AbortTree(R)
         /\ \A t \in AbortTree(R) : /\ Abortable(t)
                                    /\ t \in R \/ \E p \in Parents : t \in children[p]
<1>1. AbortTree(R) \in SUBSET Tasks
  BY DEF AbortTree
<1>2. AbortClosed(AbortTree(R))
  <2> SUFFICES ASSUME NEW t \in AbortTree(R) \ {Running}, NEW c \in children[t],
                      Abortable(c)
               PROVE  c \in AbortTree(R)
    BY DEF AbortClosed
  <2>1. t \in Tasks /\ c \in Tasks
    BY <1>1 DEF TypeOK, Parents
  <2>2. ASSUME NEW S \in SUBSET Tasks,
               {r \in R : Abortable(r)} \subseteq S, AbortClosed(S)
        PROVE  c \in S
    <3>1. t \in S
      BY <2>2 DEF AbortTree
    <3> QED
      BY <2>2, <3>1 DEF AbortClosed
  <2> QED
    BY <2>1, <2>2 DEF AbortTree
<1>3. \A t \in R : Abortable(t) => t \in AbortTree(R)
  BY DEF AbortTree
<1>4. ASSUME NEW t \in AbortTree(R)
      PROVE  Abortable(t) /\ (t \in R \/ \E p \in Parents : t \in children[p])
  <2> DEFINE S == {u \in Tasks : Abortable(u) /\
                     (u \in R \/ \E p \in Parents : u \in children[p])}
  <2>1. {r \in R : Abortable(r)} \subseteq S
    OBVIOUS
  <2>2. AbortClosed(S)
    <3> SUFFICES ASSUME NEW u \in S \ {Running}, NEW c \in children[u],
                        Abortable(c)
                 PROVE  c \in S
      BY DEF AbortClosed
    <3>1. u \in Parents
      BY DEF Parents
    <3>2. c \in Tasks
      BY <3>1 DEF TypeOK
    <3> QED
      BY <3>1, <3>2
  <2>3. S \in SUBSET Tasks
    OBVIOUS
  <2>4. t \in S
    BY <2>1, <2>2, <2>3, Zenon DEF AbortTree
  <2> QED
    BY <2>4
<1> QED
  BY <1>1, <1>2, <1>3, <1>4

\* StopTasks keeps the types of what it writes.
LEMMA StopTasksType ==
  ASSUME TypeOK, NEW a \in SUBSET Tasks, NEW own \in SUBSET Tasks,
         NEW st \in States, StopTasks(a, own, st)
  PROVE  /\ aborted' \in [Tasks -> BOOLEAN] /\ done' \in [Tasks -> BOOLEAN]
         /\ blocked' \in [Tasks -> BOOLEAN] /\ error' \in [Tasks -> BOOLEAN]
         /\ state' \in [Tasks -> States]
         /\ children' \in [Parents -> SUBSET Tasks]
         /\ childError' \in [Parents -> BOOLEAN]
         /\ parent' \in [Tasks -> Parents]
  BY DEF TypeOK, StopTasks

\* SetDue writes a deadline and points next_timeout_task_ at its task, at a
\* task of the list, at what it pointed at before, or at nothing.
LEMMA SetDueFacts ==
  ASSUME TypeOK, NEW t \in Tasks, NEW when \in Nat, SetDue(t, when)
  PROVE  /\ due' \in [Tasks -> Nat]
         /\ next' \in {t, next, NoTask} \cup {tasks[k] : k \in DOMAIN tasks}
         /\ next' \in Tasks \cup {NoTask}
<1>1. due' \in [Tasks -> Nat]
  BY DEF SetDue, TypeOK
<1>2. \/ RecalcNext(t, due') = NoTask
      \/ \E k \in DOMAIN tasks : RecalcNext(t, due') = tasks[k]
  BY <1>1, RecalcNextFact
<1>3. next' \in {t, next, NoTask} \cup {tasks[k] : k \in DOMAIN tasks}
  BY <1>2 DEF SetDue, UpdatedNext
<1>4. \A k \in DOMAIN tasks : tasks[k] \in Tasks
  BY DEF TypeOK
<1> QED
  BY <1>1, <1>3, <1>4 DEF TypeOK

LEMMA ResetTimeoutFacts ==
  ASSUME TypeOK, NEW t \in Tasks, NEW st, NEW sec \in Nat, NEW susp,
         ResetTimeout(t, st, sec, susp)
  PROVE  /\ due' \in [Tasks -> Nat]
         /\ next' \in {t, next, NoTask} \cup {tasks[k] : k \in DOMAIN tasks}
         /\ next' \in Tasks \cup {NoTask}
<1>1. PICK when \in Nat : SetDue(t, when)
  <2>1. now + sec \in Nat
    BY DEF TypeOK
  <2> QED
    BY <2>1 DEF ResetTimeout
<1> QED
  BY <1>1, SetDueFacts

-----------------------------------------------------------------------------
(* Type correctness.                                                       *)

LEMMA InitTypeOK == Init => TypeOK
<1> SUFFICES ASSUME Init PROVE TypeOK
  OBVIOUS
<1>1. didRun \in BOOLEAN /\ recalc \in BOOLEAN /\ dying \in BOOLEAN
  BY Zenon DEF Init
<1>2. /\ childError \in [Parents -> BOOLEAN] /\ blocked \in [Tasks -> BOOLEAN]
      /\ done \in [Tasks -> BOOLEAN] /\ aborted \in [Tasks -> BOOLEAN]
      /\ error \in [Tasks -> BOOLEAN] /\ suspended \in [Tasks -> BOOLEAN]
  BY Zenon DEF Init
<1>3. cur \in Nat \ {0} /\ wakes \in Nat /\ now \in Nat \ {0}
      /\ seconds \in [Tasks -> Nat] /\ due \in [Tasks -> Nat]
  BY SMT DEF Init
<1> QED
  BY <1>1, <1>2, <1>3 DEF Init, TypeOK, Parents, States

LEMMA NextTypeOK == TypeOK /\ [Next]_vars => TypeOK'
<1> SUFFICES ASSUME TypeOK, [Next]_vars PROVE TypeOK'
  OBVIOUS
<1> USE DEF treeVars, flagVars, loopVars, timerVars
<1>1. ASSUME NEW t \in Tasks, NEW p \in Parents, Create(t, p)
      PROVE  TypeOK'
  BY <1>1 DEF Create, TypeOK
<1>2. ASSUME NEW t \in Tasks, Start(t)
      PROVE  TypeOK'
  <2>1. next' \in Tasks \cup {NoTask}
    <3>1. due \in [Tasks -> Nat]
      BY DEF TypeOK
    <3>2. RecalcNext(t, due) = NoTask
          \/ \E k \in DOMAIN tasks : RecalcNext(t, due) = tasks[k]
      BY <3>1, RecalcNextFact
    <3>3. \A k \in DOMAIN tasks : tasks[k] \in Tasks
      BY DEF TypeOK
    <3> QED
      BY <1>2, <3>2, <3>3 DEF Start, UpdatedNext, TypeOK
  <2>2. tasks' \in Seq(Tasks)
    BY <1>2 DEF Start, TypeOK
  <2> QED
    BY <1>2, <2>1, <2>2 DEF Start, TypeOK
<1>3. ASSUME NEW t \in Tasks, Wake(t)
      PROVE  TypeOK'
  <2>1. blocked' \in [Tasks -> BOOLEAN]
    BY <1>3 DEF Wake, WakeUp, TypeOK
  <2>2. wakes' \in Nat
    BY <1>3 DEF Wake, WakeUp, TypeOK
  <2> QED
    BY <1>3, <2>1, <2>2 DEF Wake, TypeOK
<1>4. ASSUME NEW t \in Tasks, Error(t)
      PROVE  TypeOK'
  <2>1. blocked' \in [Tasks -> BOOLEAN]
    BY <1>4 DEF Error, WakeUp, TypeOK
  <2>2. wakes' \in Nat
    BY <1>4 DEF Error, WakeUp, TypeOK
  <2> QED
    BY <1>4, <2>1, <2>2 DEF Error, TypeOK
<1>5. ASSUME NEW t \in Tasks, Abort(t)
      PROVE  TypeOK'
  <2>1. StopTasks(AbortTree({t}), {}, "DONE")
    BY <1>5 DEF Abort
  <2>2. AbortTree({t}) \in SUBSET Tasks
    BY AbortTreeFacts
  <2>3. "DONE" \in States
    BY DEF States
  <2> QED
    BY <1>5, <2>1, <2>2, <2>3, StopTasksType DEF Abort, TypeOK
<1>6. ASSUME NEW t \in TimedTasks, NEW sec \in Seconds, SetTimeoutSeconds(t, sec)
      PROVE  TypeOK'
  <2>1. t \in Tasks /\ sec \in Nat
    BY BoundsAssumption
  <2>2. ResetTimeout(t, state[t], sec, suspended[t])
    BY <1>6 DEF SetTimeoutSeconds
  <2>3. due' \in [Tasks -> Nat] /\ next' \in Tasks \cup {NoTask}
    BY <2>1, <2>2, ResetTimeoutFacts
  <2> QED
    BY <1>6, <2>1, <2>3 DEF SetTimeoutSeconds, TypeOK
<1>7. ASSUME NEW t \in TimedTasks, NEW susp \in BOOLEAN, SuspendTimeout(t, susp)
      PROVE  TypeOK'
  <2>1. t \in Tasks /\ seconds[t] \in Nat
    BY BoundsAssumption DEF TypeOK
  <2>2. ResetTimeout(t, state[t], seconds[t], susp)
    BY <1>7 DEF SuspendTimeout
  <2>3. due' \in [Tasks -> Nat] /\ next' \in Tasks \cup {NoTask}
    BY <2>1, <2>2, ResetTimeoutFacts
  <2> QED
    BY <1>7, <2>1, <2>3 DEF SuspendTimeout, TypeOK
<1>8. CASE Destroy
  <2>1. StopTasks(AbortTree(children[Runner]), {}, "DONE")
    BY <1>8 DEF Destroy
  <2>2. children[Runner] \in SUBSET Tasks
    BY DEF TypeOK, Parents
  <2>3. AbortTree(children[Runner]) \in SUBSET Tasks
    BY <2>2, AbortTreeFacts
  <2>4. "DONE" \in States
    BY DEF States
  <2> QED
    <3>1. didRun' \in BOOLEAN /\ recalc' \in BOOLEAN /\ dying' \in BOOLEAN
      BY <1>8, Zenon DEF Destroy
    <3>2. cur' \in Nat \ {0}
      BY <1>8 DEF Destroy
    <3> QED
      BY <1>8, <2>1, <2>3, <2>4, <3>1, <3>2, StopTasksType DEF Destroy, TypeOK
<1>9. CASE RunTasks
  <2>1. didRun' \in BOOLEAN /\ recalc' \in BOOLEAN /\ dying' \in BOOLEAN
    BY <1>9, Zenon DEF RunTasks, TypeOK
  <2>2. cur' \in Nat \ {0} /\ wakes' \in Nat
    BY <1>9 DEF RunTasks, Goto, TypeOK
  <2> QED
    BY <1>9, <2>1, <2>2 DEF RunTasks, Goto, TypeOK
<1>10. CASE RunTasksNested
  BY <1>10 DEF RunTasksNested, TypeOK
<1>11. CASE ScanSkip \/ ScanAgain \/ ScanQuiet \/ SweepKeep
  <2>1. didRun' \in BOOLEAN /\ recalc' \in BOOLEAN /\ dying' \in BOOLEAN
    BY <1>11, Zenon DEF ScanSkip, ScanAgain, ScanQuiet, SweepKeep, TypeOK
  <2>2. cur' \in Nat \ {0}
    BY <1>11 DEF ScanSkip, ScanAgain, ScanQuiet, SweepKeep, Goto, TypeOK
  <2>3. /\ UNCHANGED <<life, treeVars, flagVars, tasks, wakes, now, timerVars>>
        /\ pc' \in {"scan", "sweep"}
    BY <1>11 DEF ScanSkip, ScanAgain, ScanQuiet, SweepKeep, Goto
  <2> QED
    BY <2>1, <2>2, <2>3 DEF TypeOK
<1>12. ASSUME NEW t \in Tasks, StepEnded(t)
      PROVE  TypeOK'
  <2>1. CASE done[t]
    BY <1>12, <2>1 DEF StepEnded, TypeOK
  <2>2. CASE ~done[t]
    <3>1. StopTasks(AbortTree(children[t]), {t}, "ERROR")
      BY <1>12, <2>2 DEF StepEnded
    <3>2. children[t] \in SUBSET Tasks
      BY DEF TypeOK, Parents
    <3>3. AbortTree(children[t]) \in SUBSET Tasks
      BY <3>2, AbortTreeFacts
    <3>4. "ERROR" \in States
      BY DEF States
    <3> QED
      BY <1>12, <3>1, <3>3, <3>4, StopTasksType DEF StepEnded, TypeOK
  <2> QED
    BY <2>1, <2>2
<1>13. ASSUME NEW t \in Tasks, StepInit(t)
      PROVE  TypeOK'
  <2>1. seconds[t] \in Nat /\ ResetTimeout(t, "START", seconds[t], suspended[t])
    BY <1>13 DEF StepInit, TypeOK
  <2>2. due' \in [Tasks -> Nat] /\ next' \in Tasks \cup {NoTask}
    BY <2>1, ResetTimeoutFacts
  <2> QED
    BY <1>13, <2>2 DEF StepInit, TypeOK, States
<1>14. ASSUME NEW t \in Tasks, StepProcess(t)
      PROVE  TypeOK'
  <2>1. due' \in [Tasks -> Nat] /\ next' \in Tasks \cup {NoTask}
    BY <1>14, SetDueFacts DEF StepProcess, TypeOK
  <2> QED
    BY <1>14, <2>1 DEF StepProcess, TypeOK
<1>15. ASSUME NEW t \in Tasks, NEW new \in Results, Return(t, new)
      PROVE  TypeOK'
  <2>1. CASE aborted[t] \/ new = BLOCKED
    BY <1>15, <2>1 DEF Return, TypeOK
  <2>2. CASE ~aborted[t] /\ new # BLOCKED
    <3>1. seconds[t] \in Nat /\ ResetTimeout(t, new, seconds[t], suspended[t])
      BY <1>15, <2>2 DEF Return, TypeOK
    <3>2. due' \in [Tasks -> Nat] /\ next' \in Tasks \cup {NoTask}
      BY <3>1, ResetTimeoutFacts
    <3>3. CASE new \in {"DONE", "ERROR"}
      <4>1. StopTasks(AbortTree(children[t]), {t}, new)
        BY <1>15, <2>2, <3>3 DEF Return
      <4>2. children[t] \in SUBSET Tasks
        BY DEF TypeOK, Parents
      <4>3. AbortTree(children[t]) \in SUBSET Tasks
        BY <4>2, AbortTreeFacts
      <4>4. new \in States
        BY <3>3 DEF States
      <4> QED
        BY <1>15, <3>2, <4>1, <4>3, <4>4, StopTasksType DEF Return, TypeOK
    <3>4. CASE new \notin {"DONE", "ERROR"}
      <4>1. new \in States
        BY <2>2, <3>4 DEF Results, States
      <4> QED
        BY <1>15, <2>2, <3>2, <3>4, <4>1 DEF Return, TypeOK
    <3> QED
      BY <3>3, <3>4
  <2> QED
    BY <2>1, <2>2
<1>16. CASE SweepDelete
  <2>1. cur \in 1 .. Len(tasks)
    BY <1>16 DEF SweepDelete, TypeOK
  <2>2. tasks' \in Seq(Tasks)
    BY <1>16, <2>1, RemoveAtFacts DEF SweepDelete, TypeOK
  <2> QED
    BY <1>16, <2>2 DEF SweepDelete, TypeOK
<1>17. CASE SweepEnd
  <2>1. due \in [Tasks -> Nat] /\ \A k \in DOMAIN tasks : tasks[k] \in Tasks
    BY DEF TypeOK
  <2>2. RecalcNext(NoTask, due) \in Tasks \cup {NoTask}
    BY <2>1, RecalcNextFact
  <2>3. next' \in Tasks \cup {NoTask}
    BY <1>17, <2>2, Zenon DEF SweepEnd, TypeOK
  <2>4. didRun' \in BOOLEAN /\ recalc' \in BOOLEAN /\ dying' \in BOOLEAN
    BY <1>17, Zenon DEF SweepEnd, TypeOK
  <2>5. cur' \in Nat \ {0} /\ pc' \in {"idle", "dead"}
    BY <1>17 DEF SweepEnd, Goto
  <2> QED
    BY <1>17, <2>3, <2>4, <2>5 DEF SweepEnd, TypeOK
<1>18. CASE PollTasks
  <2>1. blocked' \in [Tasks -> BOOLEAN]
    BY <1>18 DEF PollTasks, TypeOK
  <2>2. wakes' \in Nat
    BY <1>18 DEF PollTasks, TypeOK
  <2> QED
    BY <1>18, <2>1, <2>2 DEF PollTasks, TypeOK
<1>19. CASE Tick
  BY <1>19 DEF Tick, TypeOK
<1>20. CASE UNCHANGED vars
  BY <1>20 DEF vars, TypeOK
<1> QED
  BY <1>1, <1>2, <1>3, <1>4, <1>5, <1>6, <1>7, <1>8, <1>9, <1>10, <1>11, <1>12,
     <1>13, <1>14, <1>15, <1>16, <1>17, <1>18, <1>19, <1>20
  DEF Next, UserCall, Steps

\* The variables keep their types.
THEOREM TypeCorrect == Spec => []TypeOK
  BY InitTypeOK, NextTypeOK, PTL DEF Spec

-----------------------------------------------------------------------------
(* The inductive invariant.                                                *)

\* Stopping a set of live tasks together with their descendants keeps the
\* tree sound; nobody but the busy task can end up aborted without having
\* ended.
LEMMA StopTasksInv ==
  ASSUME TypeOK, TreeInv, DoneImpliesBlocked,
         NEW R \in SUBSET Tasks, NEW own \in SUBSET Tasks, NEW st \in States,
         StopTasks(AbortTree(R), own, st), UNCHANGED life,
         \A r \in R : Live(r),
         \A t \in own : Live(t) /\ children[t] \subseteq R
  PROVE  /\ TreeInv'
         /\ DoneImpliesBlocked'
         /\ \A t \in Tasks : /\ done[t] => done'[t]
                             /\ blocked[t] => blocked'[t]
                             /\ t \in own => done'[t]
                             /\ aborted'[t] /\ ~done'[t] =>
                                  \/ t = Running /\ ~aborted[t] /\ t \notin own
                                  \/ aborted[t] /\ ~done[t]
                             /\ blocked'[t] => blocked[t] \/ done'[t]
                             /\ done'[t] => \/ done[t] \/ t \in own
                                            \/ t # Running
<1> DEFINE abort == AbortTree(R)
           gone == (abort \ {Running}) \cup own
<1>1. /\ abort \in SUBSET Tasks
      /\ AbortClosed(abort)
      /\ \A t \in R : Abortable(t) => t \in abort
      /\ \A t \in abort : Abortable(t) /\ (t \in R \/ \E p \in Parents : t \in children[p])
  BY AbortTreeFacts
<1> HIDE DEF abort
<1>2. /\ \A t \in Tasks : aborted'[t] <=> aborted[t] \/ t \in abort
      /\ \A t \in Tasks : done'[t] <=> done[t] \/ t \in gone
      /\ \A t \in Tasks : blocked'[t] <=> blocked[t] \/ t \in gone
      /\ \A p \in Parents : children'[p] = children[p] \ gone
      /\ parent' = parent
  BY DEF StopTasks, abort
<1>3. \A t \in gone : t \in Tasks /\ Live(t)
  BY <1>1 DEF TreeInv
<1>4. \A t \in abort : Live(t)
  BY <1>1 DEF TreeInv
<1>5. \A t \in Tasks, p \in Parents :
        t \in children'[p] <=> Live(t)' /\ ~done'[t] /\ parent'[t] = p
  BY <1>2 DEF TreeInv, Live
<1>6. ASSUME NEW t \in Tasks, Live(t), ~done'[t], parent[t] \in Tasks
      PROVE  Live(parent[t]) /\ (done'[parent[t]] => aborted'[t])
  <2> DEFINE p == parent[t]
  <2>1. ~done[t] /\ t \notin gone
    BY <1>2, <1>6
  <2>2. t \in children[p] /\ p \in Parents /\ Live(p) /\ (done[p] => aborted[t])
    BY <1>6, <2>1 DEF TreeInv, Parents
  <2>3. CASE p \in abort \ {Running}
    <3>1. Abortable(t) => t \in abort
      BY <1>1, <2>2, <2>3 DEF AbortClosed
    <3> QED
      BY <1>2, <2>1, <2>2, <3>1 DEF Abortable
  <2>4. CASE p \in own
    <3>1. t \in R
      BY <2>2, <2>4
    <3>2. Abortable(t) => t \in abort
      BY <1>1, <3>1
    <3> QED
      BY <1>2, <2>1, <2>2, <3>2 DEF Abortable
  <2>5. CASE p \notin gone
    BY <1>2, <1>6, <2>2, <2>5
  <2> QED
    BY <2>3, <2>4, <2>5
<1>7. \A t \in Tasks : life[t] = "none" => ~done'[t] /\ ~aborted'[t]
  BY <1>2, <1>3, <1>4 DEF TreeInv, Live
<1>8. TreeInv'
  BY <1>2, <1>5, <1>6, <1>7 DEF TreeInv, Live
<1>9. DoneImpliesBlocked'
  BY <1>2 DEF DoneImpliesBlocked
<1>10. ASSUME NEW t \in Tasks
       PROVE  /\ done[t] => done'[t]
              /\ blocked[t] => blocked'[t]
              /\ t \in own => done'[t]
              /\ aborted'[t] /\ ~done'[t] =>
                   \/ t = Running /\ ~aborted[t] /\ t \notin own
                   \/ aborted[t] /\ ~done[t]
              /\ blocked'[t] => blocked[t] \/ done'[t]
              /\ done'[t] => done[t] \/ t \in own \/ t # Running
  <2>1. t \in abort => ~aborted[t] /\ ~done[t]
    BY <1>1 DEF Abortable
  <2> QED
    BY <1>2, <2>1
<1> QED
  BY <1>8, <1>9, <1>10

LEMMA InitSchedulerInv == Init => SchedulerInv
  BY DEF Init, SchedulerInv, ListInv, TreeInv, StepInv, DoneImpliesBlocked,
         PassInv, NoLostWake, NextInv, Live, Started, Contains, Parents

\* The actions that stop tasks or move the loops only read the flags they do
\* not write; each case below is one action.
LEMMA NextSchedulerInv ==
  TypeOK /\ TypeOK' /\ SchedulerInv /\ [Next]_vars => SchedulerInv'
<1> SUFFICES ASSUME TypeOK, TypeOK', SchedulerInv, [Next]_vars
             PROVE  SchedulerInv'
  OBVIOUS
<1> USE DEF treeVars, flagVars, loopVars, timerVars, SchedulerInv
<1>a. /\ DOMAIN tasks = 1 .. Len(tasks) /\ Len(tasks) \in Nat
      /\ \A k \in DOMAIN tasks : tasks[k] \in Tasks
      /\ cur \in Nat \ {0}
  BY DEF TypeOK
<1>1. ASSUME NEW t \in Tasks, NEW p \in Parents, Create(t, p)
      PROVE  SchedulerInv'
  <2>1. /\ life' = [life EXCEPT ![t] = "live"] /\ life[t] = "none"
        /\ parent' = [parent EXCEPT ![t] = p]
        /\ children' = [children EXCEPT ![p] = @ \cup {t}]
        /\ UNCHANGED <<flagVars, tasks, loopVars, wakes, next>>
        /\ p \in Tasks => Live(p) /\ ~done[p]
    BY <1>1 DEF Create
  <2>2. TreeInv'
    BY <2>1, TasksAssumption DEF TreeInv, TypeOK, Live, Parents
  <2>3. ListInv' /\ NextInv'
    BY <1>a, <2>1 DEF ListInv, NextInv, TypeOK, Live
  <2>4. StepInv' /\ DoneImpliesBlocked' /\ PassInv' /\ NoLostWake'
    BY <2>1 DEF StepInv, DoneImpliesBlocked, PassInv, NoLostWake, Started, Contains
  <2> QED
    BY <2>2, <2>3, <2>4
<1>2. ASSUME NEW t \in Tasks, Start(t)
      PROVE  SchedulerInv'
  <2>1. /\ Live(t) /\ pc \in {"idle", "process"}
        /\ \A k \in DOMAIN tasks : tasks[k] # t
        /\ tasks' = Append(tasks, t) /\ wakes' = wakes + 1
        /\ UNCHANGED <<life, treeVars, flagVars, loopVars>>
    BY <1>2 DEF Start, UserCode, Started, Contains
  <2>2. /\ DOMAIN tasks' = 1 .. Len(tasks) + 1 /\ Len(tasks') = Len(tasks) + 1
        /\ \A k \in 1 .. Len(tasks) : tasks'[k] = tasks[k]
        /\ tasks'[Len(tasks) + 1] = t
    BY <1>a, <2>1 DEF TypeOK
  <2>3. ListInv'
    BY <1>a, <2>1, <2>2 DEF ListInv, Live
  <2>4. TreeInv' /\ DoneImpliesBlocked'
    BY <2>1 DEF TreeInv, DoneImpliesBlocked, Live
  <2>5. StepInv'
    BY <1>a, <2>1, <2>2 DEF StepInv
  <2>6. PassInv' /\ NoLostWake'
    BY <2>1 DEF PassInv, NoLostWake, TypeOK
  <2>7. next' \in {t, next, NoTask} \cup {tasks[k] : k \in DOMAIN tasks}
    <3>1. due \in [Tasks -> Nat]
      BY DEF TypeOK
    <3>2. RecalcNext(t, due) = NoTask
          \/ \E k \in DOMAIN tasks : RecalcNext(t, due) = tasks[k]
      BY <3>1, RecalcNextFact
    <3> QED
      BY <1>2, <3>2 DEF Start, UpdatedNext
  <2>8. NextInv'
    BY <2>1, <2>7 DEF NextInv, ListInv, Live
  <2> QED
    BY <2>3, <2>4, <2>5, <2>6, <2>8
<1>3. ASSUME NEW t \in Tasks, Wake(t) \/ Error(t)
      PROVE  SchedulerInv'
  <2>1. /\ UNCHANGED <<life, treeVars, done, aborted, tasks, loopVars, next>>
        /\ pc \in {"idle", "process"}
        /\ WakeUp(t)
    BY <1>3 DEF Wake, Error, UserCode
  <2>2. /\ \A u \in Tasks : blocked'[u] <=> blocked[u] /\ (u = t => done[t])
        /\ wakes' >= wakes
        /\ blocked[t] /\ ~blocked'[t] => wakes' > 0
    <3>1. CASE blocked[t] /\ ~done[t]
      <4>1. wakes' = wakes + 1 /\ blocked' = [blocked EXCEPT ![t] = FALSE]
        BY <2>1, <3>1 DEF WakeUp
      <4>2. \A u \in Tasks : blocked'[u] <=> blocked[u] /\ (u = t => done[t])
        BY <3>1, <4>1, Zenon DEF TypeOK
      <4> QED
        BY <4>1, <4>2 DEF TypeOK
    <3>2. CASE ~(blocked[t] /\ ~done[t])
      BY <2>1, <3>2 DEF WakeUp, TypeOK, DoneImpliesBlocked
    <3> QED
      BY <3>1, <3>2
  <2>3. ListInv' /\ TreeInv' /\ NextInv'
    BY <2>1 DEF ListInv, TreeInv, NextInv, Live
  <2>4. DoneImpliesBlocked'
    BY <2>1, <2>2 DEF DoneImpliesBlocked
  <2>5. StepInv'
    BY <1>a, <2>1, <2>2 DEF StepInv
  <2>6. PassInv'
    BY <2>1 DEF PassInv
  <2>7. NoLostWake'
    <3> SUFFICES ASSUME pc = "idle", NEW u \in Tasks, Started(u), ~blocked'[u]
                 PROVE  wakes' > 0
      BY <2>1 DEF NoLostWake, Started, Contains
    <3>1. wakes \in Nat /\ wakes' \in Nat
      BY DEF TypeOK
    <3>2. CASE ~blocked[u]
      BY <2>2, <3>1, <3>2 DEF NoLostWake
    <3>3. CASE blocked[u]
      BY <2>2, <3>3
    <3> QED
      BY <3>2, <3>3
  <2> QED
    BY <2>3, <2>4, <2>5, <2>6, <2>7
<1>5. ASSUME NEW t \in Tasks, Abort(t)
      PROVE  SchedulerInv'
  <2>1. /\ StopTasks(AbortTree({t}), {}, "DONE") /\ "DONE" \in States
        /\ UNCHANGED <<life, tasks, loopVars, wakes, next>>
        /\ Live(t) /\ pc \in {"idle", "process"}
    BY <1>5 DEF Abort, States, UserCode
  <2>2. /\ TreeInv' /\ DoneImpliesBlocked'
        /\ \A u \in Tasks : /\ blocked[u] => blocked'[u]
                            /\ aborted'[u] /\ ~done'[u] =>
                                 u = Running \/ (aborted[u] /\ ~done[u])
                            /\ blocked'[u] => blocked[u] \/ done'[u]
                            /\ done'[u] => done[u] \/ u # Running
    BY <2>1, StopTasksInv
  <2>3. ListInv' /\ NextInv' /\ PassInv'
    BY <2>1 DEF ListInv, NextInv, PassInv, Live
  <2>4. NoLostWake'
    BY <1>a, <2>1, <2>2 DEF NoLostWake, Started, Contains
  <2>5. CASE pc = "idle"
    <3>1. Running \notin Tasks
      BY <2>5, TasksAssumption DEF Running
    <3> QED
      BY <2>1, <2>2, <2>3, <2>4, <2>5, <3>1 DEF StepInv
  <2>6. CASE pc = "process"
    <3>1. Running = tasks[cur] /\ tasks[cur] \in Tasks /\ cur \in DOMAIN tasks
      BY <1>a, <2>6 DEF Running, StepInv
    <3>2. ~done'[tasks[cur]] /\ ~blocked'[tasks[cur]]
      BY <2>2, <2>6, <3>1 DEF StepInv
    <3>3. StepInv'
      BY <2>1, <2>2, <2>6, <3>1, <3>2 DEF StepInv
    <3> QED
      BY <2>2, <2>3, <2>4, <3>3
  <2> QED
    BY <2>1, <2>5, <2>6
<1>6. ASSUME NEW t \in TimedTasks,
             \/ \E sec \in Seconds : SetTimeoutSeconds(t, sec)
             \/ \E susp \in BOOLEAN : SuspendTimeout(t, susp)
      PROVE  SchedulerInv'
  <2>1. /\ t \in Tasks /\ Live(t)
        /\ UNCHANGED <<life, treeVars, flagVars, tasks, loopVars, wakes>>
        /\ \E st, sec, susp : sec \in Nat /\ ResetTimeout(t, st, sec, susp)
    BY <1>6, BoundsAssumption DEF SetTimeoutSeconds, SuspendTimeout, TypeOK
  <2>2. next' \in {t, next, NoTask} \cup {tasks[k] : k \in DOMAIN tasks}
    BY <2>1, ResetTimeoutFacts
  <2>3. NextInv'
    BY <2>1, <2>2 DEF NextInv, ListInv, Live
  <2> QED
    BY <2>1, <2>3 DEF ListInv, TreeInv, StepInv, DoneImpliesBlocked, PassInv,
                      NoLostWake, Live, Started, Contains
<1>8. CASE Destroy
  <2>1. /\ StopTasks(AbortTree(children[Runner]), {}, "DONE") /\ "DONE" \in States
        /\ UNCHANGED <<life, tasks, wakes, next>>
        /\ pc = "idle" /\ pc' = "scan" /\ cur' = 1
    BY <1>8 DEF Destroy, States
  <2>2. /\ children[Runner] \in SUBSET Tasks
        /\ \A r \in children[Runner] : Live(r)
        /\ Running \notin Tasks
    BY <2>1, TasksAssumption DEF TypeOK, TreeInv, Parents, Running
  <2>3. /\ TreeInv' /\ DoneImpliesBlocked'
        /\ \A u \in Tasks : aborted'[u] /\ ~done'[u] => aborted[u] /\ ~done[u]
    BY <2>1, <2>2, StopTasksInv
  <2>4. ListInv' /\ NextInv'
    BY <2>1 DEF ListInv, NextInv, Live
  <2>5. StepInv'
    BY <2>1, <2>3 DEF StepInv
  <2>6. PassInv' /\ NoLostWake'
    BY <1>a, <2>1 DEF PassInv, NoLostWake
  <2> QED
    BY <2>3, <2>4, <2>5, <2>6
<1>9. CASE RunTasks
  BY <1>9, <1>a DEF RunTasks, Goto, ListInv, TreeInv, StepInv,
    DoneImpliesBlocked, PassInv, NoLostWake, NextInv, Live
<1>10. CASE RunTasksNested
  BY <1>10 DEF RunTasksNested, ListInv, TreeInv, StepInv, DoneImpliesBlocked,
    PassInv, NoLostWake, NextInv, Live
<1>11. CASE ScanSkip \/ ScanAgain \/ ScanQuiet \/ SweepKeep
  <2>1. /\ UNCHANGED <<life, treeVars, flagVars, tasks, next>>
        /\ pc \in {"scan", "sweep"} /\ pc' \in {"scan", "sweep"}
    BY <1>11 DEF ScanSkip, ScanAgain, ScanQuiet, SweepKeep, Goto
  <2>2. ListInv' /\ TreeInv' /\ DoneImpliesBlocked' /\ NextInv' /\ NoLostWake'
    BY <2>1 DEF ListInv, TreeInv, DoneImpliesBlocked, NextInv, NoLostWake, Live
  <2>3. StepInv'
    BY <1>11, <1>a, <2>1 DEF ScanSkip, ScanAgain, ScanQuiet, SweepKeep, StepInv
  <2>4. PassInv'
    <3>1. CASE ScanSkip
      BY <3>1, <1>a DEF ScanSkip, PassInv
    <3>2. CASE ScanAgain
      BY <3>2, <1>a DEF ScanAgain, PassInv
    <3>3. CASE ScanQuiet
      BY <3>3, <1>a DEF ScanQuiet, Goto, PassInv
    <3>4. CASE SweepKeep
      BY <3>4, <1>a DEF SweepKeep, PassInv
    <3> QED
      BY <1>11, <3>1, <3>2, <3>3, <3>4
  <2> QED
    BY <2>2, <2>3, <2>4
<1>12. ASSUME NEW t \in Tasks, StepEnded(t)
       PROVE  SchedulerInv'
  <2>1. /\ ~done[t] /\ t = tasks[cur] /\ cur \in DOMAIN tasks
        /\ pc = "scan" /\ pc' = "scan" /\ cur' = cur /\ didRun' = TRUE
        /\ UNCHANGED <<life, tasks, next>>
    BY <1>12, <1>a DEF StepEnded, Stepping, DoneImpliesBlocked
  <2>2. StopTasks(AbortTree(children[t]), {t}, "ERROR") /\ "ERROR" \in States
    BY <1>12, <2>1 DEF StepEnded, States
  <2>3. /\ children[t] \in SUBSET Tasks
        /\ \A r \in children[t] : Live(r)
        /\ Live(t) /\ Running \notin Tasks
    BY <2>1, TasksAssumption DEF TypeOK, TreeInv, ListInv, Parents, Running
  <2>4. /\ TreeInv' /\ DoneImpliesBlocked'
        /\ \A u \in Tasks : /\ aborted'[u] /\ ~done'[u] => aborted[u] /\ ~done[u]
                            /\ done[u] => done'[u]
        /\ done'[t]
    BY <2>1, <2>2, <2>3, StopTasksInv
  <2>5. ListInv' /\ NextInv' /\ PassInv' /\ NoLostWake'
    BY <2>1 DEF ListInv, NextInv, PassInv, NoLostWake, Live
  <2>6. StepInv'
    BY <2>1, <2>4 DEF StepInv
  <2> QED
    BY <2>4, <2>5, <2>6
<1>13. ASSUME NEW t \in Tasks, StepInit(t)
       PROVE  SchedulerInv'
  <2>1. /\ t = tasks[cur] /\ cur \in DOMAIN tasks /\ pc = "scan" /\ didRun' = TRUE
        /\ UNCHANGED <<life, treeVars, blocked, done, aborted, error, tasks, pc,
                       cur, wakes>>
    BY <1>13, <1>a DEF StepInit, Stepping
  <2>2. next' \in {t, next, NoTask} \cup {tasks[k] : k \in DOMAIN tasks}
    BY <1>13, ResetTimeoutFacts DEF StepInit, TypeOK
  <2>3. NextInv'
    BY <2>1, <2>2 DEF NextInv, ListInv, Live
  <2> QED
    BY <2>1, <2>3 DEF ListInv, TreeInv, StepInv, DoneImpliesBlocked, PassInv,
                      NoLostWake, Live
<1>14. ASSUME NEW t \in Tasks, StepProcess(t)
       PROVE  SchedulerInv'
  <2>1. /\ t = tasks[cur] /\ cur \in DOMAIN tasks /\ ~blocked[t] /\ ~done[t]
        /\ pc = "scan" /\ pc' = "process" /\ cur <= Len(tasks)
        /\ UNCHANGED <<life, treeVars, flagVars, tasks, cur, didRun, wakes>>
    BY <1>14, <1>a DEF StepProcess, Stepping
  <2>2. next' \in {t, next, NoTask} \cup {tasks[k] : k \in DOMAIN tasks}
    BY <1>14, SetDueFacts DEF StepProcess
  <2>3. NextInv'
    BY <2>1, <2>2 DEF NextInv, ListInv, Live
  <2> QED
    BY <2>1, <2>3 DEF ListInv, TreeInv, StepInv, DoneImpliesBlocked, PassInv,
                      NoLostWake, Live
<1>15. ASSUME NEW t \in Tasks, NEW new \in Results, Return(t, new)
       PROVE  SchedulerInv'
  <2>1. /\ t = tasks[cur] /\ cur \in DOMAIN tasks /\ cur <= Len(tasks)
        /\ ~blocked[t] /\ ~done[t] /\ Live(t)
        /\ pc = "process" /\ pc' = "scan" /\ didRun' = TRUE
        /\ UNCHANGED <<life, tasks, cur, wakes>>
    BY <1>15, <1>a DEF Return, StepInv, ListInv
  <2>2. PassInv' /\ NoLostWake' /\ ListInv'
    BY <2>1 DEF PassInv, NoLostWake, ListInv, Live
  <2>3. NextInv'
    <3>1. CASE aborted[t] \/ new = BLOCKED
      BY <1>15, <2>1, <3>1 DEF Return, NextInv, Live
    <3>2. CASE ~aborted[t] /\ new # BLOCKED
      <4>1. seconds[t] \in Nat /\ ResetTimeout(t, new, seconds[t], suspended[t])
        BY <1>15, <3>2 DEF Return, TypeOK
      <4>2. next' \in {t, next, NoTask} \cup {tasks[k] : k \in DOMAIN tasks}
        BY <4>1, ResetTimeoutFacts
      <4> QED
        BY <2>1, <4>2 DEF NextInv, ListInv, Live
    <3> QED
      BY <3>1, <3>2
  <2>4. TreeInv' /\ DoneImpliesBlocked' /\ StepInv'
    <3>1. CASE aborted[t]
      BY <1>15, <2>1, <3>1 DEF Return, TreeInv, DoneImpliesBlocked, StepInv, Live
    <3>2. CASE ~aborted[t] /\ new = BLOCKED
      <4>1. /\ \A u \in Tasks : blocked'[u] <=> blocked[u] \/ u = t
            /\ UNCHANGED <<treeVars, done, aborted>>
        BY <1>15, <3>2 DEF Return, TypeOK
      <4> QED
        BY <2>1, <3>2, <4>1 DEF TreeInv, DoneImpliesBlocked, StepInv, Live
    <3>3. CASE ~aborted[t] /\ new \in {"DONE", "ERROR"}
      <4>1. StopTasks(AbortTree(children[t]), {t}, new) /\ new \in States
        BY <1>15, <3>3 DEF Return, BLOCKED, States
      <4>2. /\ children[t] \in SUBSET Tasks
            /\ \A r \in children[t] : Live(r)
            /\ Running = t
        BY <2>1 DEF TypeOK, TreeInv, Parents, Running
      <4>3. /\ TreeInv' /\ DoneImpliesBlocked'
            /\ \A u \in Tasks : aborted'[u] /\ ~done'[u] =>
                                  aborted[u] /\ ~done[u]
        <5>1. /\ {t} \in SUBSET Tasks
              /\ \A u \in {t} : Live(u) /\ children[u] \subseteq children[t]
          BY <2>1
        <5>2. /\ TreeInv' /\ DoneImpliesBlocked'
              /\ \A u \in Tasks : aborted'[u] /\ ~done'[u] =>
                   \/ u = Running /\ ~aborted[u] /\ u \notin {t}
                   \/ aborted[u] /\ ~done[u]
          BY <2>1, <4>1, <4>2, <5>1, StopTasksInv
        <5> QED
          BY <4>2, <5>2
      <4> QED
        BY <2>1, <3>3, <4>3 DEF StepInv
    <3>4. CASE ~aborted[t] /\ new \notin {BLOCKED, "DONE", "ERROR"}
      <4>1. UNCHANGED <<treeVars, blocked, done, aborted>>
        BY <1>15, <2>1, <3>4 DEF Return, TypeOK
      <4> QED
        BY <2>1, <3>4, <4>1 DEF TreeInv, DoneImpliesBlocked, StepInv, Live
    <3> QED
      BY <3>1, <3>2, <3>3, <3>4
  <2> QED
    BY <2>2, <2>3, <2>4
<1>16. CASE SweepDelete
  <2> DEFINE x == tasks[cur]
  <2>1. /\ cur \in 1 .. Len(tasks) /\ x \in Tasks /\ done[x]
        /\ pc = "sweep" /\ pc' = "sweep"
        /\ life' = [life EXCEPT ![x] = "deleted"]
        /\ next' = IF next = x THEN NoTask ELSE next
        /\ UNCHANGED <<treeVars, flagVars>>
    BY <1>16, <1>a DEF SweepDelete
  <2>2. /\ DOMAIN tasks' = 1 .. Len(tasks) - 1
        /\ \A k \in DOMAIN tasks' :
             tasks'[k] = IF k < cur THEN tasks[k] ELSE tasks[k + 1]
    <3>1. tasks \in Seq(Tasks) /\ tasks' = RemoveAt(tasks, cur)
      BY <1>16 DEF SweepDelete, TypeOK
    <3>2. /\ tasks' \in Seq(Tasks) /\ Len(tasks') = Len(tasks) - 1
          /\ \A k \in 1 .. Len(tasks) - 1 :
               tasks'[k] = IF k < cur THEN tasks[k] ELSE tasks[k + 1]
      BY <2>1, <3>1, RemoveAtFacts
    <3>3. DOMAIN tasks' = 1 .. Len(tasks) - 1
      BY <3>2
    <3> QED
      BY <3>2, <3>3
  <2>3. \A k \in DOMAIN tasks' :
          \E j \in DOMAIN tasks : j # cur /\ tasks'[k] = tasks[j]
    <3> TAKE k \in DOMAIN tasks'
    <3>1. CASE k < cur
      BY <1>a, <2>1, <2>2, <3>1
    <3>2. CASE ~(k < cur)
      <4>1. k + 1 \in DOMAIN tasks /\ k + 1 # cur
        BY <1>a, <2>1, <2>2, <3>2
      <4> QED
        BY <2>2, <3>2, <4>1
    <3> QED
      BY <3>1, <3>2
  <2>4. ListInv'
    <3>1. \A k \in DOMAIN tasks' : life'[tasks'[k]] = "live"
      <4> TAKE k \in DOMAIN tasks'
      <4>1. PICK j \in DOMAIN tasks : j # cur /\ tasks'[k] = tasks[j]
        BY <2>3
      <4>2. tasks[j] # x /\ tasks[j] \in Tasks /\ life[tasks[j]] = "live"
        BY <1>a, <2>1, <4>1 DEF ListInv, Live
      <4> QED
        BY <2>1, <4>1, <4>2 DEF TypeOK
    <3>2. ASSUME NEW j \in DOMAIN tasks', NEW k \in DOMAIN tasks',
                 tasks'[j] = tasks'[k]
          PROVE  j = k
      <4> DEFINE f(n) == IF n < cur THEN n ELSE n + 1
      <4>1. f(j) \in DOMAIN tasks /\ f(k) \in DOMAIN tasks
        BY <1>a, <2>1, <2>2
      <4>2. tasks'[j] = tasks[f(j)] /\ tasks'[k] = tasks[f(k)]
        BY <2>2
      <4>3. f(j) = f(k)
        BY <3>2, <4>1, <4>2 DEF ListInv
      <4> QED
        BY <1>a, <2>1, <2>2, <4>3
    <3> QED
      BY <3>1, <3>2 DEF ListInv, Live
  <2>5. \A u \in Tasks : ~(aborted[u] /\ ~done[u])
    BY <2>1 DEF StepInv
  <2>6. TreeInv'
    <3>1. \A u \in Tasks : life'[u] = IF u = x THEN "deleted" ELSE life[u]
      BY <2>1 DEF TypeOK
    <3> QED
      BY <2>1, <2>5, <3>1 DEF TreeInv, Live
  <2>7. StepInv' /\ DoneImpliesBlocked' /\ NoLostWake'
    BY <2>1, <2>5 DEF StepInv, DoneImpliesBlocked, NoLostWake
  <2>8. PassInv'
    BY <2>1, <2>3 DEF PassInv
  <2>9. NextInv'
    BY <2>1 DEF NextInv, Live, TypeOK
  <2> QED
    BY <2>4, <2>6, <2>7, <2>8, <2>9
<1>17. CASE SweepEnd
  <2>1. /\ pc = "sweep" /\ pc' \in {"idle", "dead"}
        /\ UNCHANGED <<life, treeVars, flagVars, tasks, wakes>>
    BY <1>17 DEF SweepEnd, Goto
  <2>2. due \in [Tasks -> Nat]
    BY DEF TypeOK
  <2>3. next' = next \/ next' = RecalcNext(NoTask, due)
    BY <1>17, Zenon DEF SweepEnd
  <2>4. NextInv'
    BY <2>1, <2>2, <2>3, RecalcNextFact DEF NextInv, ListInv, Live
  <2>5. NoLostWake'
    BY <1>a, <2>1 DEF NoLostWake, PassInv, Started, Contains
  <2> QED
    BY <2>1, <2>4, <2>5 DEF ListInv, TreeInv, StepInv, DoneImpliesBlocked,
                            PassInv, Live
<1>18. CASE PollTasks
  <2>1. /\ pc = "idle" /\ wakes' > 0
        /\ UNCHANGED <<life, treeVars, done, aborted, tasks, loopVars, next>>
    BY <1>18 DEF PollTasks, TypeOK
  <2>2. \A u \in Tasks : done[u] => blocked'[u]
    BY <1>18 DEF PollTasks, TypeOK, DoneImpliesBlocked
  <2> QED
    BY <2>1, <2>2 DEF ListInv, TreeInv, StepInv, DoneImpliesBlocked, PassInv,
                      NoLostWake, NextInv, Live
<1>19. CASE Tick \/ UNCHANGED vars
  BY <1>19 DEF Tick, vars, ListInv, TreeInv, StepInv, DoneImpliesBlocked,
    PassInv, NoLostWake, NextInv, Live, Started, Contains
<1> QED
  BY <1>1, <1>2, <1>3, <1>5, <1>6, <1>8, <1>9, <1>10, <1>11, <1>12, <1>13,
     <1>14, <1>15, <1>16, <1>17, <1>18, <1>19
  DEF Next, UserCall, Steps

\* The inductive invariant holds throughout.
LEMMA SchedulerInvariant == Spec => []SchedulerInv
  BY TypeCorrect, InitSchedulerInv, NextSchedulerInv, PTL DEF Spec

\* The assertion in Step never fires: a task that has ended is blocked.
THEOREM EndedTasksStayBlocked == Spec => []DoneImpliesBlocked
<1>1. SchedulerInv => DoneImpliesBlocked
  BY DEF SchedulerInv
<1> QED
  BY <1>1, SchedulerInvariant, PTL

\* No wake-up is lost between RunTasks and the message loop, whatever user
\* code does inside its callbacks.
THEOREM WakeUpsAreKept == Spec => []NoLostWake
<1>1. SchedulerInv => NoLostWake
  BY DEF SchedulerInv
<1> QED
  BY <1>1, SchedulerInvariant, PTL

\* RunTasks frees a task only when the library has forgotten it.
THEOREM FreedTasksAreForgotten == Spec => []NoDanglingPointer
<1>1. TypeOK /\ SchedulerInv => NoDanglingPointer
  <2> SUFFICES ASSUME TypeOK, SchedulerInv PROVE NoDanglingPointer
    OBVIOUS
  <2> USE DEF SchedulerInv, Live
  <2>1. ASSUME NEW t \in Tasks, life[t] = "deleted"
        PROVE  /\ ~Started(t)
               /\ next # t
               /\ \A p \in Parents : t \notin children[p]
               /\ \A u \in Tasks : Live(u) /\ ~done[u] => parent[u] # t
    <3>1. ~Started(t)
      BY <2>1 DEF Started, Contains, ListInv, TypeOK
    <3>2. next # t
      BY <2>1, TasksAssumption DEF NextInv
    <3>3. \A p \in Parents : t \notin children[p]
      BY <2>1 DEF TreeInv
    <3>4. \A u \in Tasks : Live(u) /\ ~done[u] => parent[u] # t
      BY <2>1 DEF TreeInv
    <3> QED
      BY <3>1, <3>2, <3>3, <3>4
  <2>2. \A j, k \in DOMAIN tasks : tasks[j] = tasks[k] => j = k
    BY DEF ListInv
  <2> QED
    BY <2>1, <2>2 DEF NoDanglingPointer
<1> QED
  BY <1>1, TypeCorrect, SchedulerInvariant, PTL

-----------------------------------------------------------------------------
(* Errors and aborts.                                                      *)

\* Only Abort of a running task leaves it aborted but not ended.
AbortInv == "abortBusy" \notin Usage => \A t \in Tasks : aborted[t] => done[t]

StateInv == \A t \in Tasks : state[t] = "ERROR" => done[t]

FlagInv == AbortInv /\ StateInv /\ ChildErrorIsTrue

\* What stopping a set of live tasks does to errors and states.
LEMMA StopTasksFlags ==
  ASSUME TypeOK, TreeInv, StateInv, ChildErrorIsTrue,
         NEW R \in SUBSET Tasks, NEW own \in SUBSET Tasks, NEW st \in States,
         StopTasks(AbortTree(R), own, st), UNCHANGED life,
         \A r \in R : Live(r),
         \A t \in own : Live(t) /\ ~done[t]
  PROVE  /\ StateInv' /\ ChildErrorIsTrue'
         /\ \A t \in Tasks : /\ error'[t] /\ ~done'[t] => error[t] /\ ~done[t]
                             /\ t = Running /\ t \notin own => (error'[t] <=> error[t])
                             /\ blocked'[t] => blocked[t] \/ done'[t]
                             /\ aborted'[t] => \/ aborted[t] /\ (done[t] => done'[t])
                                               \/ done'[t]
                                               \/ t = Running /\ t \in AbortTree(R)
<1> DEFINE abort == AbortTree(R)
           gone == (abort \ {Running}) \cup own
<1>1. /\ abort \in SUBSET Tasks
      /\ \A t \in abort : Abortable(t) /\ (t \in R \/ \E p \in Parents : t \in children[p])
  BY AbortTreeFacts
<1> HIDE DEF abort
<1>2. /\ \A t \in Tasks : aborted'[t] <=> aborted[t] \/ t \in abort
      /\ \A t \in Tasks : done'[t] <=> done[t] \/ t \in gone
      /\ \A t \in Tasks : blocked'[t] <=> blocked[t] \/ t \in gone
      /\ \A t \in Tasks : error'[t] <=> \/ error[t] \/ t \in abort \ {Running}
                                        \/ t \in own /\ st = "ERROR"
      /\ \A t \in Tasks : state'[t] = IF t \in own THEN st ELSE state[t]
      /\ \A p \in Parents : childError'[p] <=>
           childError[p] \/ \E t \in gone : parent[t] = p /\ state'[t] = "ERROR"
      /\ parent' = parent
  BY DEF StopTasks, abort, HasError
<1>3. \A t \in gone : t \in Tasks /\ Live(t) /\ ~done[t]
  BY <1>1 DEF TreeInv, Abortable
<1>4. StateInv'
  BY <1>2 DEF StateInv
<1>5. ChildErrorIsTrue'
  <2> SUFFICES ASSUME NEW p \in Parents
               PROVE  childError'[p] <=> \E t \in Tasks : /\ life[t] # "none" /\ parent[t] = p
                                                          /\ state'[t] = "ERROR"
    BY <1>2 DEF ChildErrorIsTrue
  <2>1. childError[p] <=> \E t \in Tasks : /\ life[t] # "none" /\ parent[t] = p
                                           /\ state[t] = "ERROR"
    BY DEF ChildErrorIsTrue
  <2>2. \A t \in gone : life[t] # "none"
    BY <1>3 DEF Live
  <2>3. \A t \in Tasks : state[t] = "ERROR" => state'[t] = "ERROR"
    BY <1>2, <1>3 DEF StateInv
  <2>4. \A t \in Tasks : state'[t] = "ERROR" => state[t] = "ERROR" \/ t \in gone
    BY <1>2
  <2> QED
    BY <1>2, <1>3, <2>1, <2>2, <2>3, <2>4
<1>6. \A t \in Tasks : /\ error'[t] /\ ~done'[t] => error[t] /\ ~done[t]
                       /\ t = Running /\ t \notin own => (error'[t] <=> error[t])
                       /\ blocked'[t] => blocked[t] \/ done'[t]
                       /\ aborted'[t] => \/ aborted[t] /\ (done[t] => done'[t])
                                         \/ done'[t]
                                         \/ t = Running /\ t \in abort
  BY <1>2
<1> QED
  BY <1>4, <1>5, <1>6 DEF abort

LEMMA InitFlagInv == Init => FlagInv
  BY DEF Init, FlagInv, AbortInv, StateInv, ChildErrorIsTrue, Parents

\* Each case is one action, or actions that change the same flags.
LEMMA NextFlagInv ==
  TypeOK /\ TypeOK' /\ SchedulerInv /\ FlagInv /\ [Next]_vars => FlagInv'
<1> SUFFICES ASSUME TypeOK, TypeOK', SchedulerInv, FlagInv, [Next]_vars
             PROVE  FlagInv'
  OBVIOUS
<1> USE DEF treeVars, flagVars, loopVars, timerVars, SchedulerInv, FlagInv
<1>a. /\ DOMAIN tasks = 1 .. Len(tasks) /\ Len(tasks) \in Nat
      /\ \A k \in DOMAIN tasks : tasks[k] \in Tasks
      /\ cur \in Nat \ {0}
  BY DEF TypeOK
<1>1. ASSUME NEW t \in Tasks, NEW p \in Parents, Create(t, p) PROVE FlagInv'
  <2>1. /\ life' = [life EXCEPT ![t] = "live"] /\ life[t] = "none"
        /\ parent' = [parent EXCEPT ![t] = p]
        /\ UNCHANGED <<childError, flagVars, tasks, loopVars>>
    BY <1>1 DEF Create
  <2>2. state[t] # "ERROR"
    BY <2>1 DEF StateInv, TreeInv
  <2>3. ChildErrorIsTrue'
    BY <2>1, <2>2 DEF ChildErrorIsTrue, TypeOK
  <2> QED
    BY <2>1, <2>3 DEF AbortInv, StateInv
<1>2. ASSUME NEW t \in Tasks, Start(t) PROVE FlagInv'
  <2>1. /\ UNCHANGED <<life, treeVars, flagVars, loopVars>> /\ tasks' = Append(tasks, t)
    BY <1>2 DEF Start
  <2>2. pc = "process" => tasks'[cur] = tasks[cur]
    BY <1>a, <2>1 DEF StepInv, TypeOK
  <2> QED
    BY <2>1, <2>2 DEF AbortInv, StateInv, ChildErrorIsTrue
<1>3. ASSUME NEW t \in Tasks, Wake(t) \/ Error(t) PROVE FlagInv'
  <2>1. UNCHANGED <<life, treeVars, state, done, aborted>>
    BY <1>3 DEF Wake, Error
  <2> QED
    BY <2>1 DEF AbortInv, StateInv, ChildErrorIsTrue
<1>4. ASSUME NEW t \in Tasks, Abort(t) PROVE FlagInv'
  <2>1. /\ StopTasks(AbortTree({t}), {}, "DONE") /\ "DONE" \in States
        /\ UNCHANGED <<life, tasks, loopVars>> /\ Live(t)
        /\ Running \in AbortTree({t}) => "abortBusy" \in Usage
    BY <1>4 DEF Abort, States
  <2>2. /\ StateInv' /\ ChildErrorIsTrue'
        /\ \A u \in Tasks : /\ error'[u] /\ ~done'[u] => error[u] /\ ~done[u]
                            /\ u = Running => (error'[u] <=> error[u])
                            /\ blocked'[u] => blocked[u] \/ done'[u]
                            /\ aborted'[u] => \/ aborted[u] /\ (done[u] => done'[u])
                                              \/ done'[u]
                                              \/ u = Running /\ u \in AbortTree({t})
    BY <2>1, StopTasksFlags
  <2>3. pc = "process" => Running = tasks[cur] /\ tasks[cur] \in Tasks
    BY <1>a DEF Running, StepInv
  <2> QED
    BY <2>1, <2>2, <2>3 DEF AbortInv
<1>5. CASE Destroy
  <2>1. /\ StopTasks(AbortTree(children[Runner]), {}, "DONE") /\ "DONE" \in States
        /\ UNCHANGED life /\ pc = "idle" /\ pc' = "scan"
    BY <1>5 DEF Destroy, States
  <2>2. /\ children[Runner] \in SUBSET Tasks
        /\ \A r \in children[Runner] : Live(r)
        /\ Running \notin Tasks
    BY <2>1, TasksAssumption DEF TypeOK, TreeInv, Parents, Running
  <2>3. /\ StateInv' /\ ChildErrorIsTrue'
        /\ \A u \in Tasks : /\ error'[u] /\ ~done'[u] => error[u] /\ ~done[u]
                            /\ blocked'[u] => blocked[u] \/ done'[u]
                            /\ aborted'[u] => (aborted[u] /\ (done[u] => done'[u])) \/ done'[u]
    BY <2>1, <2>2, StopTasksFlags
  <2> QED
    BY <2>1, <2>3 DEF AbortInv
<1>6. ASSUME NEW t \in Tasks, StepEnded(t) PROVE FlagInv'
  <2>1. /\ ~done[t] /\ t = tasks[cur] /\ cur \in DOMAIN tasks
        /\ pc = "scan" /\ pc' = "scan" /\ UNCHANGED life /\ Live(t)
        /\ StopTasks(AbortTree(children[t]), {t}, "ERROR") /\ "ERROR" \in States
    BY <1>6, <1>a DEF StepEnded, Stepping, DoneImpliesBlocked, ListInv, States
  <2>2. /\ children[t] \in SUBSET Tasks
        /\ \A r \in children[t] : Live(r)
        /\ Running \notin Tasks
    BY <2>1, TasksAssumption DEF TypeOK, TreeInv, Parents, Running
  <2>3. /\ StateInv' /\ ChildErrorIsTrue'
        /\ \A u \in Tasks : /\ error'[u] /\ ~done'[u] => error[u] /\ ~done[u]
                            /\ blocked'[u] => blocked[u] \/ done'[u]
                            /\ aborted'[u] => (aborted[u] /\ (done[u] => done'[u])) \/ done'[u]
    BY <2>1, <2>2, StopTasksFlags
  <2> QED
    BY <2>1, <2>3 DEF AbortInv
<1>7. ASSUME NEW t \in Tasks, StepInit(t) PROVE FlagInv'
  <2>1. /\ state' = [state EXCEPT ![t] = "START"] /\ state[t] # "ERROR" /\ pc' = "scan"
        /\ UNCHANGED <<life, treeVars, blocked, done, aborted, error>>
    BY <1>7 DEF StepInit, Stepping
  <2>2. \A u \in Tasks : state'[u] = "ERROR" <=> state[u] = "ERROR"
    BY <2>1 DEF TypeOK
  <2> QED
    BY <2>1, <2>2 DEF AbortInv, StateInv, ChildErrorIsTrue
<1>8. ASSUME NEW t \in Tasks, StepProcess(t) PROVE FlagInv'
  <2>1. /\ t = tasks[cur] /\ ~error[t] /\ UNCHANGED <<life, treeVars, flagVars, tasks, cur>>
    BY <1>8 DEF StepProcess, Stepping
  <2> QED
    BY <2>1 DEF AbortInv, StateInv, ChildErrorIsTrue
<1>9. ASSUME NEW t \in Tasks, NEW new \in Results, Return(t, new) PROVE FlagInv'
  <2>1. /\ t = tasks[cur] /\ cur \in DOMAIN tasks /\ ~done[t] /\ Live(t)
        /\ pc = "process" /\ pc' = "scan" /\ UNCHANGED life
    BY <1>9, <1>a DEF Return, StepInv, ListInv
  <2>2. CASE aborted[t]
    BY <1>9, <2>1, <2>2 DEF Return, AbortInv, StateInv, ChildErrorIsTrue
  <2>3. CASE ~aborted[t] /\ new = BLOCKED
    <3>1. /\ \A u \in Tasks : blocked'[u] <=> blocked[u] \/ u = t
          /\ UNCHANGED <<treeVars, state, done, aborted, error>>
      BY <1>9, <2>3 DEF Return, TypeOK
    <3> QED
      BY <2>1, <3>1 DEF AbortInv, StateInv, ChildErrorIsTrue
  <2>4. CASE ~aborted[t] /\ new \in {"DONE", "ERROR"}
    <3>1. StopTasks(AbortTree(children[t]), {t}, new) /\ new \in States
      BY <1>9, <2>4 DEF Return, BLOCKED, States
    <3>2. /\ children[t] \in SUBSET Tasks
          /\ \A r \in children[t] : Live(r)
          /\ Running = t
      BY <2>1 DEF TypeOK, TreeInv, Parents, Running
    <3>3. /\ StateInv' /\ ChildErrorIsTrue'
          /\ \A u \in Tasks : /\ error'[u] /\ ~done'[u] => error[u] /\ ~done[u]
                              /\ blocked'[u] => blocked[u] \/ done'[u]
                              /\ aborted'[u] => \/ aborted[u] /\ (done[u] => done'[u])
                                                \/ done'[u] \/ u = t
      BY <2>1, <3>1, <3>2, StopTasksFlags
    <3>4. done'[t]
      BY <3>1 DEF StopTasks
    <3> QED
      BY <2>1, <3>3, <3>4 DEF AbortInv
  <2>5. CASE ~aborted[t] /\ new \notin {BLOCKED, "DONE", "ERROR"}
    <3>1. /\ state' = [state EXCEPT ![t] = new] /\ blocked' = [blocked EXCEPT ![t] = FALSE]
          /\ UNCHANGED <<treeVars, done, aborted, error>>
      BY <1>9, <2>5 DEF Return
    <3>2. \A u \in Tasks : /\ state'[u] = "ERROR" <=> state[u] = "ERROR"
                           /\ blocked'[u] => blocked[u]
      BY <2>1, <2>5, <3>1, Zenon DEF TypeOK, StateInv
    <3> QED
      BY <2>1, <3>1, <3>2 DEF AbortInv, StateInv, ChildErrorIsTrue
  <2> QED
    BY <2>2, <2>3, <2>4, <2>5
<1>10. CASE SweepDelete
  <2>1. /\ pc' = "sweep" /\ cur \in DOMAIN tasks /\ life' = [life EXCEPT ![tasks[cur]] = "deleted"]
        /\ UNCHANGED <<treeVars, flagVars>> /\ Live(tasks[cur])
    BY <1>10, <1>a DEF SweepDelete, ListInv
  <2>2. \A u \in Tasks : life'[u] = "none" <=> life[u] = "none"
    BY <1>a, <2>1 DEF TypeOK, Live
  <2> QED
    BY <2>1, <2>2 DEF AbortInv, StateInv, ChildErrorIsTrue
<1>11. CASE PollTasks
  <2>1. /\ pc' = "idle" /\ UNCHANGED <<life, treeVars, state, done, aborted, error>>
    BY <1>11 DEF PollTasks
  <2>2. \A u \in Tasks : blocked'[u] => blocked[u]
    BY <1>11, Zenon DEF PollTasks, TypeOK
  <2> QED
    BY <2>1, <2>2 DEF AbortInv, StateInv, ChildErrorIsTrue
<1>12. ASSUME UNCHANGED <<life, treeVars, flagVars, tasks>>,
              pc' = "process" => pc = "process" /\ cur' = cur
       PROVE  FlagInv'
  BY <1>12 DEF AbortInv, StateInv, ChildErrorIsTrue
<1>13. ASSUME NEW t \in Tasks, \/ \E sec \in Seconds : SetTimeoutSeconds(t, sec)
                               \/ \E susp \in BOOLEAN : SuspendTimeout(t, susp)
       PROVE  FlagInv'
  BY <1>12, <1>13 DEF SetTimeoutSeconds, SuspendTimeout
<1>14. CASE RunTasks \/ RunTasksNested \/ ScanSkip \/ ScanAgain \/ ScanQuiet \/ SweepKeep \/ SweepEnd
            \/ Tick \/ UNCHANGED vars
  BY <1>12, <1>14 DEF RunTasks, RunTasksNested, ScanSkip, ScanAgain, ScanQuiet, SweepKeep, SweepEnd,
    Tick, Goto, vars
<1> QED
  BY <1>1, <1>2, <1>3, <1>4, <1>5, <1>6, <1>7, <1>8, <1>9, <1>10, <1>11, <1>13, <1>14,
     BoundsAssumption
  DEF Next, UserCall, Steps

LEMMA AlwaysFlagInv == Spec => []FlagInv
  BY TypeCorrect, SchedulerInvariant, InitFlagInv, NextFlagInv, PTL DEF Spec

\* AnyChildError is true of a parent just when a child of it, freed or not, ended
\* in STATE_ERROR.
THEOREM ChildErrorsAreKnown == Spec => []ChildErrorIsTrue
<1>1. FlagInv => ChildErrorIsTrue
  BY DEF FlagInv
<1> QED
  BY <1>1, AlwaysFlagInv, PTL

\* What the steps other than Error, StepProcess and Return do to errors: no
\* task comes to wait with an error pending, none begins to run.
LEMMA QuietStep ==
  ASSUME NEW t \in Tasks,
         error'[t] /\ ~done'[t] => error[t] /\ ~done[t],
         blocked'[t] => blocked[t] \/ done'[t],
         pc' = "process" => pc = "process" /\ tasks'[cur'] = tasks[cur],
         NoTask \notin Tasks
  PROVE  /\ ErrorWaits(t)' => ErrorWaits(t)
         /\ t = Running' => t = Running
  BY DEF ErrorWaits, Running

\* A task comes to wait with its error pending only by returning
\* STATE_BLOCKED from a Process in which its own Error was called
\* (task.h:68, task.cpp:141), and no Process begins with an error pending.
THEOREM ErrorsWake == Spec => ErrorWakes
<1> USE DEF treeVars, flagVars, loopVars, timerVars
<1>1. TypeOK /\ SchedulerInv /\ FlagInv /\ [Next]_vars =>
        \A t \in Tasks :
          /\ ErrorWaits(t)' => ErrorWaits(t) \/ (t = Running /\ error[t])
          /\ t = Running' => t = Running \/ ~error[t]
  <2> SUFFICES ASSUME TypeOK, SchedulerInv, FlagInv, [Next]_vars, NEW t \in Tasks
               PROVE  /\ ErrorWaits(t)' => ErrorWaits(t) \/ (t = Running /\ error[t])
                      /\ t = Running' => t = Running \/ ~error[t]
    OBVIOUS
  <2>a. /\ DOMAIN tasks = 1 .. Len(tasks) /\ Len(tasks) \in Nat
        /\ \A k \in DOMAIN tasks : tasks[k] \in Tasks
        /\ cur \in Nat \ {0}
        /\ NoTask \notin Tasks
    BY TasksAssumption DEF TypeOK
  <2>b. pc = "process" => Running = tasks[cur] /\ cur \in DOMAIN tasks
    BY <2>a DEF SchedulerInv, StepInv, Running
  <2>1. ASSUME NEW u \in Tasks, Start(u) PROVE t = Running' => t = Running
    <3>1. tasks' = Append(tasks, u) /\ UNCHANGED <<pc, cur>>
      BY <2>1 DEF Start
    <3>2. pc = "process" => tasks'[cur] = tasks[cur]
      BY <2>a, <2>b, <3>1 DEF TypeOK
    <3> QED
      BY <3>1, <3>2, <2>a DEF Running
  <2>2. ASSUME NEW u \in Tasks, Wake(u) \/ Error(u)
        PROVE  /\ blocked'[t] => blocked[t] /\ (t = u => done[t])
               /\ error'[t] => error[t] \/ t = u
               /\ UNCHANGED <<done, tasks, pc, cur>>
    <3>1. /\ UNCHANGED <<done, tasks, loopVars>> /\ WakeUp(u)
          /\ error' = error \/ error' = [error EXCEPT ![u] = TRUE]
      BY <2>2 DEF Wake, Error
    <3>2. error'[t] => error[t] \/ t = u
      BY <3>1, Zenon DEF TypeOK
    <3>3. CASE blocked[u] /\ ~done[u]
      <4>1. blocked' = [blocked EXCEPT ![u] = FALSE]
        BY <3>1, <3>3 DEF WakeUp
      <4>2. blocked'[t] => blocked[t] /\ t # u
        BY <4>1, Zenon DEF TypeOK
      <4> QED
        BY <3>1, <3>2, <4>2
    <3>4. CASE ~(blocked[u] /\ ~done[u])
      BY <3>1, <3>2, <3>4 DEF WakeUp
    <3> QED
      BY <3>3, <3>4
  <2>3. ASSUME NEW R \in SUBSET Tasks, NEW own \in SUBSET Tasks, NEW st \in States,
               StopTasks(AbortTree(R), own, st), UNCHANGED life,
               \A r \in R : Live(r), \A u \in own : Live(u) /\ ~done[u]
        PROVE  /\ error'[t] /\ ~done'[t] => error[t] /\ ~done[t]
               /\ blocked'[t] => blocked[t] \/ done'[t]
    BY <2>3, StopTasksFlags DEF SchedulerInv, FlagInv
  <2>4. ASSUME NEW u \in Tasks, Abort(u)
        PROVE  /\ error'[t] /\ ~done'[t] => error[t] /\ ~done[t]
               /\ blocked'[t] => blocked[t] \/ done'[t]
               /\ UNCHANGED <<tasks, pc, cur>>
    <3>1. /\ StopTasks(AbortTree({u}), {}, "DONE") /\ "DONE" \in States
          /\ UNCHANGED <<life, tasks, loopVars>> /\ Live(u)
      BY <2>4 DEF Abort, States
    <3> QED
      BY <2>3, <3>1
  <2>5. CASE Destroy
    <3>1. /\ StopTasks(AbortTree(children[Runner]), {}, "DONE") /\ "DONE" \in States
          /\ UNCHANGED life /\ pc' = "scan"
      BY <2>5 DEF Destroy, States
    <3>2. children[Runner] \in SUBSET Tasks /\ \A r \in children[Runner] : Live(r)
      BY DEF SchedulerInv, TypeOK, TreeInv, Parents
    <3>3. /\ error'[t] /\ ~done'[t] => error[t] /\ ~done[t]
          /\ blocked'[t] => blocked[t] \/ done'[t]
      BY <2>3, <3>1, <3>2
    <3> QED
      BY <2>a, <3>1, <3>3, QuietStep
  <2>6. ASSUME NEW u \in Tasks, StepEnded(u)
        PROVE  /\ ErrorWaits(t)' => ErrorWaits(t)
               /\ t = Running' => t = Running
    <3>1. /\ ~done[u] /\ u = tasks[cur] /\ pc' = "scan" /\ UNCHANGED life /\ Live(u)
          /\ StopTasks(AbortTree(children[u]), {u}, "ERROR") /\ "ERROR" \in States
      BY <2>6, <2>a DEF SchedulerInv, StepEnded, Stepping, DoneImpliesBlocked, ListInv, States
    <3>2. children[u] \in SUBSET Tasks /\ \A r \in children[u] : Live(r)
      BY DEF SchedulerInv, TypeOK, TreeInv, Parents
    <3>3. /\ error'[t] /\ ~done'[t] => error[t] /\ ~done[t]
          /\ blocked'[t] => blocked[t] \/ done'[t]
      BY <2>3, <3>1, <3>2
    <3> QED
      BY <2>a, <3>1, <3>3, QuietStep
  <2>7. ASSUME NEW u \in Tasks, StepProcess(u) PROVE t = Running' => ~error[t]
    BY <2>7, <2>a DEF StepProcess, Stepping, Running
  <2>8. ASSUME NEW u \in Tasks, NEW new \in Results, Return(u, new)
        PROVE  /\ ErrorWaits(t)' => ErrorWaits(t) \/ (t = Running /\ error[t])
               /\ pc' = "scan"
    <3>1. /\ u = tasks[cur] /\ u = Running /\ ~done[u] /\ Live(u)
          /\ pc = "process" /\ pc' = "scan" /\ UNCHANGED life
      BY <2>8, <2>a, <2>b DEF Return, SchedulerInv, StepInv, ListInv
    <3>2. CASE aborted[u]
      BY <2>8, <3>1, <3>2 DEF Return, ErrorWaits
    <3>3. CASE ~aborted[u] /\ new = BLOCKED
      <4>1. /\ blocked'[t] => blocked[t] \/ t = u
            /\ UNCHANGED <<done, error>>
        BY <2>8, <3>3, Zenon DEF Return, TypeOK
      <4> QED
        BY <3>1, <4>1 DEF ErrorWaits
    <3>4. CASE ~aborted[u] /\ new \in {"DONE", "ERROR"}
      <4>1. StopTasks(AbortTree(children[u]), {u}, new) /\ new \in States
        BY <2>8, <3>4 DEF Return, BLOCKED, States
      <4>2. children[u] \in SUBSET Tasks /\ \A r \in children[u] : Live(r)
        BY DEF SchedulerInv, TypeOK, TreeInv, Parents
      <4>3. /\ error'[t] /\ ~done'[t] => error[t] /\ ~done[t]
            /\ blocked'[t] => blocked[t] \/ done'[t]
        BY <2>3, <3>1, <4>1, <4>2
      <4> QED
        BY <3>1, <4>3 DEF ErrorWaits
    <3>5. CASE ~aborted[u] /\ new \notin {BLOCKED, "DONE", "ERROR"}
      <4>1. /\ blocked'[t] => blocked[t]
            /\ UNCHANGED <<done, error>>
        BY <2>8, <3>5, Zenon DEF Return, TypeOK
      <4> QED
        BY <3>1, <4>1 DEF ErrorWaits
    <3> QED
      BY <3>1, <3>2, <3>3, <3>4, <3>5
  <2>9. CASE PollTasks
    <3>1. UNCHANGED <<done, error, tasks, pc, cur>> /\ pc = "idle"
      BY <2>9 DEF PollTasks
    <3>2. blocked'[t] => blocked[t]
      BY <2>9, Zenon DEF PollTasks, TypeOK
    <3> QED
      BY <3>1, <3>2, <2>a, QuietStep
  <2>10. ASSUME UNCHANGED flagVars, pc' = "process" => pc = "process" /\ tasks' = tasks /\ cur' = cur
         PROVE  /\ ErrorWaits(t)' => ErrorWaits(t)
                /\ t = Running' => t = Running
    BY <2>10, <2>a, QuietStep
  <2>11. ASSUME NEW u \in Tasks, \/ \E p \in Parents : Create(u, p)
                                 \/ \E sec \in Seconds : SetTimeoutSeconds(u, sec)
                                 \/ \E susp \in BOOLEAN : SuspendTimeout(u, susp)
         PROVE  /\ ErrorWaits(t)' => ErrorWaits(t)
                /\ t = Running' => t = Running
    BY <2>10, <2>11 DEF Create, SetTimeoutSeconds, SuspendTimeout
  <2>12. ASSUME NEW u \in Tasks, StepInit(u)
         PROVE  /\ ErrorWaits(t)' => ErrorWaits(t)
                /\ t = Running' => t = Running
    BY <2>12, <2>a, QuietStep DEF StepInit, Stepping
  <2>13. CASE RunTasks \/ RunTasksNested \/ ScanSkip \/ ScanAgain \/ ScanQuiet \/ SweepKeep
              \/ SweepDelete \/ SweepEnd \/ Tick \/ UNCHANGED vars
    BY <2>10, <2>13 DEF RunTasks, RunTasksNested, ScanSkip, ScanAgain, ScanQuiet, SweepKeep,
      SweepDelete, SweepEnd, Tick, Goto, vars
  <2>14. ASSUME NEW u \in Tasks, Start(u)
         PROVE  ErrorWaits(t)' => ErrorWaits(t)
    BY <2>14 DEF Start, ErrorWaits
  <2>15. ASSUME NEW u \in Tasks, Wake(u) \/ Error(u)
         PROVE  /\ ErrorWaits(t)' => ErrorWaits(t)
                /\ t = Running' => t = Running
    BY <2>15, <2>2 DEF ErrorWaits, Running
  <2>16. ASSUME NEW u \in Tasks, Abort(u)
         PROVE  /\ ErrorWaits(t)' => ErrorWaits(t)
                /\ t = Running' => t = Running
    BY <2>16, <2>4, <2>a, QuietStep
  <2>17. ASSUME NEW u \in Tasks, StepProcess(u)
         PROVE  ErrorWaits(t)' => ErrorWaits(t)
    BY <2>17 DEF StepProcess, ErrorWaits
  <2>18. ASSUME NEW u \in Tasks, NEW new \in Results, Return(u, new)
         PROVE  t = Running' => t = Running
    BY <2>18, <2>8, <2>a DEF Running
  <2> QED
    BY <2>1, <2>5, <2>6, <2>7, <2>8, <2>9, <2>11, <2>12, <2>13, <2>14, <2>15, <2>16, <2>17,
       <2>18, BoundsAssumption
    DEF Next, UserCall, Steps
<1> QED
  BY <1>1, TypeCorrect, SchedulerInvariant, AlwaysFlagInv, PTL DEF Spec, ErrorWakes

\* Unless Abort is called on the running task or an ancestor of it, nobody is
\* called back after Abort (task.h:39).
THEOREM AbortEndsCallbacks ==
  ASSUME "abortBusy" \notin Usage
  PROVE  Spec => NoCallbackAfterAbort
<1>1. TypeOK /\ FlagInv /\ [Next]_vars =>
        [pc # "process" /\ pc' = "process" => ~aborted[tasks[cur]] /\ ~done[tasks[cur]]]_vars
  <2> SUFFICES ASSUME TypeOK, FlagInv, Next, pc # "process", pc' = "process"
               PROVE  ~aborted[tasks[cur]] /\ ~done[tasks[cur]]
    OBVIOUS
  <2>1. PICK t \in Tasks : StepProcess(t)
    BY DEF Next, UserCall, Steps, Create, Start, Wake, Error, Abort, SetTimeoutSeconds,
      SuspendTimeout, Destroy, RunTasks, RunTasksNested, ScanSkip, ScanAgain, ScanQuiet,
      StepEnded, StepInit, Return, SweepKeep, SweepDelete, SweepEnd, PollTasks, Tick,
      Goto, loopVars
  <2>2. t = tasks[cur] /\ ~done[t]
    BY <2>1 DEF StepProcess, Stepping
  <2> QED
    BY <2>2 DEF FlagInv, AbortInv
<1> QED
  BY <1>1, TypeCorrect, AlwaysFlagInv, PTL DEF Spec, NoCallbackAfterAbort

-----------------------------------------------------------------------------
(* Deadlines.                                                              *)

\* A task past STATE_INIT is listed, and only such a task has a deadline.
StartInv ==
  /\ \A t \in Tasks : life[t] = "none" => state[t] = "INIT"
  /\ \A t \in Tasks : Live(t) /\ state[t] # "INIT" => Started(t)
  /\ \A t \in Tasks : due[t] > 0 => state[t] # "INIT"

NextListed == next # NoTask => Started(next)

Covered == (\E t \in Tasks : Started(t) /\ ~done[t] /\ due[t] > 0) => next # NoTask

\* Only between a deletion and the end of RunTasks may a deadline be forgotten.
DueInv == (recalc => pc = "sweep") /\ (recalc \/ Covered)

TimerInv == StartInv /\ NextListed /\ DueInv

\* What setting the deadline of a task does, the others being as they were.
LEMMA SetDueKeeps ==
  ASSUME TypeOK, NextListed, NEW t \in Tasks, NEW when \in Nat, SetDue(t, when),
         UNCHANGED tasks, when > 0 => Started(t)
  PROVE  /\ NextListed'
         /\ \A u \in Tasks : due'[u] = IF u = t THEN when ELSE due[u]
         /\ Covered => \A u \in Tasks : Started(u) /\ ~done[u] /\ due'[u] > 0 => next' # NoTask
<1>1. /\ due' = [due EXCEPT ![t] = when] /\ due' \in [Tasks -> Nat]
      /\ \A u \in Tasks : due'[u] = IF u = t THEN when ELSE due[u]
      /\ next' = UpdatedNext(t, due')
  BY DEF SetDue, TypeOK
<1>2. CASE when # 0
  <2>1. next' \in {t, next} /\ (next = NoTask => next' = t) /\ Started(t)
    BY <1>1, <1>2 DEF UpdatedNext
  <2> QED
    BY <1>1, <2>1, TasksAssumption DEF NextListed, Started
<1>3. CASE when = 0 /\ next = t
  <2>1. next' = RecalcNext(t, due')
    BY <1>1, <1>3 DEF UpdatedNext
  <2>2. \/ /\ next' = NoTask
           /\ \A k \in DOMAIN tasks : done[tasks[k]] \/ ~(due'[tasks[k]] > 0) \/ tasks[k] = t
        \/ \E k \in DOMAIN tasks : next' = tasks[k]
    <3>1. \/ /\ RecalcNext(t, due') = NoTask
             /\ \A k \in DOMAIN tasks : done[tasks[k]] \/ ~(due'[tasks[k]] > 0) \/ tasks[k] = t
          \/ \E k \in DOMAIN tasks : RecalcNext(t, due') = tasks[k]
      BY <1>1, RecalcNextFact
    <3> QED
      BY <2>1, <3>1, Zenon
  <2>3. DOMAIN tasks = 1 .. Len(tasks) /\ \A k \in DOMAIN tasks : tasks[k] \in Tasks
    BY DEF TypeOK
  <2>4. NextListed'
    BY <2>2, <2>3 DEF NextListed, Started, Contains
  <2>5. ASSUME NEW u \in Tasks, Started(u), ~done[u], due'[u] > 0, next' = NoTask PROVE FALSE
    <3>1. PICK k \in DOMAIN tasks : tasks[k] = u
      BY <2>3, <2>5 DEF Started, Contains
    <3>2. \A j \in DOMAIN tasks : next' # tasks[j]
      BY <2>3, <2>5, TasksAssumption
    <3>3. u = t
      BY <2>2, <2>5, <3>1, <3>2
    <3>4. due'[u] = 0
      BY <1>1, <1>3, <3>3
    <3> QED
      BY <2>5, <3>4
  <2> QED
    BY <1>1, <2>4, <2>5
<1>4. CASE when = 0 /\ next # t
  <2>1. next' = next
    BY <1>1, <1>4 DEF UpdatedNext
  <2>2. NextListed'
    BY <2>1 DEF NextListed, Started
  <2>3. \A u \in Tasks : due'[u] > 0 => due[u] > 0
    BY <1>1, <1>4
  <2> QED
    BY <1>1, <2>1, <2>2, <2>3 DEF Covered
<1> QED
  BY <1>2, <1>3, <1>4

LEMMA ResetTimeoutKeeps ==
  ASSUME TypeOK, NextListed, NEW t \in Tasks, NEW st, NEW sec \in Nat, NEW susp,
         ResetTimeout(t, st, sec, susp), UNCHANGED tasks, st # "INIT" => Started(t)
  PROVE  /\ NextListed'
         /\ \A u \in Tasks : due'[u] > 0 => IF u = t THEN st # "INIT" ELSE due[u] > 0
         /\ Covered => \A u \in Tasks : Started(u) /\ ~done[u] /\ due'[u] > 0 => next' # NoTask
<1> DEFINE when == IF sec # 0 /\ st \notin {"INIT", "DONE", "ERROR"} /\ ~susp
                   THEN now + sec ELSE 0
<1>1. when \in Nat /\ SetDue(t, when) /\ (when > 0 => st # "INIT")
  BY DEF ResetTimeout, TypeOK
<1> HIDE DEF when
<1> QED
  BY <1>1, SetDueKeeps

\* The deletion loop takes one task from the list.
LEMMA SweepDeleteFacts ==
  ASSUME TypeOK, ListInv, SweepDelete
  PROVE  \A u \in Tasks : Started(u)' <=> Started(u) /\ u # tasks[cur]
<1>1. cur \in 1 .. Len(tasks) /\ tasks \in Seq(Tasks) /\ tasks' = RemoveAt(tasks, cur)
      /\ Len(tasks) \in Nat /\ DOMAIN tasks = 1 .. Len(tasks)
  BY DEF SweepDelete, TypeOK
<1>2. /\ Len(tasks') = Len(tasks) - 1
      /\ \A k \in 1 .. Len(tasks) - 1 :
           tasks'[k] = IF k < cur THEN tasks[k] ELSE tasks[k + 1]
  BY <1>1, RemoveAtFacts
<1>3. ASSUME NEW u \in Tasks, Started(u)' PROVE Started(u) /\ u # tasks[cur]
  <2>1. PICK k \in 1 .. Len(tasks) - 1 : tasks'[k] = u
    BY <1>2, <1>3 DEF Started, Contains
  <2>2. PICK j \in DOMAIN tasks : j # cur /\ tasks[j] = u
    <3>1. CASE k < cur
      BY <1>1, <1>2, <2>1, <3>1
    <3>2. CASE ~(k < cur)
      <4>1. k + 1 \in DOMAIN tasks /\ k + 1 # cur
        BY <1>1, <3>2
      <4> QED
        BY <1>2, <2>1, <3>2, <4>1
    <3> QED
      BY <3>1, <3>2
  <2> QED
    BY <1>1, <2>2 DEF ListInv, Started, Contains
<1>4. ASSUME NEW u \in Tasks, Started(u), u # tasks[cur] PROVE Started(u)'
  <2>1. PICK j \in 1 .. Len(tasks) : tasks[j] = u /\ j # cur
    BY <1>4 DEF Started, Contains
  <2>2. CASE j < cur
    <3>1. j \in 1 .. Len(tasks) - 1
      BY <1>1, <2>2
    <3> QED
      BY <1>2, <2>1, <2>2, <3>1 DEF Started, Contains
  <2>3. CASE ~(j < cur)
    <3>1. j - 1 \in 1 .. Len(tasks) - 1 /\ ~(j - 1 < cur) /\ (j - 1) + 1 = j
      BY <1>1, <2>1, <2>3
    <3>2. tasks'[j - 1] = u
      BY <1>2, <2>1, <3>1
    <3> QED
      BY <1>2, <3>1, <3>2 DEF Started, Contains
  <2> QED
    BY <2>2, <2>3
<1> QED
  BY <1>3, <1>4

LEMMA InitTimerInv == Init => TimerInv
  BY DEF Init, TimerInv, StartInv, NextListed, DueInv, Covered, Started, Contains, Live

LEMMA NextTimerInv ==
  TypeOK /\ TypeOK' /\ SchedulerInv /\ TimerInv /\ [Next]_vars => TimerInv'
<1> SUFFICES ASSUME TypeOK, TypeOK', SchedulerInv, TimerInv, [Next]_vars
             PROVE  TimerInv'
  OBVIOUS
<1> USE DEF treeVars, flagVars, loopVars, timerVars, SchedulerInv, TimerInv
<1>a. /\ DOMAIN tasks = 1 .. Len(tasks) /\ Len(tasks) \in Nat
      /\ \A k \in DOMAIN tasks : tasks[k] \in Tasks
      /\ cur \in Nat \ {0}
  BY DEF TypeOK
<1>b. ASSUME NEW t, t = tasks[cur], cur <= Len(tasks) PROVE t \in Tasks /\ Started(t) /\ Live(t)
  BY <1>a, <1>b DEF Started, Contains, ListInv
\* A step that ends tasks at most, and changes no deadline.
<1>c. ASSUME UNCHANGED <<life, tasks, due, next>>, recalc' = recalc, pc # "sweep" \/ pc' = "sweep",
             \A u \in Tasks : done[u] => done'[u],
             \A u \in Tasks : state'[u] = state[u] \/ (state'[u] # "INIT" /\ Started(u) /\ Live(u))
      PROVE  TimerInv'
  <2>1. StartInv'
    BY <1>c DEF StartInv, Live, Started
  <2>2. NextListed'
    BY <1>c DEF NextListed, Started
  <2>3. DueInv'
    BY <1>c DEF DueInv, Covered, Started
  <2> QED
    BY <2>1, <2>2, <2>3
\* A step that sets the deadline of one task as its state allows.
<1>d. ASSUME NEW t \in Tasks, NEW st, NEW susp, ResetTimeout(t, st, seconds'[t], susp),
             Live(t), st # "INIT" => Started(t), UNCHANGED <<life, tasks, recalc>>,
             pc \in {"idle", "scan", "process"},
             \A u \in Tasks : done[u] => done'[u],
             \A u \in Tasks : IF u = t THEN state'[t] = st ELSE state'[u] = state[u]
      PROVE  TimerInv'
  <2>1. seconds'[t] \in Nat
    BY DEF TypeOK
  <2>2. /\ NextListed'
        /\ \A u \in Tasks : due'[u] > 0 => IF u = t THEN st # "INIT" ELSE due[u] > 0
        /\ Covered => \A u \in Tasks : Started(u) /\ ~done[u] /\ due'[u] > 0 => next' # NoTask
    BY <1>d, <2>1, ResetTimeoutKeeps
  <2>3. StartInv'
    BY <1>d, <2>2 DEF StartInv, Live, Started
  <2>4. DueInv'
    BY <1>d, <2>2 DEF DueInv, Covered, Started
  <2> QED
    BY <2>2, <2>3, <2>4
<1>1. ASSUME NEW t \in Tasks, NEW p \in Parents, Create(t, p) PROVE TimerInv'
  <2>1. /\ life' = [life EXCEPT ![t] = "live"] /\ life[t] = "none"
        /\ UNCHANGED <<flagVars, tasks, loopVars, timerVars>>
    BY <1>1 DEF Create
  <2>2. StartInv'
    BY <2>1 DEF StartInv, Live, Started, TypeOK
  <2> QED
    BY <2>1, <2>2 DEF NextListed, DueInv, Covered, Started
<1>2. ASSUME NEW t \in Tasks, Start(t) PROVE TimerInv'
  <2>1. /\ ~Started(t) /\ state[t] = "INIT" /\ tasks' = Append(tasks, t)
        /\ next' = UpdatedNext(t, due) /\ pc \in {"idle", "process"}
        /\ UNCHANGED <<life, flagVars, loopVars, due>>
    BY <1>2 DEF Start, UserCode
  <2>2. due[t] = 0 /\ next # t
    BY <2>1, TasksAssumption DEF StartInv, NextListed, TypeOK
  <2>3. next' = next
    BY <2>1, <2>2 DEF UpdatedNext
  <2>4. \A u \in Tasks : Started(u)' <=> Started(u) \/ u = t
    <3>1. /\ Len(tasks') = Len(tasks) + 1
          /\ \A k \in 1 .. Len(tasks) : tasks'[k] = tasks[k]
          /\ tasks'[Len(tasks) + 1] = t
      BY <1>a, <2>1 DEF TypeOK
    <3> QED
      BY <1>a, <3>1 DEF Started, Contains
  <2>5. StartInv'
    BY <2>1, <2>4 DEF StartInv, Live
  <2>6. NextListed'
    BY <2>3, <2>4 DEF NextListed, TypeOK
  <2>7. DueInv'
    BY <2>1, <2>2, <2>3, <2>4 DEF DueInv, Covered
  <2> QED
    BY <2>5, <2>6, <2>7
<1>3. ASSUME NEW t \in Tasks, Wake(t) \/ Error(t) PROVE TimerInv'
  BY <1>3, <1>c DEF Wake, Error
<1>4. ASSUME NEW t \in Tasks, Abort(t) PROVE TimerInv'
  <2>1. \A u \in Tasks : (done[u] => done'[u]) /\ state'[u] = state[u]
    BY <1>4 DEF Abort, StopTasks
  <2> QED
    BY <1>4, <1>c, <2>1 DEF Abort
<1>5. CASE Destroy
  <2>1. \A u \in Tasks : (done[u] => done'[u]) /\ state'[u] = state[u]
    BY <1>5 DEF Destroy, StopTasks
  <2>2. ~recalc /\ recalc' = FALSE /\ pc = "idle" /\ UNCHANGED <<life, tasks, due, next>>
    BY <1>5 DEF Destroy, DueInv
  <2> QED
    BY <1>c, <2>1, <2>2 DEF TypeOK
<1>6. ASSUME NEW t \in Tasks, NEW sec \in Seconds, SetTimeoutSeconds(t, sec) PROVE TimerInv'
  <2>1. /\ seconds'[t] = sec /\ ResetTimeout(t, state[t], sec, suspended[t])
        /\ Live(t) /\ pc \in {"idle", "process"}
        /\ UNCHANGED <<life, tasks, recalc, done, state>>
    BY <1>6 DEF SetTimeoutSeconds, UserCode, TypeOK
  <2>2. state[t] # "INIT" => Started(t)
    BY <2>1 DEF StartInv
  <2> QED
    BY <1>d, <2>1, <2>2
<1>7. ASSUME NEW t \in Tasks, NEW susp \in BOOLEAN, SuspendTimeout(t, susp) PROVE TimerInv'
  <2>1. /\ seconds'[t] = seconds[t] /\ ResetTimeout(t, state[t], seconds[t], susp)
        /\ Live(t) /\ pc \in {"idle", "process"}
        /\ UNCHANGED <<life, tasks, recalc, done, state>>
    BY <1>7 DEF SuspendTimeout, UserCode
  <2>2. state[t] # "INIT" => Started(t)
    BY <2>1 DEF StartInv
  <2> QED
    BY <1>d, <2>1, <2>2
<1>8. ASSUME NEW t \in Tasks, StepEnded(t) PROVE TimerInv'
  <2>1. /\ Started(t) /\ Live(t) /\ ~done[t] /\ StopTasks(AbortTree(children[t]), {t}, "ERROR")
        /\ UNCHANGED <<life, tasks, pc, recalc, due, next>>
    BY <1>8, <1>b DEF StepEnded, Stepping, DoneImpliesBlocked
  <2>2. \A u \in Tasks : /\ done[u] => done'[u]
                         /\ state'[u] = state[u] \/ (state'[u] # "INIT" /\ Started(u) /\ Live(u))
    BY <2>1 DEF StopTasks
  <2> QED
    BY <1>c, <2>1, <2>2
<1>9. ASSUME NEW t \in Tasks, StepInit(t) PROVE TimerInv'
  <2>1. /\ Started(t) /\ Live(t) /\ pc = "scan" /\ seconds' = seconds
        /\ ResetTimeout(t, "START", seconds[t], suspended[t])
        /\ state' = [state EXCEPT ![t] = "START"] /\ UNCHANGED <<life, tasks, recalc, done>>
    BY <1>9, <1>b DEF StepInit, Stepping
  <2>2. \A u \in Tasks : IF u = t THEN state'[t] = "START" ELSE state'[u] = state[u]
    BY <2>1 DEF TypeOK
  <2> QED
    BY <1>d, <2>1, <2>2
<1>10. ASSUME NEW t \in Tasks, StepProcess(t) PROVE TimerInv'
  <2>1. /\ pc = "scan" /\ UNCHANGED <<life, tasks, recalc, done, state>>
    BY <1>10 DEF StepProcess, Stepping
  <2>2. CASE UNCHANGED <<due, next>>
    BY <1>c, <2>1, <2>2
  <2>3. CASE SetDue(t, 0)
    <3>1. /\ NextListed'
          /\ \A u \in Tasks : due'[u] = IF u = t THEN 0 ELSE due[u]
          /\ Covered => \A u \in Tasks : Started(u) /\ ~done[u] /\ due'[u] > 0 => next' # NoTask
      BY <2>1, <2>3, SetDueKeeps
    <3>2. StartInv'
      BY <2>1, <3>1 DEF StartInv, Live, Started
    <3>3. DueInv'
      BY <2>1, <3>1 DEF DueInv, Covered, Started
    <3> QED
      BY <3>1, <3>2, <3>3
  <2> QED
    BY <1>10, <2>2, <2>3 DEF StepProcess
<1>11. ASSUME NEW t \in Tasks, NEW new \in Results, Return(t, new) PROVE TimerInv'
  <2>1. /\ Started(t) /\ Live(t) /\ pc = "process" /\ UNCHANGED <<life, tasks, recalc, seconds>>
    BY <1>11, <1>b DEF Return, StepInv
  <2>2. CASE aborted[t] \/ new = BLOCKED
    <3>1. UNCHANGED <<state, done, due, next>>
      BY <1>11, <2>2 DEF Return
    <3> QED
      BY <1>c, <2>1, <3>1
  <2>3. CASE ~aborted[t] /\ new # BLOCKED
    <3>1. ResetTimeout(t, new, seconds[t], suspended[t])
      BY <1>11, <2>3 DEF Return
    <3>2. /\ \A u \in Tasks : done[u] => done'[u]
          /\ \A u \in Tasks : IF u = t THEN state'[t] = new ELSE state'[u] = state[u]
      <4>1. CASE new \in {"DONE", "ERROR"}
        BY <1>11, <2>3, <4>1 DEF Return, StopTasks
      <4>2. CASE new \notin {"DONE", "ERROR"}
        BY <1>11, <2>3, <4>2 DEF Return, TypeOK
      <4> QED
        BY <4>1, <4>2
    <3> QED
      BY <1>d, <2>1, <3>1, <3>2
  <2> QED
    BY <2>2, <2>3
<1>12. CASE SweepDelete
  <2>1. /\ cur <= Len(tasks) /\ pc' = "sweep" /\ life' = [life EXCEPT ![tasks[cur]] = "deleted"]
        /\ next' = (IF next = tasks[cur] THEN NoTask ELSE next)
        /\ recalc' = (recalc \/ next = tasks[cur])
        /\ UNCHANGED <<flagVars, due>>
    BY <1>12 DEF SweepDelete
  <2>2. \A u \in Tasks : Started(u)' <=> Started(u) /\ u # tasks[cur]
    BY <1>12, SweepDeleteFacts
  <2>3. StartInv'
    BY <2>1, <2>2 DEF StartInv, Live, TypeOK
  <2>4. NextListed'
    BY <2>1, <2>2 DEF NextListed, TypeOK
  <2>5. DueInv'
    BY <2>1, <2>2 DEF DueInv, Covered
  <2> QED
    BY <2>3, <2>4, <2>5
<1>13. CASE SweepEnd
  <2>1. /\ UNCHANGED <<life, flagVars, tasks, due>> /\ recalc' = FALSE
        /\ next' = IF recalc THEN RecalcNext(NoTask, due) ELSE next
    BY <1>13 DEF SweepEnd
  <2>2. CASE ~recalc
    BY <2>1, <2>2 DEF StartInv, NextListed, DueInv, Covered, Live, Started
  <2>3. CASE recalc
    <3>1. due \in [Tasks -> Nat] /\ next' = RecalcNext(NoTask, due)
      BY <2>1, <2>3 DEF TypeOK
    <3>2. \/ /\ RecalcNext(NoTask, due) = NoTask
             /\ \A k \in DOMAIN tasks :
                  done[tasks[k]] \/ ~(due[tasks[k]] > 0) \/ tasks[k] = NoTask
          \/ \E k \in DOMAIN tasks : RecalcNext(NoTask, due) = tasks[k]
      BY <3>1, RecalcNextFact
    <3>3. CASE \E k \in DOMAIN tasks : RecalcNext(NoTask, due) = tasks[k]
      <4>1. next' \in Tasks /\ NextListed'
        BY <1>a, <2>1, <3>1, <3>3 DEF NextListed, Started, Contains
      <4> QED
        BY <2>1, <4>1, TasksAssumption DEF StartInv, DueInv, Covered, Live, Started
    <3>4. CASE /\ RecalcNext(NoTask, due) = NoTask
               /\ \A k \in DOMAIN tasks :
                    done[tasks[k]] \/ ~(due[tasks[k]] > 0) \/ tasks[k] = NoTask
      <4>1. \A u \in Tasks : Started(u) => done[u] \/ ~(due[u] > 0)
        BY <1>a, <3>4, TasksAssumption DEF Started, Contains
      <4> QED
        BY <2>1, <3>1, <3>4, <4>1 DEF StartInv, NextListed, DueInv, Covered, Live, Started
    <3> QED
      BY <3>2, <3>3, <3>4
  <2> QED
    BY <2>2, <2>3
<1>14. CASE RunTasks
  <2>1. ~recalc /\ recalc' = FALSE /\ pc = "idle" /\ UNCHANGED <<life, tasks, due, next, done, state>>
    BY <1>14 DEF RunTasks, DueInv
  <2> QED
    BY <1>c, <2>1 DEF TypeOK
<1>15. CASE RunTasksNested \/ ScanSkip \/ ScanAgain \/ ScanQuiet \/ SweepKeep \/ PollTasks \/ Tick
            \/ UNCHANGED vars
  BY <1>15, <1>c DEF RunTasksNested, ScanSkip, ScanAgain, ScanQuiet, SweepKeep, PollTasks, Tick,
    Goto, vars
<1> QED
  BY <1>1, <1>2, <1>3, <1>4, <1>5, <1>6, <1>7, <1>8, <1>9, <1>10, <1>11, <1>12, <1>13, <1>14,
     <1>15, BoundsAssumption
  DEF Next, UserCall, Steps

LEMMA AlwaysTimerInv == Spec => []TimerInv
  BY TypeCorrect, SchedulerInvariant, InitTimerInv, NextTimerInv, PTL DEF Spec

\* Whenever PollTasks may be called and a task that has not ended has a deadline,
\* next_timeout_task_ is a task (task.cpp:345-349).
THEOREM DeadlinesArePolled == Spec => []DeadlinePolled
<1>1. TimerInv => DeadlinePolled
  BY DEF TimerInv, DueInv, Covered, DeadlinePolled
<1> QED
  BY <1>1, AlwaysTimerInv, PTL

-----------------------------------------------------------------------------
(* ~TaskRunner.                                                            *)

\* No task that has not ended is its own ancestor.
Acyclic ==
  \A S \in SUBSET {t \in Tasks : Live(t) /\ ~done[t]} :
    S # {} => \E t \in S : parent[t] \notin S

\* From AbortAllChildren on every task has ended; RunTasks only marks the tasks
\* blocked and deletes them all, always in the first slot.
DyingInv ==
  dying =>
    /\ \A t \in Tasks : Live(t) => done[t]
    /\ pc \in {"scan", "sweep", "dead"} /\ (pc = "sweep" => cur = 1)
    /\ pc = "dead" => tasks = <<>> /\ next = NoTask

\* Aborting the top-level tasks from the message loop ends every task: each is the
\* descendant of one.
LEMMA AbortAllEndsAll ==
  ASSUME TypeOK, SchedulerInv, Acyclic, pc = "idle",
         StopTasks(AbortTree(children[Runner]), {}, "DONE")
  PROVE  \A t \in Tasks : Live(t) => done'[t]
<1> DEFINE abort == AbortTree(children[Runner])
           S == {t \in Tasks : Live(t) /\ ~done[t] /\ t \notin abort}
<1>1. Running = NoTask /\ NoTask \notin Tasks /\ children[Runner] \in SUBSET Tasks
  BY TasksAssumption DEF Running, TypeOK, Parents
<1>2. /\ abort \in SUBSET Tasks /\ AbortClosed(abort)
      /\ \A t \in children[Runner] : Abortable(t) => t \in abort
  BY <1>1, AbortTreeFacts
<1>3. \A t \in Tasks : Live(t) /\ ~done[t] => Abortable(t)
  BY DEF SchedulerInv, StepInv, Abortable
<1>4. ASSUME S # {} PROVE FALSE
  <2>1. S \in SUBSET {t \in Tasks : Live(t) /\ ~done[t]}
    OBVIOUS
  <2>2. PICK t \in S : parent[t] \notin S
    BY <1>4, <2>1 DEF Acyclic
  <2>3. /\ t \in Tasks /\ Live(t) /\ ~done[t] /\ t \notin abort /\ Abortable(t)
        /\ parent[t] \in Parents /\ t \in children[parent[t]]
    BY <1>3, <2>2 DEF SchedulerInv, TreeInv, TypeOK
  <2>4. CASE parent[t] = Runner
    BY <1>2, <2>3, <2>4
  <2>5. CASE parent[t] \in Tasks
    <3>1. Live(parent[t]) /\ ~done[parent[t]]
      BY <2>3, <2>5 DEF SchedulerInv, TreeInv, Abortable
    <3>2. parent[t] \in abort \ {Running}
      BY <1>1, <2>2, <2>5, <3>1
    <3>3. t \in abort
      BY <1>2, <2>3, <3>2 DEF AbortClosed
    <3> QED
      BY <2>3, <3>3
  <2> QED
    BY <2>3, <2>4, <2>5 DEF Parents
<1>5. \A t \in Tasks : done'[t] <=> done[t] \/ t \in abort \ {Running}
  BY DEF StopTasks
<1> QED
  BY <1>1, <1>4, <1>5

\* A step makes a new task under one that exists, or leaves parent_ alone.
LEMMA NextAcyclic ==
  TypeOK /\ SchedulerInv /\ Acyclic /\ [Next]_vars => Acyclic'
<1> SUFFICES ASSUME TypeOK, SchedulerInv, Acyclic, [Next]_vars PROVE Acyclic'
  OBVIOUS
<1> USE DEF treeVars, flagVars, loopVars, timerVars
<1>1. ASSUME NEW t \in Tasks, NEW p \in Parents, Create(t, p) PROVE Acyclic'
  <2>1. /\ life' = [life EXCEPT ![t] = "live"] /\ life[t] = "none" /\ done' = done
        /\ parent' = [parent EXCEPT ![t] = p] /\ p # t
    BY <1>1, TasksAssumption DEF Create, Live, Parents
  <2> SUFFICES ASSUME NEW S \in SUBSET {u \in Tasks : Live(u)' /\ ~done'[u]}, S # {}
               PROVE  \E u \in S : parent'[u] \notin S
    BY DEF Acyclic
  <2>2. CASE S = {t}
    BY <2>1, <2>2 DEF TypeOK
  <2>3. CASE S # {t}
    <3>1. S \ {t} \in SUBSET {u \in Tasks : Live(u) /\ ~done[u]} /\ S \ {t} # {}
      BY <2>1, <2>3 DEF Live, TypeOK
    <3>2. PICK u \in S \ {t} : parent[u] \notin S \ {t}
      BY <3>1 DEF Acyclic
    <3>3. parent[u] # t
      BY <2>1, <3>1, <3>2 DEF SchedulerInv, TreeInv, Live
    <3>4. parent'[u] = parent[u]
      BY <2>1, <3>2 DEF TypeOK
    <3> QED
      BY <3>2, <3>3, <3>4
  <2> QED
    BY <2>2, <2>3
<1>2. ASSUME parent' = parent, \A u \in Tasks : done[u] => done'[u],
             \A u \in Tasks : Live(u)' => Live(u)
      PROVE  Acyclic'
  BY <1>2 DEF Acyclic
<1>3. ASSUME NEW t \in Tasks, Abort(t) PROVE Acyclic'
  BY <1>2, <1>3 DEF Abort, StopTasks, Live
<1>4. CASE Destroy
  BY <1>2, <1>4 DEF Destroy, StopTasks, Live
<1>5. ASSUME NEW t \in Tasks, StepEnded(t) PROVE Acyclic'
  <2>1. \A u \in Tasks : done[u] => done'[u]
    BY <1>5 DEF StepEnded, StopTasks
  <2>2. UNCHANGED <<life, parent>>
    BY <1>5 DEF StepEnded, StopTasks
  <2> QED
    BY <1>2, <2>1, <2>2 DEF Live
<1>6. ASSUME NEW t \in Tasks, NEW new \in Results, Return(t, new) PROVE Acyclic'
  <2>1. \A u \in Tasks : done[u] => done'[u]
    BY <1>6 DEF Return, StopTasks
  <2>2. UNCHANGED <<life, parent>>
    BY <1>6 DEF Return, StopTasks
  <2> QED
    BY <1>2, <2>1, <2>2 DEF Live
<1>7. CASE SweepDelete
  <2>1. UNCHANGED <<parent, done>> /\ \A u \in Tasks : Live(u)' => Live(u)
    BY <1>7 DEF SweepDelete, Live, TypeOK
  <2> QED
    BY <1>2, <2>1
<1>8. ASSUME UNCHANGED <<life, parent, done>> PROVE Acyclic'
  BY <1>2, <1>8 DEF Live
<1>9. ASSUME NEW t \in Tasks,
             \/ Start(t) \/ Wake(t) \/ Error(t) \/ StepInit(t) \/ StepProcess(t)
             \/ \E sec \in Seconds : SetTimeoutSeconds(t, sec)
             \/ \E susp \in BOOLEAN : SuspendTimeout(t, susp)
      PROVE  Acyclic'
  BY <1>8, <1>9 DEF Start, Wake, Error, StepInit, StepProcess, SetTimeoutSeconds, SuspendTimeout
<1>10. CASE RunTasks \/ RunTasksNested \/ ScanSkip \/ ScanAgain \/ ScanQuiet \/ SweepKeep \/ SweepEnd
            \/ PollTasks \/ Tick \/ UNCHANGED vars
  BY <1>8, <1>10 DEF RunTasks, RunTasksNested, ScanSkip, ScanAgain, ScanQuiet, SweepKeep, SweepEnd,
    PollTasks, Tick, vars
<1> QED
  BY <1>1, <1>3, <1>4, <1>5, <1>6, <1>7, <1>9, <1>10, BoundsAssumption
  DEF Next, UserCall, Steps

LEMMA NextDyingInv ==
  TypeOK /\ SchedulerInv /\ TimerInv /\ Acyclic /\ DyingInv /\ [Next]_vars => DyingInv'
<1> SUFFICES ASSUME TypeOK, SchedulerInv, TimerInv, Acyclic, DyingInv, [Next]_vars, dying'
             PROVE  /\ \A t \in Tasks : Live(t)' => done'[t]
                    /\ pc' \in {"scan", "sweep", "dead"} /\ (pc' = "sweep" => cur' = 1)
                    /\ pc' = "dead" => tasks' = <<>> /\ next' = NoTask
  BY DEF DyingInv
<1> USE DEF treeVars, flagVars, loopVars, timerVars
<1>1. CASE ~dying
  <2>1. Destroy
    BY <1>1 DEF Next, UserCall, Steps, Create, Start, Wake, Error, Abort, SetTimeoutSeconds,
      SuspendTimeout, RunTasks, RunTasksNested, ScanSkip, ScanAgain, ScanQuiet, StepEnded,
      StepInit, StepProcess, Return, SweepKeep, SweepDelete, SweepEnd, PollTasks, Tick, vars
  <2>2. \A t \in Tasks : Live(t) => done'[t]
    BY <2>1, AbortAllEndsAll DEF Destroy
  <2> QED
    BY <2>1, <2>2 DEF Destroy, Live
<1>2. CASE dying
  <2>a. /\ \A t \in Tasks : Live(t) => done[t]
        /\ pc \in {"scan", "sweep", "dead"} /\ (pc = "sweep" => cur = 1)
        /\ pc = "dead" => tasks = <<>> /\ next = NoTask
    BY <1>2 DEF DyingInv
  <2>b. cur <= Len(tasks) => tasks[cur] \in Tasks /\ Live(tasks[cur]) /\ done[tasks[cur]]
    <3>1. cur <= Len(tasks) => cur \in DOMAIN tasks /\ tasks[cur] \in Tasks
      BY DEF TypeOK
    <3> QED
      BY <2>a, <3>1 DEF SchedulerInv, ListInv
  <2>1. ASSUME NEW t \in Tasks, StepEnded(t) \/ StepInit(t) \/ StepProcess(t)
        PROVE  UNCHANGED <<life, done, tasks, pc, cur, next>>
    BY <2>1, <2>b DEF StepEnded, StepInit, StepProcess, Stepping
  <2>2. CASE ScanSkip \/ ScanAgain \/ ScanQuiet
    BY <2>2, <2>a DEF ScanSkip, ScanAgain, ScanQuiet, Goto, Live
  <2>3. ~SweepKeep
    BY <2>b DEF SweepKeep
  <2>4. CASE SweepDelete
    <3>1. \A t \in Tasks : Live(t)' => Live(t)
      BY <2>4 DEF SweepDelete, Live, TypeOK
    <3> QED
      BY <2>4, <2>a, <3>1 DEF SweepDelete
  <2>5. CASE SweepEnd
    <3>1. /\ cur = 1 /\ Len(tasks) = 0 /\ pc' = "dead" /\ cur' = 1
          /\ UNCHANGED <<life, done, tasks>>
          /\ next' = IF recalc THEN RecalcNext(NoTask, due) ELSE next
      BY <1>2, <2>5, <2>a DEF SweepEnd, Goto, TypeOK
    <3>2. tasks = <<>> /\ DOMAIN tasks = {}
      BY <3>1 DEF TypeOK
    <3>3. next = NoTask
      BY <3>1 DEF TimerInv, NextListed, Started, Contains
    <3>4. RecalcNext(NoTask, due) = NoTask
      <4>1. due \in [Tasks -> Nat]
        BY DEF TypeOK
      <4>2. \/ RecalcNext(NoTask, due) = NoTask
            \/ \E k \in DOMAIN tasks : RecalcNext(NoTask, due) = tasks[k]
        BY <4>1, RecalcNextFact
      <4> QED
        BY <3>2, <4>2
    <3> QED
      BY <2>a, <3>1, <3>2, <3>3, <3>4 DEF Live
  <2>6. CASE Tick \/ UNCHANGED vars
    BY <2>6, <2>a DEF Tick, vars, Live
  <2>7. ~UserCall /\ ~RunTasks /\ ~RunTasksNested /\ ~PollTasks
        /\ ~\E t \in Tasks, new \in Results : Return(t, new)
    BY <1>2, <2>a DEF UserCall, UserCode, Create, Start, Wake, Error, Abort, SetTimeoutSeconds,
      SuspendTimeout, Destroy, RunTasks, RunTasksNested, PollTasks, Return
  <2>8. CASE \E t \in Tasks : StepEnded(t) \/ StepInit(t) \/ StepProcess(t)
    BY <2>1, <2>8, <2>a DEF Live
  <2> QED
    BY <2>2, <2>3, <2>4, <2>5, <2>6, <2>7, <2>8 DEF Next, Steps
<1> QED
  BY <1>1, <1>2 DEF TypeOK

LEMMA AlwaysDyingInv == Spec => [](Acyclic /\ DyingInv)
<1>1. Init => Acyclic /\ DyingInv
  BY DEF Init, Acyclic, DyingInv, Live
<1> QED
  BY <1>1, NextAcyclic, NextDyingInv, TypeCorrect, SchedulerInvariant, AlwaysTimerInv, PTL DEF Spec

\* ~TaskRunner calls no task back and frees every task that was started
\* (task.cpp:281-285).
THEOREM DestructionIsSilent == Spec => []DestroyIsSilent
<1>1. TypeOK /\ DyingInv /\ (pc = "dead" => dying) => DestroyIsSilent
  BY DEF DyingInv, DestroyIsSilent
<1>2. Spec => [](pc = "dead" => dying)
  <2>1. Init => (pc = "dead" => dying)
    BY DEF Init
  <2>2. (pc = "dead" => dying) /\ [Next]_vars => (pc = "dead" => dying)'
    BY DEF Next, UserCall, Steps, Create, Start, Wake, Error, Abort, SetTimeoutSeconds,
      SuspendTimeout, Destroy, RunTasks, RunTasksNested, ScanSkip, ScanAgain, ScanQuiet, StepEnded,
      StepInit, StepProcess, Return, SweepKeep, SweepDelete, SweepEnd, PollTasks, Tick, vars,
      Goto, loopVars
  <2> QED
    BY <2>1, <2>2, PTL DEF Spec
<1> QED
  BY <1>1, <1>2, TypeCorrect, AlwaysDyingInv, PTL
=============================================================================
