--------------------------- MODULE ActionSequence ---------------------------
(***************************************************************************)
(* What SiteTasks promise their owner (studio/engine/infoengine.h): the    *)
(* actions of the site, numbered from 0 to Last, are answered one after the *)
(* other, each once, and SignalDone comes after the last answer.           *)
(***************************************************************************)
EXTENDS Naturals, Sequences

CONSTANTS
  Tasks,
  Last              \* index of the last action
VARIABLES
  answered,         \* the actions SignalActionResponse was emitted for
  done              \* has SignalDone been emitted

Init ==
  /\ answered = [t \in Tasks |-> <<>>]
  /\ done = [t \in Tasks |-> FALSE]

Answer(t) ==
  /\ ~done[t] /\ Len(answered[t]) <= Last
  /\ answered' = [answered EXCEPT ![t] = Append(@, Len(@))]
  /\ UNCHANGED done

Finish(t) ==
  /\ ~done[t] /\ Len(answered[t]) = Last + 1
  /\ done' = [done EXCEPT ![t] = TRUE]
  /\ UNCHANGED answered

Next == \E t \in Tasks : Answer(t) \/ Finish(t)

Spec == Init /\ [][Next]_<<answered, done>>
=============================================================================
