SPECIFICATION Spec
CONSTANTS
  t1 = t1
  t2 = t2
  t3 = t3
  Tasks = {t1, t2, t3}
  Runner = Runner
  NoTask = NoTask
  Usage = {}
  TimedTasks = {}
  Seconds = {}
  MaxWakes = 2
  MaxTime = 1
INVARIANTS
  TypeOK
  DoneImpliesBlocked
  NoLostWake
  NoDanglingPointer
  ChildErrorIsTrue
  DestroyIsSilent
PROPERTIES
  ErrorWakes
  NoCallbackAfterAbort
CHECK_DEADLOCK FALSE
SYMMETRY Symmetry
