SPECIFICATION Spec
CONSTANTS
  t1 = t1
  t2 = t2
  t3 = t3
  Tasks = {t1, t2}
  Runner = Runner
  NoTask = NoTask
  Usage = {"abortBusy"}
  TimedTasks = {}
  Seconds = {}
  MaxWakes = 2
  MaxTime = 1
PROPERTIES
  NoCallbackAfterAbort
CHECK_DEADLOCK FALSE
