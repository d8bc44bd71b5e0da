SPECIFICATION FairSpec
CONSTANTS
  t1 = t1
  t2 = t2
  t3 = t3
  Tasks = {t1, t2}
  Runner = Runner
  NoTask = NoTask
  Usage = {}
  TimedTasks = {t1}
  Seconds = {0, 1}
  MaxWakes = 2
  MaxTime = 3
INVARIANT
  DeadlinePolled
PROPERTIES
  RunnableRuns
  EndedIsFreed
CHECK_DEADLOCK FALSE
