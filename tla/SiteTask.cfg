SPECIFICATION FairSiteSpec
CONSTANTS
  c1 = c1
  c2 = c2
  Clients = {c1, c2}
  Handlers = {1, 2, 3, 4}
  None = None
  MaxBody = 1
  LastAction = 1
INVARIANTS
  SiteTypeOK
  AnswersAreCurrent
  WaitingIsServed
PROPERTIES
  ActionsInOrder
  EveryTaskFinishes
CHECK_DEADLOCK FALSE
