SPECIFICATION FairSpec
CONSTANTS
  c1 = c1
  c2 = c2
  Clients = {c1, c2}
  Handlers = {1, 2}
  None = None
  MaxBody = 1
INVARIANTS
  TypeOK
  CallbackFindsHandler
  ClosedBelongsToWorker
  HandlerIsLive
  OneWholeAnswer
PROPERTIES
  ClosedIsFreed
  DestructorReturns
  AnswerArrives
CHECK_DEADLOCK FALSE
