SPECIFICATION AbortSpec
CONSTANTS
  c1 = c1
  c2 = c2
  Clients = {c1, c2}
  Handlers = {1, 2}
  None = None
  MaxBody = 1
  LastAction = 1
PROPERTIES
  AbortIsSilent
CHECK_DEADLOCK FALSE
