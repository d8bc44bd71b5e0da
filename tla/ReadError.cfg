SPECIFICATION Spec
CONSTANTS
  c1 = c1
  c2 = c2
  Clients = {c1}
  Handlers = {1, 2}
  None = None
  MaxBody = 1
PROPERTIES
  ReadErrorIsPending
CHECK_DEADLOCK FALSE
