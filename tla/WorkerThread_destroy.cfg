SPECIFICATION Spec
CONSTANTS
  Tasks = {t1}
  Clients = {c1}
  NoTask = NoTask
  NoClient = NoClient
  DestroyAnyTime = TRUE
INVARIANTS
  NoDangling
CHECK_DEADLOCK FALSE
