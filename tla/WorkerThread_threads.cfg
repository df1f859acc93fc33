SPECIFICATION Spec
CONSTANTS
  Tasks = {t1, t2}
  Clients = {c1, c2}
  NoTask = NoTask
  NoClient = NoClient
  DestroyAnyTime = FALSE
INVARIANTS
  NoDangling
  SignalReachesWorker
  CleanExit
PROPERTIES
  ImplementsSerial
  WaiterReturns
  Reclaimed
  WorkerExits
CHECK_DEADLOCK FALSE
