SPECIFICATION Spec
CONSTANTS
  Filters = {f1, f2}
  NoFilter = NoFilter
  Tickers = {k1, k2}
  MaxSize = 1
  NCallbacks = 2
  MaxEvents = 4
  MaxDepth = 2
INVARIANTS
  NoDanglingEvent
  NotifierAlive
  Bounded
  AllCallbacksRun
PROPERTIES
  InOrder
  Drained
CHECK_DEADLOCK FALSE
