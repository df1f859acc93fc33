SPECIFICATION Spec
CONSTANTS
  s1 = s1
  a = a
  b = b
  NoFilter = NoFilter
  Filters = {s1, a, b}
  Sources = {s1}
  Pumps = {b}
  Posters = {b}
  Wires <- LoopWires
  TickMod = 3
  MaxPostponed = 2
INVARIANTS
  OnlyPrepared
  AllCalled
  FlowsThrough
  PostponedCount
  
PROPERTIES
  AfterInputs
  TaskExecuted
  TickEnds
CHECK_DEADLOCK FALSE
