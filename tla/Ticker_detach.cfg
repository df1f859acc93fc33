SPECIFICATION Spec
CONSTANTS
  s1 = s1
  a = a
  b = b
  NoFilter = NoFilter
  Filters = {s1, a, b}
  Sources = {s1}
  Pumps = {}
  Posters = {b}
  Wires <- ChainWires
  TickMod = 3
  MaxPostponed = 1
INVARIANTS
  TaskPrepared
CHECK_DEADLOCK FALSE
