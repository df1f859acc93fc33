SPECIFICATION Spec
CONSTANTS
  BlockSize = 2
  HeaderSize = 2
  Lengths = {1, 2, 5}
  Limits = {0, 4}
  MaxTakes = 2
  MaxBytes = 6
INVARIANTS
  NothingLost
  WriterKept
PROPERTIES
  CloseReturns
