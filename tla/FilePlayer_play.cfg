SPECIFICATION Spec
CONSTANTS
  FileSize = 11
  HeaderSize = 1
  BlockSize = 4
  Frames = {1, 2, 3}
  Targets = {3, 11}
  Pauses <- LoopPauses
  MaxJobs = 3
INVARIANTS
  Continuous
  PositionTrue
  ReaderAlive
PROPERTIES
  EofIsReal
  PlayEnds
