SPECIFICATION Spec
CONSTANTS
  Losses = {0, 20, 60}
  Unacceptable = 10
  Delays = {1, 2}
  Significant = 2
  UpInterval = 2
  Nominal = 15
  LowestBitrate = 10
  PtimeStep = 20
  MinPtime = 10
  MaxPtime = 50
  Encoders <- TestEncoders
INVARIANTS
  TypeOK
PROPERTIES
  ReducedUnderLoss
  Recovers
