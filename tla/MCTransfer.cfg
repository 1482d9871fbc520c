SPECIFICATION Spec
CONSTANTS
  Name = {"a", "claimed"}
  ByteMax = 3
  MaxBody = 3
  WordMax = 8
  TimeMax = 1
  Message = {"m", "o"}
  Target <- MCTarget
  Body <- MCBody
  Chunk = 2
  Claimed = "claimed"
  MaxTakes = 3
  MaxLate = 1
CHECK_DEADLOCK FALSE
INVARIANTS
  TypeOK
  SentIsThere
  DeliveredWhole
  OnceUnlessBroken
  InPlace
