SPECIFICATION Spec
CONSTANTS
  Node = {i, j}
  Name = {n}
  Nobody = Nobody
  MaxWrites = 2
  MaxFailures = 1
SYMMETRY MCSymmetry
INVARIANTS
  TypeOK
  ArrivalsKept
  TurnHeld
  NothingLost
  OnePlace
PROPERTIES
  RefusedStays
