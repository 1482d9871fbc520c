SPECIFICATION Spec
CONSTANTS
  Node = {i, j}
  Name = {n}
  Nobody = Nobody
  MaxWrites = 1
  MaxFailures = 1
PROPERTY
  TurnsRemoved
