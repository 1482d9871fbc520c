SPECIFICATION FairSpec
CONSTANTS
  Node = {i, j}
  Name = {n}
  Nobody = Nobody
  MaxWrites = 2
  MaxFailures = 0
PROPERTIES
  TakenEventually
  ImplementsIntake
