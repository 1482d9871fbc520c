SPECIFICATION FairSpec
CONSTANTS
  Arrival = {"a", "b"}
  Chunks <- MCChunks
INVARIANTS
  TypeOK
  EndedIsWhole
  ToldIsDone
  NoneLeftClaimed
PROPERTIES
  AnswersCome
  HarvestEnds
