SPECIFICATION Spec
CONSTANTS
  Name = {a, b}
  ByteMax = 1
  MaxBody = 2
  WordMax = 4
  TimeMax = 4
  Channel = {c1, c2}
  MaxHandles = 2
  Offset <- MCOffset
  Data <- MCData
  Given = {a, b}
SYMMETRY MCSymmetry
INVARIANTS
  TypeOK
  FilesBounded
  TimesHaveFiles
  TimesDistinct
  StampSound
PROPERTIES
  HandleKept
