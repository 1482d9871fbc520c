SPECIFICATION Spec
CONSTANTS
  Word = 32
  Name <- MCName
  Text <- MCText
  Dots <- MCDots
  Length = {0, 33}
  Time = {2, 3}
  OtherFlags = {0, 1, 7, 8, 15, 16, 25, 31}
  Extension <- MCExtension
  MaxEntries = 2
  MaxPairs = 2
  MaxReplies = 2
CHECK_DEADLOCK FALSE
INVARIANTS
  ListedIsSent
  ReadIsPrefix
  StatIsSent
