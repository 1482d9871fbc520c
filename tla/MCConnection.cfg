SPECIFICATION FairSpec
CONSTANTS
  Caller = {p, q}
  Conn = {c1, c2}
  NoConn = NoConn
  SpawnFails = TRUE
INVARIANTS
  TypeOK
  OneHolder
PROPERTIES
  BackWhenSaid
  SendReturns
  ReceiveReturns
