SPECIFICATION Spec
CONSTANTS
  Caller = {p, q}
  Conn = {c1, c2}
  NoConn = NoConn
  SpawnFails = FALSE
PROPERTY
  ClientNotLost
