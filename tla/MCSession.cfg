SPECIFICATION FairSpec
CONSTANTS
  Conn = {c, d}
  Location = {"l", "m"}
  UserOf <- MCUserOf
  Secured = {"l"}
  Built <- MCBuilt
  Credential = {"p", "q"}
  NoCredential = NoCredential
  Admits <- MCAdmits
  Key = {"k", "j"}
  NoKey = NoKey
  Most = 2
  MaxChanges = 2
INVARIANTS
  TypeOK
  SecretsHeld
  OwnDirectory
  KeptClosed
  ServedWhole
PROPERTIES
  SessionEnds
