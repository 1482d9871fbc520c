SPECIFICATION Spec
CONSTANTS
  Conn = {c, d}
  Location = {"l"}
  Self = "l"
  UserOf <- MCUserOf
  Secured = {"l"}
  Built <- MCBuilt
  Credential = {"p", "q"}
  NoCredential = NoCredential
  Admits <- FarEndCheck
  Key = {"k"}
  NoKey = NoKey
  Most = 3
  MaxChanges = 1
CHECK_DEADLOCK FALSE
INVARIANTS
  PresenterAdmitted
