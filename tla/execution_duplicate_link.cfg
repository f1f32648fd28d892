SPECIFICATION Spec
CONSTANTS
  w1 = w1  w2 = w2  open = open  strict = strict
  Actions = {"CREATE_RECOVERY_LINK"}
  Amounts <- Invoice
  Policies <- OpenAndStrict
  Configuration <- Configurations
  Workers = {w1}
  Lease = 1
  MaxClaims = 2
  UniqueReferences = TRUE
INVARIANTS OneOpenLinkPerCase
CHECK_DEADLOCK FALSE
