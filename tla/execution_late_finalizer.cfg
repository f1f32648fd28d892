SPECIFICATION Spec
CONSTANTS
  w1 = w1  w2 = w2  open = open  strict = strict
  Actions = {"CREATE_RECOVERY_LINK"}
  Amounts <- Invoice
  Policies = {open}
  Configuration <- Configurations
  Workers <- TwoWorkers
  Lease = 1
  MaxClaims = 2
  UniqueReferences = TRUE
PROPERTIES SuccessIsSettled
CHECK_DEADLOCK FALSE
