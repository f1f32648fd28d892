SPECIFICATION Spec
CONSTANTS
  w1 = w1  w2 = w2  open = open  strict = strict
  Actions = {"CREATE_RECOVERY_LINK", "WAIT", "NO_ACTION", "ESCALATE_TO_HUMAN", "REQUEST_RETRY"}
  Amounts <- Invoice
  Policies <- OpenAndStrict
  Configuration <- Configurations
  Workers <- TwoWorkers
  Lease = 1
  MaxClaims = 2
  UniqueReferences = TRUE
SYMMETRY WorkerSymmetry
INVARIANTS TypeOK CountedExactlyOnce LinksArePermitted CancelledMeansClosed InternalActionsAgree SuccessKeepsItsLink
CHECK_DEADLOCK FALSE
