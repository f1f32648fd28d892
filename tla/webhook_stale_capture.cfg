SPECIFICATION Spec
CONSTANTS
  w1 = w1  w2 = w2  e1 = e1  e2 = e2  e3 = e3  e4 = e4  e5 = e5
  pay = pay  sub = sub  link = link  foreignLink = foreignLink
  Events <- TwoEvents
  Entities = {pay}
  EventType <- PaymentEventType
  EventEntity <- PaymentEventEntity
  ArcLinks = {}
  Workers <- TwoWorkers
  FirstTruth <- PaymentFirst
  TruthMoves <- PaymentMoves
  Lease = 1
  MaxAttempts = 2
SYMMETRY WorkerSymmetry
INVARIANTS CaptureLeavesNoOpenCase
CHECK_DEADLOCK FALSE
