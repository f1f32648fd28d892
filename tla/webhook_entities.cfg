SPECIFICATION Spec
CONSTANTS
  w1 = w1  w2 = w2  e1 = e1  e2 = e2  e3 = e3  e4 = e4  e5 = e5
  pay = pay  sub = sub  link = link  foreignLink = foreignLink
  Events <- FiveEvents
  Entities = {pay, sub}
  EventType <- EitherEventType
  EventEntity <- EitherEventEntity
  ArcLinks = {}
  Workers <- TwoWorkers
  FirstTruth <- EitherFirst
  TruthMoves <- EitherMoves
  Lease = 1
  MaxAttempts = 2
SYMMETRY EitherSymmetry
INVARIANTS TypeOK ClaimFence ClosureIsWitnessed AuditTrailReplays
PROPERTIES LifecycleRespected SettledExactlyOnce
CHECK_DEADLOCK FALSE
