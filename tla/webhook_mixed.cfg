SPECIFICATION FairSpec
CONSTANTS
  w1 = w1  w2 = w2  e1 = e1  e2 = e2  e3 = e3  e4 = e4  e5 = e5
  pay = pay  sub = sub  link = link  foreignLink = foreignLink
  Events <- MixedEvents
  Entities = {pay, link, foreignLink}
  EventType <- MixedEventType
  EventEntity <- MixedEventEntity
  ArcLinks = {link}
  Workers <- TwoWorkers
  FirstTruth <- MixedFirst
  TruthMoves = {}
  Lease = 1
  MaxAttempts = 2
INVARIANTS LinkReadBeforeSettled
PROPERTIES EveryEventSettles
CHECK_DEADLOCK FALSE
