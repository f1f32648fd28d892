SPECIFICATION Spec
CONSTANTS
  o1 = o1  o2 = o2  c1 = c1  c2 = c2  p1 = p1  p2 = p2  none = none
  Payments = {p1, p2}
  NoPayment = none
  Cases = {c1}
  Observers <- TwoObservers
  Snapshots <- PaidTwice
  FirstSnapshot <- Pending
  Amounts = {2}
  FirstAmount = 2
  LateFinalizers = FALSE
  MaxObservations = 4
SYMMETRY ObserverSymmetry
INVARIANTS ConflictsStayInReview
CHECK_DEADLOCK FALSE
