SPECIFICATION Spec
CONSTANTS
  r1 = r1
  r2 = r2
  e1 = e1
  e2 = e2
  e3 = e3
  Paid = paid
  Requests = {r1, r2}
  ReadOnly = {r1}
  Endpoints = {e1, e2, e3}
  HasFallback = TRUE
  Slots = 1
  MaxAttempts = 2
  MaxPercent = 50
  MaxPrimaries = 8
CHECK_DEADLOCK FALSE
SYMMETRY Symmetry
INVARIANTS LeasesBalance ErrorMeansAllFailed FallbackComesLast
