SPECIFICATION Spec
CONSTANTS
  Gifts = {g1, g2}
  g1 = g1
  g2 = g2
  Pledges = {p1}
  p1 = p1
  Requests = {r1, r2}
  r1 = r1
  r2 = r2
  Amounts = {1, 2}
  Promises = {1, 2}
  MaxBatch = 2
  NoPledge = NoPledge
  Keep = Keep
SYMMETRY Symmetry
INVARIANT TypeOK
INVARIANT SuccessMeansSettled
PROPERTY PaidMovesWithStatus
\* A behaviour ends when every request has been served.
CHECK_DEADLOCK FALSE
