SPECIFICATION SmoothSpec
CONSTANTS
  Gifts = {g1}
  g1 = g1
  Pledges = {p1}
  p1 = p1
  Requests = {r1}
  r1 = r1
  Amounts = {1}
  Promises = {1}
  MaxBatch = 1
  NoPledge = NoPledge
  Keep = Keep
INVARIANT PaidIsRunningSum
\* A behaviour ends when every request has been served.
CHECK_DEADLOCK FALSE
