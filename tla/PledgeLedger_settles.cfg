SPECIFICATION FairSpec
CONSTANTS
  Gifts = {g1, g2}
  g1 = g1
  g2 = g2
  Pledges = {p1, p2}
  p1 = p1
  p2 = p2
  Requests = {r1, r2}
  r1 = r1
  r2 = r2
  Amounts = {1}
  Promises = {1}
  MaxBatch = 2
  NoPledge = NoPledge
  Keep = Keep
INVARIANT BalanceConserved
INVARIANT StatusAgrees
PROPERTY BooksRefined
PROPERTY BooksSettle
\* A behaviour ends when every request has been served.
CHECK_DEADLOCK FALSE
