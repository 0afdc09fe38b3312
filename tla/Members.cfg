SPECIFICATION SmallSpec
CONSTANTS
  Ids = {m1, m2}
  Users = {u1}
  Gifts = {g1}
  Pledges = {p1}
  Requests = {r1, r2}
  Nobody = Nobody
INVARIANTS TypeOK ClaimsOwed MergeLeavesNone
PROPERTY ClaimsSettle
CHECK_DEADLOCK FALSE
