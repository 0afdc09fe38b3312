SPECIFICATION SmallSpec
CONSTANTS
  Ids = {m1, m2}
  Users = {u1}
  Gifts = {g1}
  Pledges = {p1}
  Requests = {r1}
  Nobody = Nobody
INVARIANT MergeMovesTombstones
CHECK_DEADLOCK FALSE
