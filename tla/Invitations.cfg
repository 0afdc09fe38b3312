SPECIFICATION Spec
CONSTANTS
  Ids = {m1, m2}
  Users = {u1, u2}
  Emails = {e1, e2}
  Invitations = {i1, i2}
  Requests = {r1, r2, r3}
  Nobody = Nobody
  RateMax = 1
  RateWindow = 0
  Ttl = 1
  Horizon = 2
SYMMETRY Symmetry
INVARIANTS RateBounded OnePending AcceptedMeansJoined
PROPERTIES FinalStays LinkKept
CHECK_DEADLOCK FALSE
