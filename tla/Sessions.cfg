SPECIFICATION Spec
CONSTANTS
  Users = {u1, u2}
  Credentials = {c1, c2}
  Requests = {r1, r2}
  None = None
  Ttl = 1
  MaxEntries = 1
  Horizon = 2
SYMMETRY Symmetry
INVARIANTS TypeOK HonouredLessThanTtl CacheBounded DroppedAtSignOut SomeoneLeft ClaimFollows
CHECK_DEADLOCK FALSE
