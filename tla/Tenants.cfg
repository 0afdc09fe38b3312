SPECIFICATION Spec
CONSTANTS
  Tenants = {t1, t2}
  Slugs = {a, t2}
  Users = {u1}
  Requests = {r1, r2}
  None = None
INVARIANTS CacheCurrent 
PROPERTY CacheHeals
CHECK_DEADLOCK FALSE
