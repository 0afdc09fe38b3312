SPECIFICATION LiveSpec
CONSTANTS
  Requests = {r1, r2, r3}
  CampaignIds = {c1}
  ItemIds = {i1, i2}
  Home <- MCHome
  c1 = c1  i1 = i1  i2 = i2
INVARIANTS NothingLost CascadeWhole
PROPERTIES RemovedStaysRemoved PreviewKept RequestsEnd
CHECK_DEADLOCK FALSE
