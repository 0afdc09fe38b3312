SPECIFICATION Spec
CONSTANTS
  c1 = c1
  c2 = c2
  i1 = i1
  Campaigns <- MCCampaigns
  Items <- MCItems
  Home <- MCHome
  Pledges = {p1}
  Gifts = {g1}
  Requests = {r1, r2}
  None = None
SYMMETRY Symmetry
INVARIANT AttributionAgrees
PROPERTY NamedIsLive
CHECK_DEADLOCK FALSE
