SPECIFICATION MCSpec
CONSTANTS
  t1 = t1
  t2 = t2
  m1 = m1
  m2 = m2
  m3 = m3
  c1 = c1
  i1 = i1
  p1 = p1
  p2 = p2
  g1 = g1
  g2 = g2
  g3 = g3
  None = None
  Unfiltered = Unfiltered
  Churches <- MCChurches
  Members <- MCMembers
  Campaigns <- MCCampaigns
  Items <- MCItems
  Pledges <- MCPledges
  Gifts <- MCGifts
  MemberRows <- MCMemberRows
  CampaignRows <- MCCampaignRows
  ItemRows <- MCItemRows
  PledgeRows <- MCPledgeRows
  GiftRows <- MCGiftRows
  DaysPerMonth = 3
  MonthsPerYear = 3
  Today = 4
  Lifetime = 99
  Limits = {1, 2}
  MaxChanges = 1
CHECK_DEADLOCK FALSE
SYMMETRY Symmetry
INVARIANTS GiftReportsAgree ChurchFiguresAgree PledgeReportsAgree UrgentIsUrgent ProgressAgrees PagesAgree
