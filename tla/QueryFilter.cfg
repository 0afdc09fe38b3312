SPECIFICATION FilterSpec
CONSTANTS
  NoRow = NoRow
  t1 = t1
  m1 = m1
  c1 = c1
  i1 = i1
  p1 = p1
  p2 = p2
  g1 = g1
  g2 = g2
  a1 = a1
  Rows = {t1, m1, c1, i1, p1, p2, g1, g2, a1}
  ModelOf <- MCModelOf
  Key <- MCKey
  Queries <- MCQueries
  Levels <- MCLevels
  Level <- MCLevel
  Deepest = 2
INVARIANTS LiveWorld ListSlices
