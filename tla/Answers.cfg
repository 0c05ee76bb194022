SPECIFICATION AnswersSpec
CONSTANTS
  d1 = d1
  m1 = m1
  m2 = m2
  w1 = w1
  w2 = w2
  t1 = t1
  t2 = t2
  u1 = u1
  org = org
  page = page
  home = home
  x1 = x1
  x2 = x2
  g1 = g1
  g2 = g2
  p1 = p1
  p2 = p2
  p3 = p3
  p4 = p4
  c1 = c1
  c2 = c2
  c3 = c3
  e1 = e1
  e2 = e2
  site = site
  file = file
  q1 = q1
  q2 = q2
  Docs = {d1}
  Models = {m1, m2}
  First = m1
  MaxJobs = 3
  MaxRetries = 1
  MaxKills = 1
SYMMETRY Symmetry
INVARIANT Types
INVARIANT NothingLeftBehind
INVARIANT DeliveredOnce
INVARIANT GatheringHolds
PROPERTY AnswersAreGrounded
INVARIANT SourcesHold
INVARIANT ReviewsHold
PROPERTY AllocationsHold
CHECK_DEADLOCK FALSE
