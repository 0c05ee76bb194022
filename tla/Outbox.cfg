SPECIFICATION FairSpec
CONSTANTS
  e1 = e1
  e2 = e2
  e3 = e3
  s1 = s1
  n1 = n1
  Events = {e1, e2, e3}
  Sweepers = {s1}
  Nudgers = {n1}
  Malformed = {e2, e3}
  Limit = 2
  MaxFaults = 2
  Knows <- Mixed
INVARIANT HandedOver
INVARIANT DuplicatesNeedFaults
PROPERTY KeepsContract
PROPERTY HandledIsDelivered
CHECK_DEADLOCK FALSE
