SPECIFICATION FairSpec
CONSTANTS
  p1 = p1
  p2 = p2
  Versions = {1, 2}
  Processes = {p1, p2}
  MaxRequests = 0
  MaxErrors = 0
  MaxCuts = 1
PROPERTY Settles
CHECK_DEADLOCK FALSE
