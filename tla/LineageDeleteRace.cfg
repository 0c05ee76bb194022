SPECIFICATION Spec
CONSTANTS
  p1 = p1
  p2 = p2
  Versions = {1}
  Processes = {p1, p2}
  MaxRequests = 0
  MaxErrors = 0
  MaxCuts = 0
INVARIANT DeletedNotServed
CHECK_DEADLOCK FALSE
