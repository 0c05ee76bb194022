SPECIFICATION Spec
CONSTANTS
  p1 = p1
  p2 = p2
  Versions = {1, 2, 3}
  Processes = {p1}
  MaxRequests = 1
  MaxErrors = 1
  MaxCuts = 0
INVARIANT ConvergedAtRest
INVARIANT DeletedNotServed
CHECK_DEADLOCK FALSE
