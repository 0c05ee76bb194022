SPECIFICATION AccountsSpec
CONSTANTS
  q1 = q1
  q2 = q2
  e1 = e1
  e2 = e2
  id1 = id1
  u1 = u1
  f1 = f1
  read = read
  write = write
  Requests = {q1, q2}
  Users = {u1}
  Families = {f1}
  TTL = 1
  Grace = 1
  MaxTokens = 3
  MaxChanges = 1
  MaxTime = 3
SYMMETRY Symmetry
INVARIANT Types
PROPERTY SessionsEnd
INVARIANT SpentOnce
INVARIANT ViewsAgree
INVARIANT RegistryHolds
PROPERTY RollbackRestores
INVARIANT CredentialIsLatest
PROPERTY RevocationIsComplete
INVARIANT SignsInOnce
INVARIANT BudgetsFollow
CHECK_DEADLOCK FALSE
