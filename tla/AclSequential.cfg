SPECIFICATION Spec
CONSTANTS
  a1 = a1
  a2 = a2
  c1 = c1
  p1 = p1
  q1 = q1
  Acl = {a1, a2}
  Requests = {p1}
  Sweeps = {p1}
  Ingests = {}
  Backfills = {}
  Readers = {q1}
  ChunkReaders = {c1}
  NumBatches = 1
  MaxRevision = 3
  MaxFaults = 2
SYMMETRY AclSymmetry
INVARIANT ActiveMeansStored
INVARIANT ServedWasCommitted
CHECK_DEADLOCK FALSE
