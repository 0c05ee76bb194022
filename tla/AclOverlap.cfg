SPECIFICATION Spec
CONSTANTS
  a1 = a1
  a2 = a2
  p1 = p1
  s1 = s1
  Acl = {a1, a2}
  Requests = {p1}
  Sweeps = {s1}
  Ingests = {}
  Backfills = {}
  Readers = {}
  ChunkReaders = {}
  NumBatches = 1
  MaxRevision = 2
  MaxFaults = 0
INVARIANT ActiveMeansStored
CHECK_DEADLOCK FALSE
