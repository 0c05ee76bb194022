SPECIFICATION FairSpec
CONSTANTS
  a1 = a1
  a2 = a2
  p1 = p1
  p2 = p2
  s1 = s1
  Acl = {a1, a2}
  Requests = {p1, p2}
  Sweeps = {s1}
  Ingests = {}
  Backfills = {}
  Readers = {}
  ChunkReaders = {}
  NumBatches = 1
  MaxRevision = 3
  MaxFaults = 1
INVARIANT ActiveIsProjected
PROPERTY Reprojected
CHECK_DEADLOCK FALSE
