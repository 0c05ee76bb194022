SPECIFICATION DocumentsSpec
CONSTANTS
  a1 = a1
  a2 = a2
  i1 = i1
  p1 = p1
  q1 = q1
  q2 = q2
  f1 = f1
  f2 = f2
  f3 = f3
  n1 = n1
  n2 = n2
  n3 = n3
  d1 = d1
  d2 = d2
  Acl = {a1, a2}
  Requests = {p1}
  Sweeps = {}
  Ingests = {i1}
  Backfills = {i1}
  Readers = {}
  ChunkReaders = {}
  NumBatches = 2
  MaxRevision = 2
  MaxFaults = 1
INVARIANT Types
INVARIANT IngestRestampsAll
INVARIANT FilingHolds
PROPERTY OnlyStrandedAreSwept
INVARIANT ChunksCoverTheText
INVARIANT FindsByMetadata
CHECK_DEADLOCK FALSE
