SPECIFICATION Spec
CONSTANTS
  ingest1 = ingest1
  ingest2 = ingest2
  cleanup = cleanup
  reader = reader
  k1 = k1
  k2 = k2
  k3 = k3
  Nil = Nil
  Keys = {k1}
  Threads = {ingest1, cleanup, reader}
  Roles <- StoreRoles
  NumShards = 1
  ShardOf <- OneShard
  Values = {v1, v2, v3}
  Timestamps = {4, 5, 6}
  BlockDuration = 2
  Modulus = 8
  Clock = {5, 7}
  WriterPreference = FALSE
SYMMETRY ValueSymmetry
INVARIANT TypeOK
INVARIANT ArrivalPartition
INVARIANT BlockSpan
INVARIANT ScanSeesUnsealed
PROPERTY StableUnderRead
PROPERTY ImplementsPointStore
