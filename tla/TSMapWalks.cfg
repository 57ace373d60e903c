SPECIFICATION FairSpec
CONSTANTS
  ingest1 = ingest1
  ingest2 = ingest2
  cleanup = cleanup
  reader = reader
  k1 = k1
  k2 = k2
  k3 = k3
  Nil = Nil
  Keys = {k1, k2}
  Threads = {ingest1, cleanup, reader}
  Roles <- WalkRoles
  NumShards = 2
  ShardOf <- TwoShards
  Values = {v1, v2}
  Timestamps = {0}
  BlockDuration = 2
  Modulus = 8
  Clock = {3}
  WriterPreference = TRUE
INVARIANT StatsBracketed
INVARIANT WalkMissesNoKey
PROPERTY CallsReturn
CHECK_DEADLOCK FALSE
