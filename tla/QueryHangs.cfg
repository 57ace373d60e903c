SPECIFICATION FairSpec
CONSTANTS
  k1 = k1
  k2 = k2
  client = client
  ingest = ingest
  Nil = Nil
  NaN = NaN
  Keys = {k1, k2}
  InsertKeys = {k1}
  Batches <- EndlessBatches
  Values <- MixedValues
  Arrivals <- MixedArrivals
  Timestamps = {1, 2, 5}
  BlockDuration = 5
  Modulus = 8
  Clock = {7}
  MaxWindows = 4
  Infinity = 99
PROPERTY AllQueriesReturn
CHECK_DEADLOCK FALSE
