SPECIFICATION FairSpec
CONSTANTS
  k1 = k1
  k2 = k2
  client = client
  ingest = ingest
  Nil = Nil
  NaN = NaN
  Keys = {k1, k2}
  InsertKeys = {k1}
  Batches <- ManyBatches
  Values <- MixedValues
  Arrivals <- MixedArrivals
  Timestamps = {1, 2, 5}
  BlockDuration = 5
  Modulus = 8
  Clock = {7}
  MaxWindows = 4
  Infinity = 99
INVARIANT QueryTypeOK
INVARIANT WindowsPartition
INVARIANT WindowsRollUp
INVARIANT AllOrNothing
INVARIANT CountsKeptPoints
INVARIANT ThinnedEvenly
INVARIANT LaterFindsMore
PROPERTY ImplementsWindows
PROPERTY QueriesReturn
CHECK_DEADLOCK FALSE
