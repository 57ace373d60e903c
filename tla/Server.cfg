SPECIFICATION ServerSpec
CONSTANTS
  k1 = k1
  k2 = k2
  client = main
  ingest = main
  Nil = Nil
  NaN = NaN
  Keys = {k1, k2}
  InsertKeys = {k1, k2}
  Metrics <- TwoMetrics
  Batches <- NoBatches
  Values = {1}
  Arrivals <- ThreeBatches
  Timestamps <- PointTimes
  BlockDuration = 2
  Modulus = 16
  Clock <- ClockTimes
  MaxWindows = 4
  Infinity = 99
  MaxElapsed = 1
  Step = 1
  Interval = 1
  QueryRange = 2
  AverageWindow = 1
INVARIANT ServerTypeOK
INVARIANT ReportsExact
INVARIANT AverageOfShown
PROPERTY SweepSealsDue
PROPERTY ServerEnds
CHECK_DEADLOCK FALSE
