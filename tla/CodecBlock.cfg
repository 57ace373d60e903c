SPECIFICATION Spec
CONSTANTS
  WideBits = 15
  WordBits = 2
  LeadBits = 5
  LengthBits = 6
  Timestamps <- LimitTimestamps
  Values <- AllWords
  MaxPoints = 3
INVARIANT TypeOK
INVARIANT ReaderInFrame
INVARIANT TimestampsRightUntilMisfit
INVARIANT ValuesOffByFirst
CHECK_DEADLOCK FALSE
