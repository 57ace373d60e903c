SPECIFICATION Spec
CONSTANTS
  WideBits = 15
  WordBits = 1
  LeadBits = 5
  LengthBits = 6
  Timestamps <- LimitTimestamps
  Values <- AllWords
  MaxPoints = 3
INVARIANT TimestampsRoundTrip
CHECK_DEADLOCK FALSE
