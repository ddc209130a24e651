\* A network that may stall for 600 s and playback slower than the join.
CONSTANTS
  SegmentCount = 4
  Indexes <- MCIndexes
  BufferSegments = 2
  MaxStall = 2
  NetworkMayStall = TRUE
  PlaybackMayLag = TRUE
\* put blocks for ever once playback has given up (EndsUnlessGivenUp).
CHECK_DEADLOCK FALSE
SPECIFICATION Spec
INVARIANTS
  QoeNearRows
PROPERTIES
  EndsUnlessGivenUp
