\* Five segments of two sizes, room for two, a profile that gets so slow that
\* playback may give up.
CONSTANTS
  Timeline <- MCTimeline
  Sizes = {4, 12}
  AlphaNum = 3
  AlphaDen = 10
  SegmentCount = 5
  BufferSegments = 2
  Duration = 4
  Latency = 1
  MaxFetch = 3
  Poll = 1
  Threshold = 1
  WaitPoll = 2
  WaitLimit = 5
  JoinLimit = 13
SPECIFICATION Spec
INVARIANTS
  TypeOK
  StallsAccounted
  EstimateUnderCaps
  JoinSuffices
