\* One producer and one consumer, as in the client; segments of three sizes.
CONSTANTS
  p1 = p1
  p2 = p2
  c1 = c1
  c2 = c2
  none = none
  Producers = {p1}
  Consumers = {c1}
  NoSegment = none
  Segments <- MixedSegments
  Duration <- MixedDurations
  MaxSeconds = 3
  MaxDropped = 2
\* An oversized put and a get without a timeout may wait for ever (NoStandoff).
CHECK_DEADLOCK FALSE
SPECIFICATION FairSpec
INVARIANTS
  TypeOK
  LevelIsSum
  NoStandoff
PROPERTIES
  ImplementsFifo
  UntimedGetBlocks
  BlockedPutReturns
