\* Two consumers: a notified get may find the deque empty again.
CONSTANTS
  p1 = p1
  p2 = p2
  c1 = c1
  c2 = c2
  none = none
  Producers = {p1}
  Consumers = {c1, c2}
  NoSegment = none
  Segments <- EqualSegments
  Duration <- EqualDurations
  MaxSeconds = 3
  MaxDropped = 2
SPECIFICATION Spec
PROPERTIES
  UntimedGetBlocks
