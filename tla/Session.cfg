\* A network that delivers or fails within 600 s and playback that keeps up:
\* more segments than fit the buffer, three qualities, any failure.
CONSTANTS
  SegmentCount = 4
  Indexes <- MCIndexes
  BufferSegments = 2
  MaxStall = 2
  NetworkMayStall = FALSE
  PlaybackMayLag = FALSE
SPECIFICATION Spec
INVARIANTS
  TypeOK
  StreamIntact
  SwitchesExplained
  QoeMatchesRows
  AllPlayed
  SocketReleased
PROPERTIES
  SessionEnds
