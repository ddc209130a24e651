\* Four rounds with any buffer level at each.
CONSTANTS
  none = none
  Lookaheads <- MCLookaheads
  SegmentDuration = 1
  UrgencyWeight <- MCUrgencyWeight
  BufferBonus <- MCBufferBonus
  Scale <- MCScale
  NoTask = none
  MaxRounds = 4
  MaxLevel = 3
  MaxDelay = 1
\* run_session stops calling after segment_count rounds.
CHECK_DEADLOCK FALSE
SPECIFICATION Spec
INVARIANTS
  TypeOK
  InOrder
  SiblingsFirst
  HeapBound
