\* Every algorithm, bare and wrapped; one decision more than the default to hold.
CONSTANTS
  none = none
  None = none
  Rules <- MCRules
  Top = 3
  Bitrate <- MCBitrate
  SegmentDuration = 2
  BufferLevels <- MCBufferLevels
  Throughputs <- MCThroughputs
  Safety = 85
  Reserve = 6
  Cap = 30
  BLow = 6
  BHigh = 36
  Horizon = 3
  Alpha = 2
  Beta = 9
  Gamma = 2
  RebufferRisk = 1
  UpRatio = 150
  Stable = 3
  MinBufferForUp = 12
  DeepBuffer = 30
SPECIFICATION Spec
INVARIANTS
  TypeOK
  HysteresisRule
  RateFits
PROPERTIES
  MonotoneInBuffer
