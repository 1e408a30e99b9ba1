CONSTANTS
  Depth = 3
  PacketSize = 2
  Length = 4
  Calls <- Library
  MaxCalls = 2
  MaxSamples = 4
SPECIFICATION FairSpec
INVARIANTS
  ReadIsRecording
  InternalGapless
  OneLeave
  PidInStep
PROPERTIES
  Drains
  InternalEnds
CHECK_DEADLOCK FALSE
