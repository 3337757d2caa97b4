CONSTANTS
  RingCap = 2
  Mute = 4
  Warmup = 2
  Consecutive = 2
  RecordTime = 2
SPECIFICATION FairSpec
PROPERTY NoWakeInTurn
