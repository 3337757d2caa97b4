CONSTANTS
  MaxSamples = 11
  FrameLen = 2
  ChunkLen = 3
  MaxLead = 2
  Hangover = 2
  MinUtter = 2
  MaxTurns = 2
  MaxMic = 21
SPECIFICATION FairSpec
INVARIANTS TypeOK RecordingContiguous BeepNotRecorded UploadedWhole HeapClean
PROPERTY TurnReturns
