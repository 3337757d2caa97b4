CONSTANTS
  MaxTurn = 2
  NChunks = 2
  RingCap = 1
  ShortDrain = 1
  LongDrain = 3
  NetCap = 1
  MaxDrops = 1
SPECIFICATION Spec
INVARIANT RingOutlivesSend

