CONSTANTS
  Version = {v0, v1, v2}
  Default = v0
  Good = {v0, v1}
  Long = {}
  None = None
  MaxRetries = 1
  MaxCuts = 1
  MaxLost = 0
  MaxPublished = 1
  MaxInstalls = 3
SPECIFICATION BootSpec
PROPERTY LatestIsRunning
CHECK_DEADLOCK FALSE
