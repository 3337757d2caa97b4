CONSTANTS
  Version = {v0, v1, v2, v3, v4}
  Default = v0
  Good = {v0, v1, v3}
  Long = {v3, v4}
  None = None
  MaxRetries = 1
  MaxCuts = 2
  MaxLost = 1
  MaxPublished = 2
  MaxInstalls = 5
  RxCap = 3
  AckLen = 2
  MaxLen = 5
  MaxFrames = 3
  MaxConns = 2
  Client = {k1, k2, k3}
  Task = {t1, t2}
  Acceptor = acc
  Nobody = nobody
  MaxClients = 2
  HEADER <- MCHeader
  FOOTER <- MCFooter
  BufSize = 8
  Lines <- MCLines
  MaxNoise = 4
  Hop = 2
  WinLen = 4
  Stride = 2
  MaxFed = 16
SPECIFICATION UnitSpec
INVARIANTS
  BootTypeOK FallsBackToGood GivesUpLate InstalledOnce
  WsTypeOK
  LogTypeOK SocketsAccounted
  SplittingUnseen Resynchronises
  EvidenceSound
PROPERTIES ReachesLoop HelloFirst ImplementsLink SessionComesUp AcceptsAgain AllIsRead
CHECK_DEADLOCK FALSE
