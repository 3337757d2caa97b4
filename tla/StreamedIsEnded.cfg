CONSTANTS
  Conn = {c1}
  Unit = {u1}
  None = None
  Req = {r1}
  NPieces = 2
SPECIFICATION Spec
INVARIANT StreamedIsEnded
