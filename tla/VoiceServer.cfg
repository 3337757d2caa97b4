CONSTANTS
  Conn = {c1, c2}
  Unit = {u1}
  None = None
  Req = {r1}
  NPieces = 2
SPECIFICATION FairSpec
INVARIANTS TypeOK EndedIsWhole LiveUnitRegistered RegistryClean OneOpenPerUnit
PROPERTIES EntriesLeave HelloServed
