SPECIFICATION Spec
CONSTANTS
  Client = {c1}
  Worker = {w1, w2}
  NoClient = NoClient
  BannedFile = {c1}
  SubsFile = {c1}
  SessFile = {c1}
  DestFile = {c1}
  Blocked = 3
  BounceReset = 1
  BounceTtl = 2
  SessionTime = 1
  MaxRecs = 1
  MaxLag = 1
  Commands = {"A", "a", "B", "b", "S", "s", "H", "h", "R"}
SYMMETRY Symm
INVARIANTS TypeOK RecordsSane SessionNotBlocked BansOrdered
