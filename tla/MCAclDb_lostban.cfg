SPECIFICATION Spec
CONSTANTS
  Client = {c1, c2}
  Worker = {w1}
  NoClient = NoClient
  BannedFile = {c2}
  SubsFile = {}
  SessFile = {}
  DestFile = {}
  Blocked = 2
  BounceReset = 1
  BounceTtl = 2
  SessionTime = 1
  MaxRecs = 1
  MaxLag = 1
  Commands = {"B", "b", "R"}
INVARIANT BanKept
