SPECIFICATION Spec
CONSTANTS
  Null = Null
  Ctx = {c1, c2, c3}
  Worker = {t1}
  Cap = 1
  MaxCap = 2
  MaxCtxes = 2
  MinThreads = 1
  MaxThreads = 1
  Preload = 1
  MaxEos = 1
  TrafficLog = TRUE
  MaxQueue = 4
INVARIANT RefusedNotQueued
