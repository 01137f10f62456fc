SPECIFICATION FairSpec
CONSTANTS
  Null = Null
  Ctx = {c1, c2}
  Worker = {t1, t2}
  Cap = 1
  MaxCap = 2
  MaxCtxes = 2
  MinThreads = 1
  MaxThreads = 2
  Preload = 2
  MaxEos = 1
  TrafficLog = TRUE
  MaxQueue = 4
INVARIANTS TypeOK OwnedOnce PoolAccounting StaticKept NoneLeftAtEnd
PROPERTIES ImplementsService DeadDeleted Stops QueueServed
