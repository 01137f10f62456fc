SPECIFICATION FairSpec
CHECK_DEADLOCK FALSE
CONSTANTS
  Uri = {"a", "b", "c"}
  Worker = {w1, w2}
  Site = {"s1", "s2"}
  LinksOf <- MCLinks
  SiteOf <- MCSite
  Seeds <- MCSeeds
  Preque = 2
  Depth = 1
  Cache = 1
  None = None
INVARIANTS TypeOK OneWorker SitesCounted AssertsWhenAlive EndExplained
PROPERTIES KeptUntilWorked CrawlEnds
