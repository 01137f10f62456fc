SPECIFICATION FairSpec
CHECK_DEADLOCK FALSE
CONSTANTS
  Client = {c1}
  Name = {"n1", "n2"}
  Rule <- MCRule
  NDns = 1
  SeqSpace = 2
  MaxAsk = 2
  MaxTaken = 3
  None = None
INVARIANTS TypeOK FaultsExplained
PROPERTIES IsAService PendingEnds
