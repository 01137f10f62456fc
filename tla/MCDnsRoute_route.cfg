SPECIFICATION Spec
CHECK_DEADLOCK FALSE
CONSTANTS
  Client = {c1, c2}
  Name = {n1, n2}
  Rule <- MCRule
  SeqSpace = 2
  MaxAsk = 2
  MaxTaken = 2
  Peer = {c1, c2}
  NoRoute = NoRoute
  Sig = {s1, s2}
  Default = Default
  MaxRecs = 1
  Conn = {k1}
  Redirected = {k1}
SYMMETRY Symm
INVARIANTS MissesExplained RoutedWhereAsked
PROPERTIES LatestRoute
