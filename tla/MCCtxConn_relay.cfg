SPECIFICATION FairSpec
CHECK_DEADLOCK FALSE
CONSTANTS
  NConn = 2
  Confs <- MCConfs
  MaxUp = 2
  MaxDown = 1
  Alike = {1, 4}
INVARIANTS TypeOK OneAnswer CrashCulprit
PROPERTIES IsARelay SweptWithAnother RelayEnds
