SPECIFICATION FairSpec
CHECK_DEADLOCK FALSE
CONSTANTS
  Worker = {t1, t2}
  Dynamic = {t2}
  MaxHeld = 2
PROPERTIES ServerStops
