SPECIFICATION FairSpec
CONSTANTS
  Procs = {p1, p2}
  Nobody = Nobody
PROPERTIES
  LockHolderAloneChangesSocket
CHECK_DEADLOCK FALSE
