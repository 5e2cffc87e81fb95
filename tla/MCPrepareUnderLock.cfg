SPECIFICATION Spec
CONSTANTS
  Models = {m1}
  Preparers = {p1, p2}
  Cleaners = {k1}
  Legacy = Legacy
  Nobody = Nobody
  LockFiles = {}
PROPERTIES
  PartialsRemovedUnderLock
CHECK_DEADLOCK FALSE
