SPECIFICATION Spec
CONSTANTS
  Models = {m1, m2}
  Preparers = {p1, p2}
  Cleaners = {k1}
  Legacy = Legacy
  Nobody = Nobody
  LockFiles = {m1, m2}
SYMMETRY Interchangeable
INVARIANTS
  OneWriterPerModel
  SuccessMeansCached
  ActiveDownloadsUndisturbed
  AbandonedPartialsRemoved
PROPERTIES
  NoUnverifiedFinal
CHECK_DEADLOCK FALSE
