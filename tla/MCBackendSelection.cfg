SPECIFICATION FairSpec
CONSTANTS
  Procs = {p1, p2}
  Models = {m1}
  Identities <- MCIdentities
  Uncacheable = {"unverified"}
  Declared <- MCDeclared
  DevicesOf <- MCDevicesOf
  Speeds = {1, 2}
  CpuSpeed = 2
  Nobody = Nobody
INVARIANTS OnlyMeasuredDevices CacheNeedsIdentity SelectionExplained
PROPERTIES NoLostDecision CpuIsTheFloor
CHECK_DEADLOCK FALSE
