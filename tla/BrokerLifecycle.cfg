SPECIFICATION FairSpec
CONSTANTS
  Procs = {p1, p2}
  Nobody = Nobody
INVARIANTS OnlyHolderRuns EndpointBelongsToServer
PROPERTIES OthersLeaveSocketAlone EofWhileServingRemovesSocket OwnerLossEndsBroker
CHECK_DEADLOCK FALSE
