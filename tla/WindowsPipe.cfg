SPECIFICATION Spec
CONSTANTS
  Handles = {h1, h2}
  NoPipe = NoPipe
INVARIANTS KernelMemoryLive OnlyAcceptsCancelled CancelNotLost
