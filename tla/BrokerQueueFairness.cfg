SPECIFICATION ObservedFairSpec
CONSTANTS
  Requests = {r1, r2, r3, r4}
  QUEUE_CAPACITY = 3
  INTERACTIVE_BURST = 2
  Nothing = Nothing
INVARIANTS NoLostWakeup OvertakingBounded InteractiveDelayBounded
PROPERTIES EveryRequestTaken
