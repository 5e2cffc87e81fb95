SPECIFICATION Spec
CONSTANTS
  Conns = {c1, c2, c3}
  Lines <- MCLines
  QUEUE_CAPACITY = 2
  INTERACTIVE_BURST = 1
  Nothing = Nothing
INVARIANTS PendingInOnePlace SleepsOnlyWhenAllAnswered ArmedExactlyWhileBusy
PROPERTIES ImplementsRequestService
CHECK_DEADLOCK FALSE
