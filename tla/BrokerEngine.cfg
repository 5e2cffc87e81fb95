SPECIFICATION EngineFairSpec
CONSTANTS
  Brokers = {b1, b2, b3}
  NoBroker = NoBroker
INVARIANTS AtMostOneAccelerator NoIdleLease LiveEngineOrTerminalFailure
PROPERTIES ExhaustionIsRecovered
