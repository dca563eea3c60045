SPECIFICATION Spec
CONSTANTS
  numThreads_ = 3
  MaxConns = 3
INVARIANTS LoopsAreLive FairShare
PROPERTIES CallsReturn
CHECK_DEADLOCK FALSE
