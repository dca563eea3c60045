SPECIFICATION Spec
CONSTANTS
  Conns = {c1}
  Threads = {t1}
  Pools <- MCOnePool
  LoopCalls <- MCSend
  ThreadCalls <- MCNone
  MaxCalls = 2
  MaxPending = 3
CHECK_DEADLOCK FALSE
INVARIANT RemovedOnce
