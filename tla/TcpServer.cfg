SPECIFICATION FairSpec
CONSTANTS
  Conns = {c1}
  Threads = {t1}
  Pools <- MCPools
  LoopCalls <- MCCalls
  ThreadCalls <- MCCalls
  MaxCalls = 3
  MaxPending = 3
CHECK_DEADLOCK FALSE
INVARIANT TypeOK
INVARIANT OutputsInOrder
INVARIANT WritingWhileWaiting
INVARIANT CallbacksInOrder
INVARIANT OpenIsOwned
PROPERTY PeerCloseIsReported
