SPECIFICATION FairSpec
CONSTANTS
  kInitRetryDelayMs = 500
  kMaxRetryDelayMs = 1500
  MaxAttempts = 4
  Threads = {t1}
  MaxConnects = 1
  MaxCalls = 2
CHECK_DEADLOCK FALSE
INVARIANT TypeOK
INVARIANT OnePursuit
INVARIANT NoAssertFails
INVARIANT OldSocketsClosed
INVARIANT RetryUnderWay
PROPERTY ClosedIsDestroyed
PROPERTY StopHolds
