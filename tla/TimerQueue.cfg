SPECIFICATION FairSpec
CONSTANTS
  Threads = {t1}
  Addrs = {1, 2}
  Intervals = {1}
  Whens = {3}
  MaxTime = 4
  MaxTimers = 3
  MaxPending = 1
INVARIANT TypeOK
INVARIANT SetsAgree
INVARIANT OneHolder
INVARIANT ArmedForEarliest
INVARIANT CancelledStaysOut
PROPERTY DueTimerRuns
