SPECIFICATION FairSpec
CONSTANTS
  Threads = {t1, t2}
  Functors = {f1, f2, f3}
  EarlyFunctors = {f3}
INVARIANT TypeOK
INVARIANT NoLostWakeup
INVARIANT NoLostQuit
INVARIANT QuitFinishesIteration
PROPERTY ImplementsTaskQueue
PROPERTY PromptExecution
PROPERTY QuitStopsLoop
