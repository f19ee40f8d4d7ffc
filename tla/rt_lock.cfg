CONSTANTS
  t1 = t1  t2 = t2
  NoThread = NoThread
  Threads <- TwoThreads
  CompiledThreads <- NoThreads
  BlockingThreads <- NoThreads
  NumEntries = 2
  CounterSize = 4
  ConcurrentKernel = TRUE
SPECIFICATION FairSpec
INVARIANTS TypeOK CounterIsExact MutualExclusion
PROPERTY LockIsGranted
