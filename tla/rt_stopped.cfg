CONSTANTS
  t1 = t1  t2 = t2
  NoThread = NoThread
  Threads <- TwoThreads
  CompiledThreads <- OneThread
  BlockingThreads <- TwoThreads
  NumEntries = 2
  CounterSize = 4
  ConcurrentKernel = FALSE
SPECIFICATION Spec
INVARIANTS ReclaimsValidObject ObjectNotNull
