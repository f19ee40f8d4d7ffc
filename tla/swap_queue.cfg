CONSTANTS
  o1 = o1  o2 = o2  t1 = t1  t2 = t2
  Objects <- TwoObjects
  Threads <- NoThreads
  Fields <- OneField
  Values <- OneValue
  InitialValue = 0
  Zero = Zero
  WsrTop = 1
  AllocGC = TRUE
  EarlyCompaction = TRUE
  IoErrors = FALSE
  CasWrites = FALSE
  NoEntry = NoEntry  Unwritten = Unwritten  EmptyEntry = EmptyEntry
  Unallocated = Unallocated
SPECIFICATION FairSpec
PROPERTY QueueDrains
