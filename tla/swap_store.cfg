CONSTANTS
  o1 = o1  o2 = o2  t1 = t1  t2 = t2
  Objects <- OneObject
  Threads <- OneThread
  Fields <- TwoFields
  Values <- TwoValues
  InitialValue = 0
  Zero = Zero
  WsrTop = 2
  AllocGC = FALSE
  EarlyCompaction = FALSE
  IoErrors = FALSE
  CasWrites = FALSE
  NoEntry = NoEntry  Unwritten = Unwritten  EmptyEntry = EmptyEntry
  Unallocated = Unallocated
SPECIFICATION Spec
INVARIANTS TypeOK SafeToReclaim StubsInMaps NoLeakedEntry RestoredIsClean
PROPERTY ImplementsStore
