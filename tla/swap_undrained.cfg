CONSTANTS
  o1 = o1  o2 = o2  t1 = t1  t2 = t2
  Objects <- OneObject
  Threads <- OneThread
  Fields <- OneField
  Values <- TwoValues
  InitialValue = 0
  Zero = Zero
  WsrTop = 1
  AllocGC = FALSE
  EarlyCompaction = TRUE
  IoErrors = FALSE
  CasWrites = FALSE
  NoEntry = NoEntry  Unwritten = Unwritten  EmptyEntry = EmptyEntry
  Unallocated = Unallocated
SPECIFICATION Spec
INVARIANT SafeToReclaim
