CONSTANTS
  o1 = o1  o2 = o2  t1 = t1  t2 = t2
  Objects <- OneObject
  Threads <- TwoThreads
  Fields <- OneField
  Values <- TwoValues
  InitialValue = 0
  Zero = Zero
  WsrTop = 1
  AllocGC = TRUE
  EarlyCompaction = TRUE
  IoErrors = TRUE
  CasWrites = TRUE
  NoEntry = NoEntry  Unwritten = Unwritten  EmptyEntry = EmptyEntry
  Unallocated = Unallocated
SPECIFICATION Spec
SYMMETRY ThreadSymmetry
CHECK_DEADLOCK FALSE
INVARIANTS WrittenIsResident CandidatesArePlain
