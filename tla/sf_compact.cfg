CONSTANTS
  t1 = t1  Pid = Pid
  Keys <- TwoKeys
  Size <- TwoSizes
  Threads <- OneThread
  MaxFile = 4
  OneMishap = TRUE
SPECIFICATION FairSpec
INVARIANTS TypeOK SnapshotsInPlace SwapInRestores AppendsAtEnd GarbageAccounted
PROPERTY OperationsEnd
