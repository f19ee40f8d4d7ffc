CONSTANTS
  MarkSweeps = 3
SPECIFICATION FairSpec
INVARIANTS TypeOK TasksAccounted CompactionsSpaced
PROPERTIES ShutdownDrains BackgroundCompacts RequestsAnswered
