CONSTANTS
  f1 = f1  f2 = f2  x1 = x1  x2 = x2  t1 = t1  t2 = t2  Null = Null
  Fields <- TwoFields
  Targets <- TwoTargets
  Threads <- TwoThreads
SPECIFICATION Spec
SYMMETRY Symmetry
INVARIANTS TypeOK NoDanglingReference StubRefsMatch
PROPERTY OnlyStoresChangeRefs
CONSTRAINT MishapBound
