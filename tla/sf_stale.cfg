CONSTANTS
  t1 = t1  Pid = Pid
  Keys <- TwoKeys
  Size <- TwoSizes
  Threads <- OneThread
  MaxFile = 4
  OneMishap = TRUE
SPECIFICATION Spec
INVARIANT ReadsReturnValidData
