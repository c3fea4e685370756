SPECIFICATION FairSpec
CONSTANTS
  N = 2
  m = m
  a = a
  b = b
  NULL = NULL
  Lthreads <- MCOne
  Main = m
  Calls <- MCSleepCalls
  Spurious = FALSE
PROPERTY SleepsUntilDue
