SPECIFICATION FairSpec
CONSTANTS
  N = 2
  m = m
  a = a
  b = b
  NULL = NULL
  Lthreads <- MCTwo
  Main = m
  Calls <- MCZeroCalls
  Spurious = FALSE
PROPERTIES
  RunReturns
  ReadyRuns
