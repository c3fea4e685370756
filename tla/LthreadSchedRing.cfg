SPECIFICATION FairSpec
CONSTANTS
  N = 3
  m = m
  a = a
  b = b
  NULL = NULL
  Lthreads <- MCTwo
  Main = m
  Calls <- MCRingCalls
  Spurious = FALSE
PROPERTY RunReturns
