SPECIFICATION FairSpec
CONSTANTS
  N = 3
  m = m
  a = a
  b = b
  NULL = NULL
  Lthreads <- MCTwo
  Main = m
  Calls <- MCNoCalls
  Spurious = TRUE
PROPERTY RunReturnsAnyway
