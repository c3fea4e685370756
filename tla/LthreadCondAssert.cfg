SPECIFICATION BothSpec
CONSTANTS
  a = a
  b = b
  c = c
  d = d
  x = x
  y = y
  z = z
  NULL = NULL
  Lthreads <- MCThree
  Timeouts = TRUE
INVARIANT AssertionsHold
CHECK_DEADLOCK FALSE
