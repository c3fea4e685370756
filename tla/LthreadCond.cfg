SPECIFICATION BothSpec
CONSTANTS
  a = a
  b = b
  c = c
  d = d
  x = x
  y = y
  z = z
  NULL = NULL
  Lthreads <- MCFour
  Timeouts = FALSE
SYMMETRY MCSymmetry
INVARIANTS
  MutualExclusion
  BlockedIsListed
  AssertionsHold
  NoStuckLocker
  WakeOwed
  CondInv
  TimedExclusion
  TimedListed
  TimedNoStuckLocker
PROPERTY LockGranted
CHECK_DEADLOCK FALSE
