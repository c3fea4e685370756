SPECIFICATION Spec
CONSTANTS
  N = 2
  m = m
  a = a
  b = b
  NULL = NULL
  Lthreads <- MCThree
  Main = m
  Calls <- MCCalls
  Spurious = TRUE
SYMMETRY MCSymmetry
INVARIANTS
  TypeOK
  OneHolder
  LockedOwner
  NoSleepOnWork
  NothingLost
  DoneMeansDone
  OverIsUnreachable
  PendingIsCounted
  IInv
