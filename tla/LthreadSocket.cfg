CONSTANTS
  lt1 = lt1
  lt2 = lt2
  lt3 = lt3
  Lthreads = {lt1, lt2, lt3}
  NULL = NULL
  Fds = {1, 2, 3, 4}
  Capacity <- Buffers
  Width = 2
  MaxEvents = 2
  Programs <- AllPrograms
  Iovs <- TwoIovs
  LineMax = 2
  MaxCalls <- CallBounds
SPECIFICATION FairSpec
INVARIANTS TypeOK TreeIsKeyed WaitIsArmed EofIsOwn EventsMeetWaiters BytesAccounted NoDescriptorLeak
PROPERTIES PollerSpec ReadyIsResumed
