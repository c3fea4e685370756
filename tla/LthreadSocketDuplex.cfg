CONSTANTS
  lt1 = lt1
  lt2 = lt2
  lt3 = lt3
  Lthreads = {lt1, lt2, lt3}
  NULL = NULL
  Fds = {1, 2, 3, 4}
  Capacity <- Buffers
  Width = 2
  MaxEvents = 2
  Programs <- DuplexPrograms
  Iovs <- TwoIovs
  LineMax = 2
  MaxCalls <- CallBounds
SPECIFICATION Spec
INVARIANT EventsMeetOwners
