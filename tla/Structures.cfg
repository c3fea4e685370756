CONSTANTS
  NULL = NULL
  Elements = {1, 2, 3, 4, 5, 6, 7, 8, 9}
  Key <- NineKeys
  Queues = {q1, q2}
  Items = {e1, e2, e3}
  Payloads = {p1, p2, p3, p4, p5}
  HeapKeys = {1, 2, 3}
  MinCapacity = 0
  MaxCapacity = 2
  Pool = {s1, s2}
  Blocks = {b1, b2, b3}
  LTHREAD_CACHE_SIZE = 2
SPECIFICATION Spec
INVARIANTS RedBlack SearchesAgree WalksAgree CachedOnce
PROPERTIES IsOrderedSet AreSequences HeapIsPriorityQueue StartsZeroed
