------------------------- MODULE LthreadAllocProofs -------------------------
(***************************************************************************)
(* The theorems about LthreadAlloc, for any number of schedulers and of    *)
(* blocks and for every size of the caches.                                *)
(***************************************************************************)
EXTENDS LthreadAlloc, TLAPS

\* _lthread_allocate() takes the last lthread of a cache off it.
LEMMA TakesLast ==
  ASSUME NEW S, NEW q \in Seq(S), q # <<>>, IsInjective(q)
  PROVE  /\ Front(q) \in Seq(S) /\ Len(Front(q)) <= Len(q) /\ IsInjective(Front(q))
         /\ Last(q) \in S /\ Last(q) \in ToSet(q)
         /\ ToSet(Front(q)) = ToSet(q) \ {Last(q)}
<1> DEFINE n == Len(q)
           f == Front(q)
<1>1. n \in Nat \ {0} /\ DOMAIN q = 1 .. n /\ n \in 1 .. n
  OBVIOUS
<1>2. f \in Seq(S) /\ Len(f) = n - 1
  BY <1>1 DEF Front
<1>3. DOMAIN f = 1 .. n - 1
  BY <1>2, <1>1
<1>4. Last(q) = q[n] /\ q[n] \in S
  BY <1>1 DEF Last
<1>5. \A i \in 1 .. n - 1 : f[i] = q[i]
  BY <1>1 DEF Front
<1> HIDE DEF f, n
<1>6. \A i \in 1 .. n - 1 : f[i] = q[i] /\ i \in 1 .. n /\ i # n
  BY <1>1, <1>5
<1>7. \A i \in 1 .. n : i # n => i \in 1 .. n - 1
  BY <1>1
<1>8. IsInjective(f)
  BY <1>1, <1>3, <1>6, Zenon DEF IsInjective
<1>9. ToSet(f) = ToSet(q) \ {q[n]}
  <2>1. ASSUME NEW x \in ToSet(f) PROVE x \in ToSet(q) \ {q[n]}
    BY <1>1, <1>3, <1>6, <2>1, Zenon DEF ToSet, IsInjective
  <2>2. ASSUME NEW x \in ToSet(q), x # q[n] PROVE x \in ToSet(f)
    BY <1>1, <1>3, <1>6, <1>7, <2>2, Zenon DEF ToSet
  <2> QED
    BY <2>1, <2>2, Zenon
<1>10. q[n] \in ToSet(q)
  BY <1>1, Zenon DEF ToSet
<1>11. Len(f) <= n
  BY <1>1, <1>2
<1> QED
  BY <1>2, <1>4, <1>8, <1>9, <1>10, <1>11, Zenon DEF f, n

\* _lthread_free() puts an lthread at the end of a cache.
LEMMA GivesLast ==
  ASSUME NEW S, NEW q \in Seq(S), NEW x \in S, IsInjective(q), x \notin ToSet(q)
  PROVE  /\ Append(q, x) \in Seq(S) /\ Len(Append(q, x)) = Len(q) + 1
         /\ IsInjective(Append(q, x))
         /\ ToSet(Append(q, x)) = ToSet(q) \cup {x}
<1> DEFINE n == Len(q)
           a == Append(q, x)
<1>1. n \in Nat /\ DOMAIN q = 1 .. n
  OBVIOUS
<1>2. a \in Seq(S) /\ Len(a) = n + 1 /\ a[n + 1] = x
  OBVIOUS
<1>3. DOMAIN a = 1 .. n + 1
  BY <1>1, <1>2
<1>4. ASSUME NEW i \in 1 .. n PROVE a[i] = q[i] /\ i \in 1 .. n + 1
  BY <1>1
<1>5. n + 1 \in 1 .. n + 1 /\ \A i \in 1 .. n + 1 : i \in 1 .. n \/ i = n + 1
  BY <1>1
<1> HIDE DEF a, n
<1>6. \A i \in 1 .. n : q[i] # x
  BY <1>1, Zenon DEF ToSet
<1>7. IsInjective(a)
  BY <1>1, <1>2, <1>3, <1>4, <1>5, <1>6, Zenon DEF IsInjective
<1>8. ToSet(a) = ToSet(q) \cup {x}
  <2>1. ASSUME NEW y \in ToSet(a) PROVE y \in ToSet(q) \cup {x}
    BY <1>1, <1>2, <1>3, <1>4, <1>5, <2>1, Zenon DEF ToSet
  <2>2. ASSUME NEW y \in ToSet(q) PROVE y \in ToSet(a)
    BY <1>1, <1>3, <1>4, <2>2, Zenon DEF ToSet
  <2>3. x \in ToSet(a)
    BY <1>2, <1>3, <1>5, Zenon DEF ToSet
  <2> QED
    BY <2>1, <2>2, <2>3, Zenon
<1> QED
  BY <1>2, <1>7, <1>8, Zenon DEF a, n

-----------------------------------------------------------------------------
(* The inductive invariant *)

Lives == {"heap", "live", "exited", "returned", "cached"}

AllocTypes ==
  /\ minicoro \in BOOLEAN
  /\ life \in [Blocks -> Lives]
  /\ sched \in [Blocks -> Pool]
  /\ stack \in [Blocks -> {"none", "good", "bad"}]
  /\ zeroed \in [Blocks -> BOOLEAN]
  /\ lthread_cache \in [Pool -> Seq(Blocks)]

\* An lthread that ended has run, hence on a good stack, and what is cached has
\* been zeroed.
AllocInv ==
  /\ AllocTypes
  /\ CachedOnce
  /\ \A b \in Blocks : /\ life[b] \in {"exited", "returned"} => stack[b] = "good"
                       /\ life[b] = "cached" => zeroed[b]

\* Initially all the memory is on the heap.
LEMMA AllocStarts == AllocInit => AllocInv
<1> SUFFICES ASSUME AllocInit PROVE AllocInv
  OBVIOUS
<1>1. (CHOOSE s \in Pool : TRUE) \in Pool
  BY AllocAssumption, Zenon
<1>2. \A s \in Pool : lthread_cache[s] = <<>>
  BY DEF AllocInit
<1>3. \A s \in Pool : /\ lthread_cache[s] \in Seq(Blocks)
                      /\ Len(lthread_cache[s]) <= LTHREAD_CACHE_SIZE
                      /\ IsInjective(lthread_cache[s])
                      /\ ToSet(lthread_cache[s]) = {}
  <2>1. <<>> \in Seq(Blocks) /\ Len(<<>>) <= LTHREAD_CACHE_SIZE /\ DOMAIN <<>> = {}
    BY AllocAssumption
  <2>2. IsInjective(<<>>) /\ ToSet(<<>>) = {}
    BY <2>1, Zenon DEF IsInjective, ToSet
  <2> QED
    BY <1>2, <2>1, <2>2, Zenon
<1>4. /\ \A b \in Blocks : life[b] = "heap" /\ stack[b] = "none"
      /\ life \in [Blocks -> Lives] /\ stack \in [Blocks -> {"none", "good", "bad"}]
  BY DEF AllocInit, Lives
<1>5. /\ sched \in [Blocks -> Pool] /\ zeroed \in [Blocks -> BOOLEAN]
      /\ minicoro \in BOOLEAN
  BY <1>1, Zenon DEF AllocInit
<1>6. lthread_cache \in [Pool -> Seq(Blocks)]
  BY <1>3, Zenon DEF AllocInit
<1>7. "heap" # "cached" /\ "heap" # "exited" /\ "heap" # "returned"
  OBVIOUS
<1>8. CachedOnce
  BY <1>3, <1>4, <1>7, Zenon DEF CachedOnce
<1> QED
  BY <1>4, <1>5, <1>6, <1>7, <1>8, Zenon DEF AllocInv, AllocTypes

\* What happens to one block that is in no cache before or after.
Elsewhere(b) ==
  /\ life[b] # "cached" /\ life'[b] # "cached"
  /\ (life'[b] = "heap") <=> (stack'[b] = "none")
  /\ \A c \in Blocks \ {b} : life'[c] = life[c] /\ stack'[c] = stack[c]
  /\ UNCHANGED lthread_cache

\* The caches hold pointers to blocks.
LEMMA CachedAreBlocks ==
  AllocTypes => \A s \in Pool : ToSet(lthread_cache[s]) \subseteq Blocks
<1> SUFFICES ASSUME AllocTypes, NEW s \in Pool PROVE ToSet(lthread_cache[s]) \subseteq Blocks
  BY Zenon
<1>1. lthread_cache[s] \in Seq(Blocks)
  BY Zenon DEF AllocTypes
<1>2. \A i \in DOMAIN lthread_cache[s] : lthread_cache[s][i] \in Blocks
  BY <1>1
<1> QED
  BY <1>2, Zenon DEF ToSet

\* Such a step leaves the caches in order.
LEMMA CachesStay ==
  ASSUME AllocTypes, CachedOnce, NEW b \in Blocks, Elsewhere(b)
  PROVE  CachedOnce'
<1>1. \A s \in Pool : \A c \in ToSet(lthread_cache[s]) :
        life[c] = "cached" /\ c \in Blocks \ {b}
  <2>1. \A s \in Pool : \A c \in ToSet(lthread_cache[s]) : life[c] = "cached"
    BY Zenon DEF CachedOnce
  <2>2. \A s \in Pool : ToSet(lthread_cache[s]) \subseteq Blocks
    BY CachedAreBlocks, Zenon
  <2>3. life[b] # "cached"
    BY Zenon DEF Elsewhere
  <2> QED
    BY <2>1, <2>2, <2>3, Zenon
<1>2. \A s \in Pool : \A c \in ToSet(lthread_cache[s]) :
        life'[c] = "cached" /\ stack'[c] = "good"
  BY <1>1, Zenon DEF CachedOnce, Elsewhere
<1>3. \A c \in Blocks : /\ life'[c] = "cached" => \E s \in Pool : c \in ToSet(lthread_cache[s])
                        /\ (life'[c] = "heap") <=> (stack'[c] = "none")
  BY Zenon DEF CachedOnce, Elsewhere
<1>4. lthread_cache' = lthread_cache
  BY Zenon DEF Elsewhere
<1> QED
  BY <1>2, <1>3, <1>4, Zenon DEF CachedOnce

\* What is known of a block besides the caches, after a step on that block alone.
LEMMA BlockKept ==
  ASSUME AllocInv, NEW b \in Blocks,
         UNCHANGED minicoro,
         \E s \in Pool : sched' = [sched EXCEPT ![b] = s],
         \E l \in Lives : life' = [life EXCEPT ![b] = l],
         \E k \in {"none", "good", "bad"} : stack' = [stack EXCEPT ![b] = k],
         \E z \in BOOLEAN : zeroed' = [zeroed EXCEPT ![b] = z],
         life'[b] \in {"exited", "returned"} => stack'[b] = "good",
         life'[b] = "cached" => zeroed'[b],
         lthread_cache' \in [Pool -> Seq(Blocks)],
         CachedOnce'
  PROVE  AllocInv'
<1>1. /\ minicoro' \in BOOLEAN
      /\ life' \in [Blocks -> Lives]
      /\ sched' \in [Blocks -> Pool]
      /\ stack' \in [Blocks -> {"none", "good", "bad"}]
      /\ zeroed' \in [Blocks -> BOOLEAN]
  <2>1. life' \in [Blocks -> Lives]
    BY Zenon DEF AllocInv, AllocTypes
  <2>2. sched' \in [Blocks -> Pool]
    BY Zenon DEF AllocInv, AllocTypes
  <2>3. stack' \in [Blocks -> {"none", "good", "bad"}]
    BY Zenon DEF AllocInv, AllocTypes
  <2>4. zeroed' \in [Blocks -> BOOLEAN]
    BY Zenon DEF AllocInv, AllocTypes
  <2>5. minicoro' \in BOOLEAN
    BY Zenon DEF AllocInv, AllocTypes
  <2> QED
    BY <2>1, <2>2, <2>3, <2>4, <2>5, Zenon
<1>2. \A c \in Blocks \ {b} : /\ life'[c] = life[c] /\ stack'[c] = stack[c]
                              /\ zeroed'[c] = zeroed[c]
  BY Zenon DEF AllocInv, AllocTypes
<1>3. \A c \in Blocks : /\ life'[c] \in {"exited", "returned"} => stack'[c] = "good"
                        /\ life'[c] = "cached" => zeroed'[c]
  BY <1>2, Zenon DEF AllocInv
<1> QED
  BY <1>1, <1>3, Zenon DEF AllocInv, AllocTypes

\* A field left alone is a field written with its own value.
LEMMA Same ==
  ASSUME AllocInv, NEW b \in Blocks
  PROVE  /\ sched = [sched EXCEPT ![b] = sched[b]] /\ sched[b] \in Pool
         /\ stack = [stack EXCEPT ![b] = stack[b]] /\ stack[b] \in {"none", "good", "bad"}
         /\ zeroed = [zeroed EXCEPT ![b] = zeroed[b]] /\ zeroed[b] \in BOOLEAN
<1>1. /\ sched \in [Blocks -> Pool] /\ stack \in [Blocks -> {"none", "good", "bad"}]
      /\ zeroed \in [Blocks -> BOOLEAN]
  BY Zenon DEF AllocInv, AllocTypes
<1>2. sched = [sched EXCEPT ![b] = sched[b]] /\ sched[b] \in Pool
  BY <1>1, Zenon
<1>3. stack = [stack EXCEPT ![b] = stack[b]] /\ stack[b] \in {"none", "good", "bad"}
  BY <1>1, Zenon
<1>4. zeroed = [zeroed EXCEPT ![b] = zeroed[b]] /\ zeroed[b] \in BOOLEAN
  BY <1>1, Zenon
<1> QED
  BY <1>2, <1>3, <1>4, Zenon

\* lthread_create() from the cache.
LEMMA KeptByCached ==
  ASSUME AllocInv, UNCHANGED minicoro, NEW s \in Pool, allocate_cached(s)
  PROVE  AllocInv' /\ \A c \in Blocks : life[c] # "live" /\ life'[c] = "live" => zeroed'[c]
<1> DEFINE b == Last(lthread_cache[s])
           q == lthread_cache[s]
<1>1. q \in Seq(Blocks) /\ q # <<>> /\ IsInjective(q) /\ Len(q) <= LTHREAD_CACHE_SIZE
  BY Zenon DEF AllocInv, AllocTypes, CachedOnce, allocate_cached
<1>2. /\ Front(q) \in Seq(Blocks) /\ Len(Front(q)) <= Len(q) /\ IsInjective(Front(q))
      /\ b \in Blocks /\ b \in ToSet(q) /\ ToSet(Front(q)) = ToSet(q) \ {b}
  BY <1>1, TakesLast, Zenon
<1>3. Len(Front(q)) <= LTHREAD_CACHE_SIZE
  <2>1. Len(Front(q)) \in Nat /\ Len(q) \in Nat
    BY <1>1, <1>2
  <2> HIDE DEF q
  <2> QED
    BY <1>1, <1>2, <2>1, AllocAssumption
<1>4. /\ life' = [life EXCEPT ![b] = "live"] /\ sched' = [sched EXCEPT ![b] = s]
      /\ lthread_cache' = [lthread_cache EXCEPT ![s] = Front(q)]
      /\ UNCHANGED <<stack, zeroed>>
  BY Zenon DEF allocate_cached, Created
<1>5. life[b] = "cached" /\ stack[b] = "good" /\ zeroed[b]
  BY <1>2, Zenon DEF AllocInv, CachedOnce
<1> HIDE DEF b, q
<1>6. /\ lthread_cache' \in [Pool -> Seq(Blocks)] /\ lthread_cache'[s] = Front(q)
      /\ \A t \in Pool \ {s} : lthread_cache'[t] = lthread_cache[t]
  BY <1>2, <1>4, Zenon DEF AllocInv, AllocTypes
<1>7. /\ life'[b] = "live" /\ \A c \in Blocks \ {b} : life'[c] = life[c]
      /\ stack' = stack /\ zeroed' = zeroed
  BY <1>2, <1>4, Zenon DEF AllocInv, AllocTypes
<1>8. \A t \in Pool \ {s} : b \notin ToSet(lthread_cache[t])
  BY <1>2, Zenon DEF AllocInv, CachedOnce, q
<1>9. CachedOnce'
  <2>0. "live" # "cached" /\ "live" # "heap" /\ "good" # "none"
    OBVIOUS
  <2>1. \A t \in Pool : ToSet(lthread_cache'[t]) = ToSet(lthread_cache[t]) \ {b}
    BY <1>2, <1>6, <1>8, Zenon DEF q
  <2>2. \A t \in Pool : Len(lthread_cache'[t]) <= LTHREAD_CACHE_SIZE /\ IsInjective(lthread_cache'[t])
    BY <1>2, <1>3, <1>6, Zenon DEF AllocInv, CachedOnce
  <2>3. \A t \in Pool : ToSet(lthread_cache[t]) \subseteq Blocks
    BY CachedAreBlocks, Zenon DEF AllocInv
  <2>4. \A t \in Pool : \A c \in ToSet(lthread_cache'[t]) : life'[c] = "cached" /\ stack'[c] = "good"
    <3>1. \A t \in Pool : \A c \in ToSet(lthread_cache[t]) : life[c] = "cached" /\ stack[c] = "good"
      BY Zenon DEF AllocInv, CachedOnce
    <3> QED
      BY <1>7, <2>1, <2>3, <3>1, Zenon
  <2>5. \A c \in Blocks : /\ life'[c] = "cached" => \E t \in Pool : c \in ToSet(lthread_cache'[t])
                          /\ (life'[c] = "heap") <=> (stack'[c] = "none")
    <3>1. \A c \in Blocks : /\ life[c] = "cached" => \E t \in Pool : c \in ToSet(lthread_cache[t])
                            /\ (life[c] = "heap") <=> (stack[c] = "none")
      BY Zenon DEF AllocInv, CachedOnce
    <3>2. ASSUME NEW c \in Blocks, c # b
          PROVE  /\ life'[c] = "cached" => \E t \in Pool : c \in ToSet(lthread_cache'[t])
                 /\ (life'[c] = "heap") <=> (stack'[c] = "none")
      BY <1>7, <2>1, <3>1, <3>2, Zenon
    <3>3. life'[b] # "cached" /\ life'[b] # "heap" /\ stack'[b] # "none"
      BY <1>5, <1>7, <2>0, Zenon
    <3> QED
      BY <3>2, <3>3, Zenon
  <2>6. \A t, u \in Pool : t # u => ToSet(lthread_cache'[t]) \cap ToSet(lthread_cache'[u]) = {}
    BY <2>1, Zenon DEF AllocInv, CachedOnce
  <2> QED
    BY <2>2, <2>4, <2>5, <2>6, Zenon DEF CachedOnce
<1>10. /\ stack' = [stack EXCEPT ![b] = stack[b]] /\ stack[b] \in {"none", "good", "bad"}
       /\ zeroed' = [zeroed EXCEPT ![b] = zeroed[b]] /\ zeroed[b] \in BOOLEAN
  BY <1>2, <1>7, Same, Zenon
<1>11. "live" \in Lives /\ "live" \notin {"exited", "returned"} /\ "live" # "cached"
  BY DEF Lives
<1>12. AllocInv'
  BY <1>2, <1>4, <1>6, <1>7, <1>9, <1>10, <1>11, BlockKept, Zenon
<1> QED
  BY <1>5, <1>7, <1>12, Zenon
\* lthread_create() from the heap.
LEMMA KeptByNew ==
  ASSUME AllocInv, UNCHANGED minicoro, NEW s \in Pool, allocate_new(s)
  PROVE  AllocInv' /\ \A c \in Blocks : life[c] # "live" /\ life'[c] = "live" => zeroed'[c]
<1>0. /\ "live" \in Lives /\ "live" \notin {"exited", "returned"} /\ "live" # "cached"
      /\ "live" # "heap" /\ "heap" # "cached" /\ "good" # "none" /\ "bad" # "none"
  BY DEF Lives
<1>1. PICK b \in Blocks :
        /\ life[b] = "heap" /\ Created(s, b) /\ zeroed' = [zeroed EXCEPT ![b] = TRUE]
        /\ \E got \in {"good", "bad"} : stack' = [stack EXCEPT ![b] = got]
  BY Zenon DEF allocate_new
<1>2. PICK got \in {"good", "bad"} : stack' = [stack EXCEPT ![b] = got]
  BY <1>1, Zenon
<1>3. life' = [life EXCEPT ![b] = "live"] /\ sched' = [sched EXCEPT ![b] = s]
  BY <1>1, Zenon DEF Created
<1>4. lthread_cache' = lthread_cache /\ lthread_cache \in [Pool -> Seq(Blocks)]
  BY Zenon DEF allocate_new, AllocInv, AllocTypes
<1>5. life'[b] = "live" /\ \A c \in Blocks \ {b} : life'[c] = life[c]
  BY <1>3, Zenon DEF AllocInv, AllocTypes
<1>6. stack'[b] = got /\ \A c \in Blocks \ {b} : stack'[c] = stack[c]
  BY <1>2, Zenon DEF AllocInv, AllocTypes
<1>7. zeroed'[b] = TRUE
  BY <1>1, Zenon DEF AllocInv, AllocTypes
<1>8. Elsewhere(b)
  BY <1>0, <1>1, <1>4, <1>5, <1>6, Zenon DEF Elsewhere
<1>9. CachedOnce'
  BY <1>8, CachesStay, Zenon DEF AllocInv
<1>10. AllocInv'
  BY <1>0, <1>1, <1>2, <1>3, <1>4, <1>5, <1>9, BlockKept, Zenon
<1> QED
  BY <1>5, <1>7, <1>10, Zenon

\* What an lthread or its end leaves.
LEMMA KeptByRun ==
  ASSUME AllocInv, UNCHANGED minicoro, NEW b \in Blocks,
         (\E s \in Pool : resume(s, b)) \/ exec_exit(b)
  PROVE  AllocInv' /\ \A c \in Blocks : life[c] # "live" => life'[c] # "live"
<1>0. /\ {"live", "exited", "returned"} \subseteq Lives
      /\ \A end \in {"live", "exited", "returned"} : end # "heap" /\ end # "cached"
      /\ "returned" # "live" /\ "exited" # "live" /\ "good" # "none"
  BY DEF Lives
<1>1. /\ lthread_cache' = lthread_cache /\ lthread_cache \in [Pool -> Seq(Blocks)]
      /\ stack' = stack /\ stack' = [stack EXCEPT ![b] = stack[b]]
      /\ stack[b] \in {"none", "good", "bad"}
  <2>1. lthread_cache' = lthread_cache /\ stack' = stack
    BY Zenon DEF resume, exec_exit
  <2>2. lthread_cache \in [Pool -> Seq(Blocks)]
    BY Zenon DEF AllocInv, AllocTypes
  <2> QED
    BY <2>1, <2>2, Same, Zenon
<1>2. /\ life[b] \in {"live", "returned"} /\ stack[b] = "good"
      /\ \E end \in {"live", "exited", "returned"} :
           life' = [life EXCEPT ![b] = end] /\ (end = "live" => life[b] = "live")
  <2>1. CASE \E s \in Pool : resume(s, b)
    BY <2>1, Zenon DEF resume
  <2>2. CASE exec_exit(b)
    BY <1>0, <2>2, Zenon DEF exec_exit, AllocInv
  <2> QED
    BY <2>1, <2>2, Zenon
<1>3. \E s \in Pool : sched' = [sched EXCEPT ![b] = s]
  <2>1. CASE \E s \in Pool : resume(s, b)
    BY <2>1, Zenon DEF resume
  <2>2. CASE exec_exit(b)
    <3>1. sched' = sched
      BY <2>2, Zenon DEF exec_exit
    <3> QED
      BY <3>1, Same, Zenon
  <2> QED
    BY <2>1, <2>2, Zenon
<1>4. \E z \in BOOLEAN : zeroed' = [zeroed EXCEPT ![b] = z]
  <2>1. CASE \E s \in Pool : resume(s, b)
    BY <2>1, Zenon DEF resume
  <2>2. CASE exec_exit(b)
    <3>1. zeroed' = zeroed
      BY <2>2, Zenon DEF exec_exit
    <3> QED
      BY <3>1, Same, Zenon
  <2> QED
    BY <2>1, <2>2, Zenon
<1>5. PICK end \in {"live", "exited", "returned"} :
        life' = [life EXCEPT ![b] = end] /\ (end = "live" => life[b] = "live")
  BY <1>2, Zenon
<1>6. life'[b] = end /\ \A c \in Blocks \ {b} : life'[c] = life[c]
  BY <1>5, Zenon DEF AllocInv, AllocTypes
<1>7. life[b] # "cached" /\ life'[b] # "cached" /\ life'[b] # "heap" /\ stack'[b] # "none"
  BY <1>0, <1>1, <1>2, <1>6, Zenon
<1>8. Elsewhere(b)
  BY <1>1, <1>6, <1>7, Zenon DEF Elsewhere
<1>9. CachedOnce'
  BY <1>8, CachesStay, Zenon DEF AllocInv
<1>10. stack'[b] = "good" /\ end \in Lives
  BY <1>0, <1>1, <1>2, Zenon
<1>11. AllocInv'
  BY <1>1, <1>3, <1>4, <1>5, <1>7, <1>9, <1>10, BlockKept, Zenon
<1> QED
  BY <1>5, <1>6, <1>11, Zenon
\* _lthread_free() into the cache of the scheduler the lthread ran on last.
LEMMA KeptByCaching ==
  ASSUME AllocInv, UNCHANGED minicoro, NEW b \in Blocks, NEW s \in Pool,
         life[b] = "exited", Len(lthread_cache[s]) < LTHREAD_CACHE_SIZE,
         lthread_cache' = [lthread_cache EXCEPT ![s] = Append(@, b)],
         life' = [life EXCEPT ![b] = "cached"],
         zeroed' = [zeroed EXCEPT ![b] = TRUE],
         UNCHANGED <<stack, sched>>
  PROVE  AllocInv' /\ \A c \in Blocks : life[c] # "live" => life'[c] # "live"
<1> DEFINE q == lthread_cache[s]
<1>0. /\ "cached" \in Lives /\ "cached" # "live" /\ "cached" # "heap" /\ "exited" # "cached"
      /\ "cached" \notin {"exited", "returned"} /\ "good" # "none"
      /\ "exited" \in {"exited", "returned"}
  BY DEF Lives
<1>1. q \in Seq(Blocks) /\ IsInjective(q)
  BY Zenon DEF AllocInv, AllocTypes, CachedOnce
<1>2. stack[b] = "good"
  BY <1>0, Zenon DEF AllocInv
<1>3. \A t \in Pool : b \notin ToSet(lthread_cache[t])
  <2>1. \A t \in Pool : \A c \in ToSet(lthread_cache[t]) : life[c] = "cached"
    BY Zenon DEF AllocInv, CachedOnce
  <2> QED
    BY <1>0, <2>1, Zenon
<1>4. /\ Append(q, b) \in Seq(Blocks) /\ Len(Append(q, b)) = Len(q) + 1
      /\ IsInjective(Append(q, b)) /\ ToSet(Append(q, b)) = ToSet(q) \cup {b}
  <2>1. b \notin ToSet(q)
    BY <1>3, Zenon
  <2> HIDE DEF q
  <2> QED
    BY <1>1, <2>1, GivesLast, Zenon
<1>5. Len(Append(q, b)) <= LTHREAD_CACHE_SIZE
  <2>1. Len(q) \in Nat
    BY <1>1
  <2>2. Len(q) < LTHREAD_CACHE_SIZE
    OBVIOUS
  <2> HIDE DEF q
  <2> QED
    BY <1>4, <2>1, <2>2, AllocAssumption
<1>6. /\ lthread_cache' \in [Pool -> Seq(Blocks)] /\ lthread_cache'[s] = Append(q, b)
      /\ \A t \in Pool \ {s} : lthread_cache'[t] = lthread_cache[t]
  <2>1. lthread_cache \in [Pool -> Seq(Blocks)]
    BY Zenon DEF AllocInv, AllocTypes
  <2> QED
    BY <1>4, <2>1, Zenon
<1> HIDE DEF q
<1>7. life'[b] = "cached" /\ \A c \in Blocks \ {b} : life'[c] = life[c]
  BY Zenon DEF AllocInv, AllocTypes
<1>8. zeroed'[b] = TRUE
  BY Zenon DEF AllocInv, AllocTypes
<1>9. CachedOnce'
  <2>1. /\ ToSet(lthread_cache'[s]) = ToSet(lthread_cache[s]) \cup {b}
        /\ \A t \in Pool \ {s} : ToSet(lthread_cache'[t]) = ToSet(lthread_cache[t])
    BY <1>4, <1>6, Zenon DEF q
  <2>2. \A t \in Pool : Len(lthread_cache'[t]) <= LTHREAD_CACHE_SIZE /\ IsInjective(lthread_cache'[t])
    BY <1>4, <1>5, <1>6, Zenon DEF AllocInv, CachedOnce
  <2>3. \A t \in Pool : ToSet(lthread_cache[t]) \subseteq Blocks \ {b}
    BY <1>3, CachedAreBlocks, Zenon DEF AllocInv
  <2>4. \A t \in Pool : \A c \in ToSet(lthread_cache'[t]) : life'[c] = "cached" /\ stack'[c] = "good"
    <3>1. \A t \in Pool : \A c \in ToSet(lthread_cache[t]) : life[c] = "cached" /\ stack[c] = "good"
      BY Zenon DEF AllocInv, CachedOnce
    <3>2. \A t \in Pool : \A c \in ToSet(lthread_cache[t]) : life'[c] = "cached" /\ stack'[c] = "good"
      BY <1>7, <2>3, <3>1, Zenon
    <3> QED
      <4>1. ASSUME NEW t \in Pool, NEW c \in ToSet(lthread_cache'[t]), c # b
            PROVE  c \in ToSet(lthread_cache[t])
        BY <2>1, <4>1, Zenon
      <4>2. life'[b] = "cached" /\ stack'[b] = "good"
        BY <1>2, <1>7, Zenon
      <4> QED
        BY <3>2, <4>1, <4>2, Zenon
  <2>5. \A c \in Blocks : /\ life'[c] = "cached" => \E t \in Pool : c \in ToSet(lthread_cache'[t])
                          /\ (life'[c] = "heap") <=> (stack'[c] = "none")
    <3>1. \A c \in Blocks : /\ life[c] = "cached" => \E t \in Pool : c \in ToSet(lthread_cache[t])
                            /\ (life[c] = "heap") <=> (stack[c] = "none")
      BY Zenon DEF AllocInv, CachedOnce
    <3>2. \A t \in Pool : ToSet(lthread_cache[t]) \subseteq ToSet(lthread_cache'[t])
      BY <2>1, Zenon
    <3>3. ASSUME NEW c \in Blocks, c # b
          PROVE  /\ life'[c] = "cached" => \E t \in Pool : c \in ToSet(lthread_cache'[t])
                 /\ (life'[c] = "heap") <=> (stack'[c] = "none")
      BY <1>7, <3>1, <3>2, <3>3, Zenon
    <3>4. /\ \E t \in Pool : b \in ToSet(lthread_cache'[t])
          /\ life'[b] # "heap" /\ stack'[b] # "none"
      BY <1>0, <1>2, <1>7, <2>1, Zenon
    <3> QED
      BY <3>3, <3>4, Zenon
  <2>6. \A t, u \in Pool : t # u => ToSet(lthread_cache'[t]) \cap ToSet(lthread_cache'[u]) = {}
    <3>1. \A t, u \in Pool : t # u => ToSet(lthread_cache[t]) \cap ToSet(lthread_cache[u]) = {}
      BY Zenon DEF AllocInv, CachedOnce
    <3> QED
      <4>1. ASSUME NEW t \in Pool, NEW u \in Pool, t # u, NEW c \in ToSet(lthread_cache'[t])
            PROVE  c \notin ToSet(lthread_cache'[u])
        <5>1. CASE c = b
          <6>1. t = s
            BY <1>3, <2>1, <4>1, <5>1, Zenon
          <6> QED
            BY <1>3, <2>1, <4>1, <5>1, <6>1, Zenon
        <5>2. CASE c # b
          <6>1. c \in ToSet(lthread_cache[t])
            BY <2>1, <4>1, <5>2, Zenon
          <6>2. c \notin ToSet(lthread_cache[u])
            BY <3>1, <4>1, <6>1, Zenon
          <6> QED
            BY <2>1, <5>2, <6>2, Zenon
        <5> QED
          BY <5>1, <5>2, Zenon
      <4> QED
        BY <4>1, Zenon
  <2> QED
    BY <2>2, <2>4, <2>5, <2>6, Zenon DEF CachedOnce
<1>10. AllocInv'
  <2>1. sched' = sched /\ stack' = stack
    BY Zenon
  <2>2. /\ \E u \in Pool : sched' = [sched EXCEPT ![b] = u]
        /\ \E k \in {"none", "good", "bad"} : stack' = [stack EXCEPT ![b] = k]
    BY <2>1, Same, Zenon
  <2> QED
    BY <1>0, <1>6, <1>7, <1>8, <1>9, <2>2, BlockKept, Zenon
<1> QED
  BY <1>0, <1>7, <1>10, Zenon
\* _lthread_free() to the heap.
LEMMA KeptByFreeing ==
  ASSUME AllocInv, UNCHANGED minicoro, NEW b \in Blocks,
         life[b] = "exited",
         life' = [life EXCEPT ![b] = "heap"],
         stack' = [stack EXCEPT ![b] = "none"],
         UNCHANGED <<lthread_cache, zeroed, sched>>
  PROVE  AllocInv' /\ \A c \in Blocks : life[c] # "live" => life'[c] # "live"
<1>0. /\ "heap" \in Lives /\ "heap" # "live" /\ "heap" # "cached" /\ "exited" # "cached"
      /\ "heap" \notin {"exited", "returned"}
  BY DEF Lives
<1>1. life'[b] = "heap" /\ \A c \in Blocks \ {b} : life'[c] = life[c]
  BY Zenon DEF AllocInv, AllocTypes
<1>2. stack'[b] = "none" /\ \A c \in Blocks \ {b} : stack'[c] = stack[c]
  BY Zenon DEF AllocInv, AllocTypes
<1>3. lthread_cache' = lthread_cache /\ zeroed' = zeroed /\ sched' = sched
  BY Zenon
<1>4. Elsewhere(b)
  BY <1>0, <1>1, <1>2, <1>3, Zenon DEF Elsewhere
<1>5. CachedOnce'
  BY <1>4, CachesStay, Zenon DEF AllocInv
<1>6. /\ \E s \in Pool : sched' = [sched EXCEPT ![b] = s]
      /\ \E z \in BOOLEAN : zeroed' = [zeroed EXCEPT ![b] = z]
  BY <1>3, Same, Zenon
<1>7. lthread_cache' \in [Pool -> Seq(Blocks)]
  BY <1>3, Zenon DEF AllocInv, AllocTypes
<1>8. AllocInv'
  BY <1>0, <1>1, <1>5, <1>6, <1>7, BlockKept, Zenon
<1> QED
  BY <1>0, <1>1, <1>8, Zenon

\* Every step keeps the invariant, and makes no lthread live that is not zeroed.
LEMMA AllocKept ==
  ASSUME AllocInv, [AllocNext]_allocVars
  PROVE  AllocInv' /\ \A c \in Blocks : life[c] # "live" /\ life'[c] = "live" => zeroed'[c]
<1> DEFINE Goal == AllocInv' /\ \A c \in Blocks : life[c] # "live" /\ life'[c] = "live" => zeroed'[c]
<1>1. CASE /\ UNCHANGED <<minicoro, life, sched, stack, zeroed, lthread_cache>>
  BY <1>1, Zenon DEF AllocInv, AllocTypes, CachedOnce
<1>2. ASSUME UNCHANGED minicoro, NEW s \in Pool, lthread_create(s) PROVE Goal
  <2>1. CASE allocate_fails(s)
    BY <1>1, <1>2, <2>1, Zenon DEF allocate_fails
  <2> QED
    BY <1>2, <2>1, KeptByCached, KeptByNew, Zenon DEF lthread_create
<1>3. ASSUME UNCHANGED minicoro, NEW b \in Blocks,
             (\E s \in Pool : resume(s, b)) \/ exec_exit(b)
      PROVE  Goal
  BY <1>3, KeptByRun, Zenon
<1>4. ASSUME UNCHANGED minicoro, NEW b \in Blocks, lthread_free(b) PROVE Goal
  <2>1. sched[b] \in Pool
    BY Same, Zenon
  <2>2. CASE ~minicoro /\ Len(lthread_cache[sched[b]]) < LTHREAD_CACHE_SIZE
    BY <1>4, <2>1, <2>2, KeptByCaching, Zenon DEF lthread_free
  <2>3. CASE ~(~minicoro /\ Len(lthread_cache[sched[b]]) < LTHREAD_CACHE_SIZE)
    BY <1>4, <2>3, KeptByFreeing, Zenon DEF lthread_free
  <2> QED
    BY <2>2, <2>3, Zenon
<1> QED
  BY <1>1, <1>2, <1>3, <1>4, Zenon DEF AllocNext, AllocStep, allocVars

\* The invariant holds in every behaviour.
LEMMA AllocInvHolds == AllocSpec => []AllocInv
<1>1. AllocInv /\ [AllocNext]_allocVars => AllocInv'
  BY AllocKept, Zenon
<1> QED
  BY <1>1, AllocStarts, PTL DEF AllocSpec

\* However lthreads are created, stolen, ended and freed, and whichever of them
\* _lthread_free() keeps, no memory is in a cache twice or in two, none that is
\* cached is in use, each cache is within its array, and only what has no stack is
\* back on the heap.
THEOREM BlocksAreCachedOnce == AllocSpec => []CachedOnce
<1>1. AllocInv => CachedOnce
  BY Zenon DEF AllocInv
<1> QED
  BY <1>1, AllocInvHolds, PTL

\* lthread_create() never starts an lthread on the fields of a dead one: what
\* _lthread_allocate() finds in a cache _lthread_free() has zeroed, and nothing
\* has written to it since.
THEOREM LthreadsStartZeroed == AllocSpec => StartsZeroed
<1>1. AllocInv /\ [AllocNext]_allocVars =>
        [\A b \in Blocks : life[b] # "live" /\ life'[b] = "live" => zeroed'[b]]_allocVars
  BY AllocKept, Zenon
<1> QED
  BY <1>1, AllocInvHolds, PTL DEF AllocSpec, StartsZeroed
=============================================================================
