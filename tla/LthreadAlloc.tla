---------------------------- MODULE LthreadAlloc ----------------------------
(***************************************************************************)
(* Where the memory of an lthread comes from and goes to: the C heap and,  *)
(* in the build without minicoro, a cache in every scheduler.  The caches  *)
(* have no mutex of their own: a scheduler takes from its own in           *)
(* lthread_create(), and gives to its own at the end of _lthread_resume(), *)
(* but the lthread it gives may have been created by another.              *)
(*                                                                         *)
(* A run of the lthread between two switches is one step, which may leave  *)
(* anything in its fields; `stack' is the stack of the build without       *)
(* minicoro and the coroutine of the other.                                *)
(***************************************************************************)
EXTENDS Integers, Sequences, SequencesExt

CONSTANTS Pool,                \* the schedulers
          Blocks,              \* bound: what calloc() may return
          LTHREAD_CACHE_SIZE

ASSUME AllocAssumption == LTHREAD_CACHE_SIZE \in Nat /\ Pool # {}

VARIABLES
  minicoro,       \* USE_MINICORO
  life,           \* of a block: heap, live, exited, returned or cached
  sched,          \* lt->sched
  stack,          \* none, good, or bad: what an unchecked mmap() or mco_create() gave
  zeroed,         \* are the other fields of the block zero?
  lthread_cache,  \* the part of the array below lthread_cache_size
  result          \* of the last lthread_create: none, ok, error or crash

allocVars == <<minicoro, life, sched, stack, zeroed, lthread_cache, result>>

AllocInit ==
  /\ minicoro \in BOOLEAN
  /\ life = [b \in Blocks |-> "heap"]
  /\ sched = [b \in Blocks |-> CHOOSE s \in Pool : TRUE]
  /\ stack = [b \in Blocks |-> "none"]
  /\ zeroed = [b \in Blocks |-> FALSE]
  /\ lthread_cache = [s \in Pool |-> <<>>]
  /\ result = "none"

\* The new lthread is made ready on s.
Created(s, b) ==
  /\ life' = [life EXCEPT ![b] = "live"]
  /\ sched' = [sched EXCEPT ![b] = s]
  /\ result' = "ok"

\* Mutant: lthread_cache_size is not decremented.
allocate_cached_Keeps(s) ==
  /\ lthread_cache[s] # <<>>
  /\ Created(s, Last(lthread_cache[s]))
  /\ UNCHANGED <<stack, zeroed, lthread_cache>>

\* _lthread_allocate, from the cache.
allocate_cached(s) ==
  /\ lthread_cache[s] # <<>>
  /\ Created(s, Last(lthread_cache[s]))
  /\ lthread_cache' = [lthread_cache EXCEPT ![s] = Front(@)]
  /\ UNCHANGED <<stack, zeroed>>

\* From the heap: neither mmap() nor mco_create() is checked.
allocate_new(s) ==
  /\ lthread_cache[s] = <<>>
  /\ \E b \in Blocks :
       /\ life[b] = "heap"
       /\ Created(s, b)
       /\ zeroed' = [zeroed EXCEPT ![b] = TRUE]
       /\ \E got \in {"good", "bad"} : stack' = [stack EXCEPT ![b] = got]
  /\ UNCHANGED lthread_cache

\* calloc() or posix_memalign() fails.  The latter does not set errno: when that is
\* zero, lthread_create() takes the null pointer for a success.
allocate_fails(s) ==
  /\ lthread_cache[s] = <<>>
  /\ result' = "error" \/ (~minicoro /\ result' = "crash")
  /\ UNCHANGED <<life, sched, stack, zeroed, lthread_cache>>

lthread_create(s) == allocate_cached(s) \/ allocate_new(s) \/ allocate_fails(s)

\* s runs the lthread for a while, having stolen it or not.
resume(s, b) ==
  /\ life[b] = "live" /\ stack[b] = "good"
  /\ sched' = [sched EXCEPT ![b] = s]
  /\ zeroed' = [zeroed EXCEPT ![b] = FALSE]
  /\ \E end \in {"live", "exited", "returned"} : life' = [life EXCEPT ![b] = end]
  /\ UNCHANGED <<stack, lthread_cache, result>>

\* _exec calls _lthread_exit after the function; mco_entry does not.
exec_exit(b) ==
  /\ life[b] = "returned" /\ ~minicoro
  /\ life' = [life EXCEPT ![b] = "exited"]
  /\ UNCHANGED <<sched, stack, zeroed, lthread_cache, result>>

\* Mutant: the fields of the dead lthread are kept.
lthread_free_Kept(b) ==
  LET s == sched[b] IN
  /\ life[b] = "exited"
  /\ IF ~minicoro /\ Len(lthread_cache[s]) < LTHREAD_CACHE_SIZE
       THEN /\ lthread_cache' = [lthread_cache EXCEPT ![s] = Append(@, b)]
            /\ life' = [life EXCEPT ![b] = "cached"]
            /\ UNCHANGED <<stack, zeroed>>
       ELSE /\ life' = [life EXCEPT ![b] = "heap"]
            /\ stack' = [stack EXCEPT ![b] = "none"]
            /\ UNCHANGED <<lthread_cache, zeroed>>
  /\ UNCHANGED <<sched, result>>

\* _lthread_free, at the end of _lthread_resume.
lthread_free(b) ==
  LET s == sched[b] IN
  /\ life[b] = "exited"
  /\ IF ~minicoro /\ Len(lthread_cache[s]) < LTHREAD_CACHE_SIZE
       THEN /\ lthread_cache' = [lthread_cache EXCEPT ![s] = Append(@, b)]
            /\ life' = [life EXCEPT ![b] = "cached"]
            /\ zeroed' = [zeroed EXCEPT ![b] = TRUE]
            /\ UNCHANGED stack
       ELSE /\ life' = [life EXCEPT ![b] = "heap"]
            /\ stack' = [stack EXCEPT ![b] = "none"]
            /\ UNCHANGED <<lthread_cache, zeroed>>
  /\ UNCHANGED <<sched, result>>

AllocStep ==
  \/ \E s \in Pool : lthread_create(s)
  \/ \E s \in Pool, b \in Blocks : resume(s, b)
  \/ \E b \in Blocks : exec_exit(b) \/ lthread_free(b)

AllocNext ==
  \/ result # "crash" /\ UNCHANGED minicoro /\ AllocStep
  \/ result = "crash" /\ UNCHANGED allocVars

AllocSpec == AllocInit /\ [][AllocNext]_allocVars

-----------------------------------------------------------------------------
(* Properties *)

\* No block is used twice: what is in a cache is in one place of one cache and is
\* no lthread, within the array, and has kept the stack it was made with; nothing
\* that is back on the heap holds a stack.
CachedOnce ==
  /\ \A s \in Pool :
       /\ Len(lthread_cache[s]) <= LTHREAD_CACHE_SIZE
       /\ IsInjective(lthread_cache[s])
       /\ \A b \in ToSet(lthread_cache[s]) : life[b] = "cached" /\ stack[b] = "good"
  /\ \A b \in Blocks :
       /\ life[b] = "cached" => \E s \in Pool : b \in ToSet(lthread_cache[s])
       /\ (life[b] = "heap") <=> (stack[b] = "none")
  /\ \A s, other \in Pool :
       s # other => ToSet(lthread_cache[s]) \cap ToSet(lthread_cache[other]) = {}

\* An lthread starts with zero in every field but its stack and its scheduler,
\* also when another has lived in its memory: lthread_create() sets only four.
StartsZeroed ==
  [][\A b \in Blocks : life[b] # "live" /\ life'[b] = "live" => zeroed'[b]]_allocVars
=============================================================================
