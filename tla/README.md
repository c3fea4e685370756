# A verification of lthread

TLA+ modules, TLC configurations and TLAPS proofs for the M:N scheduler in
`src/src/`: user-level threads ("lthreads") that run on a pool of
operating-system threads with work stealing, a poller thread for descriptors,
condition variables, socket functions, and the containers they are made of.  All
line numbers below are of files under `src/src/`.

## The system

| part | source | state | operations |
|---|---|---|---|
| scheduler loop | `lthread.c` 388-466, 597-713 | per scheduler: `ready`, `sleeping`, `current_lthread`, `block_state`, mutex, condition | expire sleepers, pop or steal, resume, block, deep sleep, leave |
| pool | `lthread.c` 115-158, 438-457 | `asleep[]`, ring of neighbours | create, agree to stop, join, free |
| lthread | `lthread.c` 102-286, 474-590 | `state`, `sched`, `needs_resched`, `sleep_usecs`, `is_running` | create, yield, sleep, wait for a descriptor, wake, exit, return |
| memory | `lthread.c` 525-590 | `lthread_cache[]` of every scheduler | allocate, free |
| condition | `lthread_cond.c` | `owner`, FIFO `blocked_lthreads`, mutex | lock, wait (timed), unlock and signal |
| poller | `lthread_poller.c`, `lthread_kqueue.c` | `waiting` tree, `num_pending_events`, one-shot filters | register, poll, hand an event to its lthread, close |
| sockets | `lthread_socket.c` | none of its own | retry loops over non-blocking calls |
| containers | `tree.h`, `queue.h`, `lthread_heap.h` | | red-black tree, tail queue, binary heap |

A scheduler thread runs one lthread at a time.  An lthread that must wait
registers with a condition, the poller or a sleep tree and switches back to its
scheduler; a third thread later makes it ready.  Registering and switching are
not one step: the wake-up may come while the lthread is still on its stack.
Schedulers with nothing to do steal from the ring, then block; when all of them
are in deep sleep and the poller has nothing pending, the run is over.

What makes this hard to test, line by line, is the `hazards` list of
`PROJECT.json`.  The main groups:

* a wake-up that races the switch of the lthread it wakes (`needs_resched`);
* `lt->sched`, written by a thief and read by wakers without a mutex;
* the `block_state` handshake, which must not lose a push that comes between a
  scheduler's last look at its queue and its wait;
* the agreement that all work is done, from flags written under three different
  mutexes;
* timeouts that race signals;
* `lt->state`, changed under two different mutexes, and events that wake both
  directions of one descriptor;
* system calls that do a part of what they were asked, or fail half-way.

## Modules

| module | what it is |
|---|---|
| `LthreadSchedState` | the state of the scheduler pool, and its safety properties |
| `LthreadSched` | its actions, specification and liveness properties; next to each definition they replace, the mutants |
| `LthreadSchedInv` | its inductive invariant `IInv`, a conjunction of named parts |
| `LthreadSchedEffects` | what each step does in a state that satisfies `IInv`, field by field (definitions) |
| `LthreadSchedSteps` | every action has one of these effects |
| `LthreadSchedKept` | every effect keeps each part of `IInv`, one lemma per part |
| `LthreadSchedProofs` | the theorems about the pool |
| `LthreadCond`, `LthreadCondProofs` | one condition: its owner, its list, timed and untimed waits; the theorems about it |
| `KernelSocket` | what the code asks of the kernel: sockets and a kqueue (external) |
| `LthreadPoller` | the tree of waiters, the poller's thread and `lt->state`, with any users (`PollerSpec`) |
| `LthreadPollerInv`, `LthreadPollerProofs` | the inductive invariant `PollerInv`; the theorems about the poller |
| `LthreadSocket` | the socket functions on top of `LthreadPoller` |
| `LthreadSocketInv` | their inductive invariant `SocketInv`, and their steps as the proofs take them |
| `LthreadSocketCalls` | lemmas about buffers and about each function |
| `LthreadSocketProofs` | the theorems about the socket functions |
| `LthreadAlloc`, `LthreadAllocProofs` | where the memory of an lthread comes from and goes to; the theorems about it |
| `RBTree`, `OrderedSet` | the red-black tree, pointer by pointer, and the set with keys that it implements |
| `TailQueue`, `SeqQueues` | the tail queue, pointer by pointer, and the sequences it implements |
| `LthreadHeap` | the binary heap |
| `Pointers` | the null pointer |
| `MCLthreadSched`, `MCLthreadCond`, `MCLthreadSocket`, `MCStructures` | the instances for TLC |

### The scheduler pool (LthreadSchedState, LthreadSched)

*State.*  Each field of `struct lthread_sched`, `struct lthread` and
`lthread_pool_state_t` that decides control is a variable of its name.  `pc[s]`
is where thread *s* is in `_lthread_run_sched()` and what that calls; `result`,
`victim`, `wakee` and `wsched` are locals of `_lthread_pop_ready()` and
`_lthread_wakeup()`; `poller_pc`, `event_lt` and `event_sched` are the poller
thread's.  `life` stands for the memory and the coroutine of an lthread.
`is_running` is true exactly for some scheduler's `current_lthread` and has no
variable.  A time is 0 or `Deadline`, and every reading of the clock is before or
after the latter.

*Grain.*  Code between lock and unlock is one step, since everything it touches
is touched by others only under the same mutex.  The exceptions are spelled out:
the blocking section of `_lthread_run_sched()` holds its mutex over a poller
section and a pool section and is two steps, with `Locked(s)` in between;
`result->sched = ...` (line 667) and the reads of `lt->sched` (351, 360) are
outside any mutex and are steps, or parts of the step before the lock, of their
own.  A trylock may fail at any time, because the holder's step is not visible.

*Actions.*  `schedule_expired`; `pop_own`, `steal`, `pop_blocking`,
`wake_neighbor`, `adopt` (the parts of `_lthread_pop_ready()`); `resume` and
`resume_tail` (the two critical sections of `_lthread_resume()`); `Block`,
`BeginDeepSleep`, `WakeFromDeepSleep`, `SpuriousWakeup`, `EndTimedWait`,
`exit_wake` (the rest of `_lthread_run_sched()`); one action per call of an
lthread, and three for a condition wait with a timeout (`cond_timedwait`,
`cond_sleep`, `cond_wait_return`); four for the poller; `run_join` and
`run_return` for the end of `lthread_run()`.  `Calls` says which calls the program
makes; `Untimed` says that condition waits with a timeout are not among them.

*Abstractions.*  All conditions together are the set `blocked`, all descriptors
the set `waiting`.  An lthread's function may do anything, in any order.  A wait
for a descriptor is one step: an event that comes between its two halves has the
effect of one that comes right after.

### A condition (LthreadCond)

*State.*  `owner`, `blocked_lthreads` and `is_blocked` are those of
`lthread_cond.c`; `needs_resched` and `sleep_usecs` those of `struct lthread`
(`sleep_usecs` as "holds a deadline").  The schedulers are reduced to what a
condition depends on: `ready` and `sleeping` are the lthreads on some ready queue
and in some sleep tree.  `at[lt]` is how far *lt* is: `out` (no call, not the
owner), `in` (its call has returned with the lock), `sleep` (listed, `c->mutex`
released, not yet in `_lthread_sched_sleep()`), `switched` (off to its scheduler,
which is still inside `_lthread_resume()`), `off`, `hand` (popped, not yet
`current_lthread`), `relock` (running again, about to lock `c->mutex`).

*Actions.*  `lthread_cond_lock`, `lthread_cond_wait`,
`lthread_cond_unlock_signal` up to where they unlock `c->mutex`;
`cond_wait_return` for the section after the sleep; `sched_sleep`, `resume_tail`,
`schedule_expired`, `pop_ready`, `resume`, `lthread_yield` for the scheduler.  The
last matters only for an lthread that has been marked while it runs: it uses the
mark up.  Other calls of the program change nothing that the condition reads.

*Correspondence with LthreadSched.*  `LthreadSched` sees a condition as "an
lthread blocks" and "some lthread wakes a blocked one"; `LthreadCond` decides who
is woken and what it owns.  A signal to a wait that has timed out can queue an
lthread twice (`corrupt` in `LthreadCond`), after which nothing can be said of the
pool.  So the safety properties of `LthreadSched` are about programs without timed
condition waits, its run `ring` has timed waits that nobody signals, and timed
waits that are signalled are the subject of `LthreadCond`.

*Ends.*  A failed assertion ends the program, as does a queue that is linked
twice (`corrupt`).  All lthreads may wait for a signal, so deadlock is not
checked.

### The poller (KernelSocket, LthreadPoller)

*State.*  `state` is the set of the bits `WAIT_READ`, `WAIT_WRITE` and `FDEOF` of
`lt->state`; `fd_wait` is kept modulo `Width`, 2^16 in the code, since it is an
`int16_t`; `waiting` is the tree, searched by `fd_key` and nothing else.
`poller_pc`, `event`, `events`, `ev`, `woken` and `event_lt` are the poller's
thread: the rest of the eventlist, the event it handles, and which of the two
lookups for it (a reader, then a writer) it has come to.  `at[lt]` is how far an
lthread is in `_lthread_wait_fd()`.  The kernel has a set of one-shot filters, and
for each descriptor the bytes that came in, the room to send, whether the peer has
closed, and how a `connect()` stands.

*Grain.*  A section under `poller->mutex` is one step, and so is one under
`sched->mutex`, but for one: the end of `_lthread_resume()` clears a bit of
`lt->state` with a load and a store that `poller->mutex` does not protect, which
are `resume_load` and `resume_store`.

*Any users.*  `PollerSpec` leaves open what the lthreads are for: between waits
they are elsewhere, and each waits for whatever `uses` allows it.  It is the
abstract user of the poller, which `LthreadSocket` implements (`PollerSpec` as a
property of the run `socket`, and the theorem `SocketsArePollerUsers`).

*Ends.*  A failed assertion is recorded in `failed` and ends the program; so does
the poller's close, after which the poller's thread is joined.

### The socket functions (LthreadSocket)

One action per function: a system call and what the loop does with the answer up
to the next call.  `recv` stands for the four functions that `LTHREAD_RECV`
generates, `send` for the two of `LTHREAD_SEND`.  `moved` is what the kernel has
moved for the call, `total` what the code has counted, `iov` what is left of the
buffers of `lthread_writev()` (`Upto`, `Bytes` and `Skip` are its loop over them),
`made` the descriptors a call has got and not closed.  The kernel may answer with
any number of bytes up to what there is, and with any error the code tells apart.
A new descriptor is the lowest that is free: 0 if the process has closed its
standard input (`zero`), which `lthread_accept()` takes for a failure.  The
timeouts that the functions take have no variable: the code does not look at them.

### Memory (LthreadAlloc)

Blocks of memory, in both builds: with `USE_MINICORO` they come from and go to
the heap, without it through the cache of the scheduler that frees.  A run of the
lthread between two switches is a step that may leave anything in its fields.
`allocate_fails` includes that `posix_memalign()` does not set `errno`, with which
`lthread_create()` takes a null pointer for a success.

### Containers (RBTree, TailQueue, LthreadHeap)

Each operation is one step, since its caller holds the mutex, and is written
field by field after the macros: the fix-up loops of insertion and removal, the
four ways in which a node with two children is replaced, the addresses of `next`
fields of the tail queue, with the links that a removed element keeps.

Some of this is dead code in this repository: nothing includes `lthread_heap.h`,
and nothing uses `TAILQ_INSERT_BEFORE`, `TAILQ_CONCAT` and `TAILQ_SWAP`.

## What is checked

| run | instance | result |
|---|---|---|
| `safety` | 2 schedulers, 3 lthreads (the two that are not main symmetric), every call but `lthread_sleep(0)` and timed condition waits, spurious wake-ups; 762,942 states | all safety properties of the pool and `IInv` hold |
| `live` | 2 schedulers, 2 lthreads, the same calls and `lthread_sleep(0)`; 134,314 states | `RunReturns`, `ReadyRuns` hold |
| `ring` | 3 schedulers, 2 lthreads, spawn and timed condition waits that nobody signals; 411,859 states | `RunReturns` holds |
| `spurious` | 3 schedulers, spurious wake-ups | `RunReturnsAnyway` is violated |
| `sleep0` | 2 schedulers, 2 lthreads, the calls of `live` | `NoneForgotten` is violated |
| `sleep_early` | 2 schedulers, one lthread that sleeps | `SleepsUntilDue` is violated |
| `cond` | one condition with 4 lthreads and no timeouts, or one with 3 symmetric lthreads and timeouts; 322,525 states | without timeouts all properties of conditions hold; with them `TimedExclusion`, `TimedListed`, `TimedNoStuckLocker` |
| `cond_assert` | 3 lthreads, timeouts | `AssertionsHold` is violated |
| `socket` | seven programs of one or two lthreads, `Width` 2, descriptor 0 free or not; 177,385 states | the properties of the poller and of the sockets hold |
| `socket_race` | one lthread that reads twice | `WaitStartsClean` is violated |
| `socket_duplex` | one lthread that reads from and writes to one descriptor | `EventsMeetOwners` is violated |
| `structures` | a tree of up to 8 keys (9 elements), 2 queues of 3 elements, a heap of 5 nodes, 3 blocks for 2 schedulers; 33,397 states | the properties of the containers and of the memory hold |

The pool.  `OneHolder`, `LockedOwner`, `NothingLost` and `OverIsUnreachable` are
about programs without timed condition waits (`Untimed`), as is what is proved of
the others:

* `OneHolder`: an lthread is on one queue, or in one scheduler's hand, or
  running on one scheduler; never two of these, never twice.
* `LockedOwner`: the mutex that a waker or sleeper takes is that of the
  scheduler whose structures it changes.  In particular the retry of
  `_lthread_wakeup()` never happens, and the poller does not need one.
* `NoSleepOnWork`: no scheduler waits unsignalled on work of its own.
* `NothingLost`: a live lthread is always where some thread will find it.
* `DoneMeansDone`: when one scheduler leaves its loop nothing is left anywhere.
* `OverIsUnreachable`: nothing names an lthread that is over.
* `PendingIsCounted`: `num_pending_events` is what it says.
* `SleepsUntilDue` (violated): no look at the sleep tree with a clock that reads
  less than every deadline makes an lthread ready.
* `RunReturns`, `ReadyRuns`: `lthread_run()` returns; ready lthreads run.

Conditions:

* `MutualExclusion`: an lthread whose lock or wait has succeeded is the owner.
* `BlockedIsListed`: `is_blocked` and the list agree, and nobody is listed twice.
* `NoStuckLocker`: while the lock is free, at most one lthread is listed, and it
  waits for a signal; an lthread that wants the lock is never left behind.
* `AssertionsHold`: every assertion of `lthread_cond.c`, where it is evaluated.
* `WakeOwed`: exactly the lthread that was handed the lock is queued or marked.
* `LockGranted`: who calls `lthread_cond_lock()` gets the lock.
* `TimedExclusion`, `TimedListed`, `TimedNoStuckLocker`: `MutualExclusion`,
  `BlockedIsListed` and `NoStuckLocker` of a condition whose waits may time out,
  up to the first assertion that fails or queue that is damaged.

The poller and the sockets:

* `TreeIsKeyed`: whatever is stored into `lt->state` meanwhile, an lthread in the
  tree has the key it was inserted with, no two have one key, and
  `num_pending_events` counts the tree and the lthread in the poller's hand.
* `WaitIsArmed`: an lthread that has switched out to wait has its filter armed, or
  an event on its way to it.
* `EofIsOwn`: the end-of-file mark is on no lthread but one whose own wait it ends.
* `EventsMeetWaiters`: if each descriptor has one user, one direction and its own
  16 bits, no `RB_INSERT` collides and every event finds a waiter.
* `ReadyIsResumed`: who waits for a descriptor that is ready is resumed.
* `BytesAccounted`: what a call answers is the number of bytes the kernel moved, a
  receive or send that fails has moved none, and `lthread_writev()` fails or writes
  all of its buffers.  The exception is stated: with an empty buffer at the end
  `lthread_writev()` answers 0.
* `NoDescriptorLeak`: a call that fails half-way leaves no descriptor open, one that
  succeeds only what it hands to its caller.  The exception is stated: a
  descriptor 0 that `accept()` gives.
* `PollerSpec`: the socket functions use the poller as its theorems assume.

Containers and memory:

* `RedBlack`, `SearchesAgree`: the conditions of the comment at the head of
  `tree.h`; `RB_FIND`, `RB_NFIND`, `RB_NEXT`, `RB_PREV` and `RB_MINMAX` answer
  what the keys say.
* `WalksAgree`: `TAILQ_LAST` and `TAILQ_PREV` find what `TAILQ_FOREACH` meets.
* `IsOrderedSet`, `AreSequences`: the tree and the queues implement `OrderedSet`
  and `SeqQueues`, as which the other modules use them.
* `HeapIsPriorityQueue`: each step of the heap adds one node, within the array, or
  takes out a least; but for a heap that was created with capacity 0, which never
  grows (`lthread_heap.h` 49) and is written outside its array.
* `CachedOnce`, `StartsZeroed`: no memory is cached twice or while in use; no
  lthread starts with the fields of a dead one.

*Bounds.*  Two schedulers are the least with stealing, three the least where a
wake-up has to be passed on; two or three lthreads suffice for one that runs, one
that is stolen and one that wakes.  On a condition, three lthreads are one that
owns the lock, one that is handed it and one that comes in between; with four the
list has a middle.  In the socket runs a program makes one or two calls per
lthread (`MaxCalls`), buffers hold one byte and one pair holds two (`Capacity`), a
batch of events is cut at two (`MaxEvents`), and `Width` is 2, so that descriptors
1 and 3 collide: two calls are needed for a wait that finds what another left, two
bytes for a scatter write that is cut inside a buffer.  Eight keys make trees in
which every case of both fix-up loops occurs.  The other loops are finite.

*Fairness.*  Weak fairness for every operating-system thread, which the kernel's
scheduler gives.  In `LthreadSched` this includes for the poller that a descriptor
that is waited for becomes ready, and that a poll of a closed descriptor fails, by
which the poller thread ends (`lthread_poller_close()`).  Strong fairness for the
return of each lthread's function: a program in which an lthread yields for ever
is not expected to end.  Nothing is assumed about trylocks or spurious wake-ups.
On a condition: schedulers make progress with every lthread (`Proceed`), and an
owner gives the lock up (`GiveUp`), which is the caller's duty; nobody has to ask
for the lock.  In `LthreadSocket`: the poller's thread and the scheduler that
switches an lthread out run; the peers and the lthreads do as they like.

### Findings

* `sleep0`: `lthread_sleep(0)` never comes back.  The documentation says it
  yields.  (`lthread_cond_wait()` relies on the behaviour of the code.)
* `sleep_early`: an lthread that sleeps is resumed at its scheduler's next look at
  the sleep tree, however long it asked for, since line 274 clears its deadline.
  The documentation says it sleeps for `msecs`.
* `spurious`: `pthread_cond_wait()` may return without a signal.  If it does so
  in one scheduler while the others leave, a scheduler that has been told to
  leave finds the list of sleepers incomplete, goes back to sleep and is not
  told again, since the wake-up passed round the ring (line 425) stops at
  schedulers that have already left.
* `cond_assert`: a timed wait expires and its lthread runs again, but a signal
  gets hold of `c->mutex` first.  The lthread is still listed, is handed the lock,
  and `_lthread_wakeup()` marks it although it is awake.  Its wait returns 0 as it
  should; but the mark stays, and the next time it blocks in
  `lthread_cond_lock()` it is resumed at once, without the lock, and
  `assert(c->owner == self)` (`lthread_cond.c` 47) fails.  In a build without
  assertions the caller goes on as if it had the lock.
* `socket_race`: an event comes between the load and the store with which
  `_lthread_resume()` changes `lt->state`; the store sets the bit again that the
  poller has cleared, and the lthread's next wait fails the assertion that it is
  not set.
* `socket_duplex`: one event looks for a reader and then for a writer of its
  descriptor.  An lthread that reads and then writes can be woken by both, and the
  event of its own wait to write then finds nobody, which line 187 of
  `lthread_poller.c` asserts cannot happen.  Two lthreads that share a descriptor,
  one reading and one writing, meet the same assertion.
* `socket`, `BytesAccounted`: when the last buffers of `lthread_writev()` are empty,
  the loop over what was written stops before them, the next `writev()` answers 0,
  and so does `lthread_writev()`, although everything has been written.
  `docs/socket.rst` 152 promises `writev(2)`.
* `socket`, `NoDescriptorLeak`: the loop of `lthread_accept()` goes on while `ret` is
  at most 0.  A connection that gets descriptor 0 is handed to nobody and stays
  open.  `docs/socket.rst` 22 promises `accept(2)`.

With timeouts two more interleavings damage a ready queue (`corrupt`): a signal
comes while the expired lthread is in a scheduler's hand, or while a signalled
lthread is still in the sleep tree, because `sleep_usecs` was cleared and
`_lthread_wakeup()` does not take it out.  What a program does after that is not
modelled.

Modelled as the code has it, and without a property, are two more differences from
`docs/socket.rst`:

* `lthread_connect()` never returns a descriptor, as lines 36-37 say, but 0; and
  after a wait it tries `connect()` again and returns the `EISCONN` of an
  established connection as -1, which line 37 says means failure.
* Lines 55, 72 and 117 say that reading answers 0 when the socket is closed.  If it
  is closed while the call waits, `_lthread_wait_fd()` sees the end-of-file mark and
  the call answers -1, also while bytes are unread.

Modelled as the code has it, where no text of the repository says otherwise: an
error in the middle of `lthread_writev()` loses the count; `mmap()` and
`mco_create()` are not checked; in the build with minicoro an lthread whose
function returns is never freed, and `_lthread_sched_free()` frees no cached
lthread.

## What is proved

`PROJECT.json` lists the theorems; each holds for every value of the constants.
Every safety invariant that a run checks of the pool, of conditions, of the poller,
of the sockets and of the memory is a theorem, as are the action property
`StartsZeroed` and that the socket functions implement `PollerSpec`.

### The pool

`LthreadSchedProofs` proves, for every number of schedulers, every set of
lthreads and every set of calls without timed condition waits, that each of the
safety properties always holds.  `Untimed` is a hypothesis of the theorems, not an
assumption: it is part of `OneHolder`, `LockedOwner`, `NothingLost` and
`OverIsUnreachable`, and the others are stated as `[](Untimed => ...)`.  The
assumptions are those named in `LthreadSchedState`:
`N` is a positive natural number, `Main` is an lthread, `NULL` is not, `Calls` is a
set of calls and `Spurious` a Boolean.

None of the properties is inductive alone.  `IInv` adds

* `PcInv`, `PollerInv`: what a program counter says about the flags that other
  threads read (`block_state`, `asleep[]`, `num_pending_events`), and that some
  scheduler is awake as long as an event is outstanding: the scheduler whose
  lthread registered it has not gone to sleep since;
* `SchedInv`, `OnceInv`, `PlaceInv`, `RunInv`: every lthread has one place, the
  place decides its `sched`, and a wake-up is owed only to an lthread that has
  registered for one;
* `BlockInv`, `SleepInv`: what a scheduler saw before it blocks is still so;
* `LiveInv`: a live lthread has a place.

`DoneMeansDone` is the delicate one: all flags of `asleep[]` are set and the
pending count was read as zero *earlier*.  It holds because the only threads that
could change the count or a queue after it was read are schedulers that are not
listed as asleep, and a waker takes its target off the list before it lets go of
the target's mutex.

The proof of a step has two halves.  `LthreadSchedSteps` shows that in a state of
`IInv` every action has one of the effects of `LthreadSchedEffects`, which say
field by field of one scheduler and one lthread what changes, without sequences,
`EXCEPT` or types.  `LthreadSchedKept` shows that every effect keeps every part of
`IInv`, one lemma per part and one step per effect.

### Conditions

`LthreadCondProofs` proves `MutualExclusion`, `BlockedIsListed` and
`NoStuckLocker` for any number of lthreads, with or without timeouts.  The last two
are inductive together with the types (`ListInv`): taking an lthread out of the
middle of the list, as a timeout does, removes the one place it has there, and a
release either hands the lock over or leaves a list that was empty before, but for
the caller of `lthread_cond_wait()` itself.

For conditions without timeouts (`~Timeouts`) it proves that `CondInv` is inductive
and, from it, `AssertionsHold` and `WakeOwed`.  `CondInv` adds that the place of an
lthread decides its flags: an lthread is blocked exactly while it is between
listing itself and being resumed and is not the owner; a mark is only on an
lthread that is about to switch, a queue entry only on one that has.  The argument
turns on the first of the list being blocked: so nobody has woken it before, the
hand-over is its only wake-up, and it is found on its stack and marked, or off it
and queued.

### The poller and the sockets

`LthreadPollerProofs` proves `TreeIsKeyed`, `WaitIsArmed`, `EofIsOwn`,
`EventsMeetWaiters` and the types for any users of the poller (`PollerSpec`), for
any finite set of lthreads, any descriptors, widths and lengths of the eventlist.
Its invariant `PollerInv` adds

* `WaiterOK`: a waiter's bits are those it was inserted with, *and so is what
  `_lthread_resume()` has loaded of them*.  This is why the torn update of
  `lt->state`, which the run `socket_race` shows to be a bug, cannot damage the
  tree: the only bits it can bring back are those of a wait that is over;
* `ThreadOK`, `EofKnown`: what the place of the poller's thread says of the event
  and the lthread in its hand;
* `Meeting`, under the hypothesis `OneWay` that each descriptor is used one way:
  every armed filter and every event that has not been handled has its own
  waiter, a filter is armed or in one event and never both, and the second lookup
  for an event that has woken its reader meets nobody.

`SocketsArePollerUsers` proves that the socket functions implement `PollerSpec`,
step by step: a step of a function, of a peer or of the kernel is one of an abstract
user, or a stutter.  By it the theorems about the poller hold of programs that use
the socket functions (`SocketsKeepThePoller`).

`BytesAreAccounted` and `DescriptorsAreNotLeaked` follow from `SocketInv`, which
says what the loops have counted (`CountOK`) and made (`MadeOK`) so far in each
function.  For
`lthread_writev()` it needs that what is left of the buffers is what has not been
moved, hence that `Skip(lens, n)` has `n` bytes less than `lens`.  That is a fact
about a recursive sum over sequences of any length; it is proved by induction in
the form that every set of numbers with an element has a least (`LeastNat`,
`InductiveSet` in `LthreadSocketCalls`).

The assumptions are `KernelAssumption`, `PollerAssumption` and `SocketAssumption`:
descriptors are natural numbers and there is one, lthreads are finitely many, `NULL`
is neither an lthread nor an event, widths and lengths are positive, buffers have
natural lengths, and `lthread_writev()` is given at least one.

### Memory

`LthreadAllocProofs` proves `CachedOnce` and `StartsZeroed` for any schedulers (at
least one), blocks and `LTHREAD_CACHE_SIZE`.  The invariant `AllocInv` adds that an
lthread that has ended has a good stack, since it has run, and that what is cached
is zeroed.

### Only model-checked

* Liveness (`RunReturns`, `ReadyRuns`, `LockGranted`, `ReadyIsResumed`): reasoning
  under fairness is outside the prover.
* `RedBlack`, `SearchesAgree`, `IsOrderedSet`, `WalksAgree`, `AreSequences`,
  `HeapIsPriorityQueue`: the loops of these containers are recursive operators,
  which the prover does not reason about, and what they say of trees and of chains
  of pointers of any length would need induction over those.
* `AssertionsHold` and `WakeOwed` with timeouts: the first is violated there, and
  the second is stated for waits without.

The invariants `IInv` and `CondInv` are checked by runs; `ListInv`, `PollerInv`,
`SocketInv` and `AllocInv` consist of properties that runs check and of the
strengthenings that make them inductive.

## Not modelled

* `lthread_epoll.c`: written for an older `lthread_poller.h`, does not compile
  against the current one.
* Context switching (vendored assembly, minicoro) and tracing (off by default).
* The splay tree of `tree.h` and the lists of `queue.h` other than the tail queue,
  which nothing uses; `lthread_join()`, `lthread_send()` and `lthread_write()`,
  which are not defined.
* `lthread_cond_free()` and `lthread_close()`, which the caller must not race with
  a use.
* The value of the clock and the width of `sleep_usecs`: the deadline is cleared
  before anybody compares it (`SleepsUntilDue`).
* Failing `pthread` calls, which assert, and the `madvise()` of unused stack, which
  never runs.
