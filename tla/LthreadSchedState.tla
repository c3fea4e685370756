-------------------------- MODULE LthreadSchedState --------------------------
(***************************************************************************)
(* The state of the scheduler pool of lthread_run(), and what is said of   *)
(* it: the structures lthread_sched, lthread_pool and lthread, the program *)
(* counters of the threads that change them, and the safety properties.    *)
(* LthreadSched says how the threads change it.                            *)
(***************************************************************************)
EXTENDS Naturals, Sequences, FiniteSets

CONSTANTS N,         \* num_schedulers: auxiliary threads + 1
          Lthreads,  \* every lthread the program may create
          Main,      \* the lthread of lthread_run's main_func
          NULL,      \* the null pointer
          Calls,     \* the API calls the program's lthreads make
          Spurious   \* may pthread_cond_wait return without a signal?

\* "cond" is a condition without timeouts, "cond_timed" a wait with one.
AllCalls == {"spawn", "yield", "sleep", "sleep0", "wait_fd", "cond",
             "cond_timed", "exit"}

ASSUME NAssumption == N \in Nat \ {0}
ASSUME MainAssumption == Main \in Lthreads
ASSUME NullAssumption == NULL \notin Lthreads
ASSUME CallsAssumption == Calls \subseteq AllCalls
ASSUME SpuriousAssumption == Spurious \in BOOLEAN

\* The program gives lthread_cond_wait() no timeout.  A timed wait that is also
\* signalled can be queued twice, by its timeout and by the signal, and then nothing
\* more is known of the queues: the safety properties below are those of the other
\* programs.
Untimed == "cond_timed" \notin Calls

\* schedulers[0 .. num_schedulers - 1], named by their id.
Schedulers == 0 .. N - 1

\* lthread_sched_block_state_t.
BlockStates == {"WILL_BLOCK", "WONT_BLOCK", "IS_BLOCKING"}

\* Where a scheduler thread is in _lthread_run_sched() and what it calls.
RunPcs == {"schedule_expired", "pop_own", "steal", "pop_blocking",
           "wake_neighbor", "adopt", "resume", "user", "wakeup", "switched",
           "cond_sleep", "block", "begin_deep_sleep", "deep_wait", "timed_wait",
           "exit_wake", "done"}

\* sleep_usecs is 0 (not sleeping) or stands for a deadline the clock may or
\* may not have passed; a clock reading is before it or not.
Deadline == 1
ClockReadings == {0, Deadline}

VARIABLES
  \* struct lthread_sched and the locals of its thread
  pc,               \* program counter of the scheduler's thread
  ready,            \* sched->ready
  sleeping,         \* sched->sleeping
  current_lthread,  \* sched->current_lthread
  block_state,      \* sched->block_state
  signaled,         \* a signal was sent to sched->cond while it waited
  result,           \* the lthread _lthread_pop_ready() has in hand
  victim,           \* the queue _lthread_pop_ready() tries next
  wakee,            \* the argument of the _lthread_wakeup() in progress
  wsched,           \* the lt->sched that call read before locking
  \* pool
  asleep,           \* pool->asleep
  run_pc,           \* lthread_run() after _lthread_run_sched(schedulers[0])
  \* struct lthread
  life,             \* unborn, live, exited, freed, or returned (not freed)
  sched,            \* lt->sched
  needs_resched,    \* lt->needs_resched
  sleep_usecs,      \* lt->sleep_usecs
  \* condition variables and poller, as the scheduler sees them
  blocked,          \* lthreads on some condition's blocked_lthreads
  waiting,          \* lthreads in poller->waiting
  num_pending_events,
  poller_pc,        \* program counter of the poller thread
  event_lt,         \* the lthread _lthread_poller_handle_event() has in hand
  event_sched       \* the lt->sched _lthread_desched_event() read

schedVars == <<ready, sleeping, current_lthread, block_state, signaled>>
localVars == <<pc, result, victim, wakee, wsched>>
ltVars == <<life, sched, needs_resched, sleep_usecs>>
pollVars == <<waiting, num_pending_events, poller_pc, event_lt, event_sched>>
vars == <<schedVars, localVars, ltVars, pollVars, asleep, run_pc, blocked>>

\* s is inside the blocking section of _lthread_run_sched() with its mutex held.
Locked(s) == pc[s] = "begin_deep_sleep"

\* _lthread_sched_isdone.
sched_isdone(s) == sleeping[s] = {} /\ ready[s] = <<>>

-----------------------------------------------------------------------------
(* State predicates the properties are built from. *)

LtOrNull == Lthreads \cup {NULL}

\* The lthreads on t's ready queue.
Queue(t) == {ready[t][i] : i \in 1 .. Len(ready[t])}

Queued(lt) == \E t \in Schedulers : lt \in Queue(t)
InHand(lt) == \E t \in Schedulers : result[t] = lt
Current(lt) == \E t \in Schedulers : current_lthread[t] = lt
Asleep(lt) == \E t \in Schedulers : lt \in sleeping[t]

\* A thread other than the lthread's own owes it a push on a ready queue.
WakePending(lt) == event_lt = lt \/ \E t \in Schedulers : wakee[t] = lt

-----------------------------------------------------------------------------
(* Properties. *)

\* Every variable holds a value of its C type; pool->asleep, sched->ready and
\* the other arrays of lthread_run() are indexed by scheduler id.
TypeOK ==
  /\ pc \in [Schedulers -> RunPcs]
  /\ ready \in [Schedulers -> Seq(Lthreads)]
  /\ sleeping \in [Schedulers -> SUBSET Lthreads]
  /\ current_lthread \in [Schedulers -> LtOrNull]
  /\ block_state \in [Schedulers -> BlockStates]
  /\ signaled \in [Schedulers -> BOOLEAN]
  /\ result \in [Schedulers -> LtOrNull]
  /\ victim \in [Schedulers -> Schedulers]
  /\ wakee \in [Schedulers -> LtOrNull]
  /\ wsched \in [Schedulers -> Schedulers]
  /\ asleep \in [Schedulers -> BOOLEAN]
  /\ run_pc \in {"join", "close", "returned"}
  /\ life \in [Lthreads -> {"unborn", "live", "exited", "returned", "freed"}]
  /\ sched \in [Lthreads -> Schedulers]
  /\ needs_resched \in [Lthreads -> BOOLEAN]
  /\ sleep_usecs \in [Lthreads -> ClockReadings]
  /\ blocked \in SUBSET Lthreads
  /\ waiting \in SUBSET Lthreads
  /\ num_pending_events \in Nat
  /\ poller_pc \in {"poll", "push_ready", "decrement", "done"}
  /\ event_lt \in LtOrNull
  /\ event_sched \in Schedulers

\* Two schedulers never get hold of one lthread, in a program without timed
\* condition waits: it is on at most one ready queue, there at most once, and while
\* a scheduler has it in hand or runs it, it is on no queue and no other scheduler
\* has it.  This is what the assertion is_running == false of _lthread_resume() and
\* the needs_resched mark are for: an lthread woken between registering for its
\* wake-up and switching out must not be stolen before it has left its stack.
OneHolder ==
  Untimed =>
    /\ \A s, t \in Schedulers :
         \A i \in 1 .. Len(ready[s]), j \in 1 .. Len(ready[t]) :
           ready[s][i] = ready[t][j] => s = t /\ i = j
    /\ \A s, t \in Schedulers :
         /\ result[s] \notin Queue(t) /\ current_lthread[s] \notin Queue(t)
         /\ result[s] # NULL => result[s] # current_lthread[t]
         /\ s # t /\ result[s] # NULL => result[s] # result[t]
         /\ s # t /\ current_lthread[s] # NULL
              => current_lthread[s] # current_lthread[t]

\* Who has locked a scheduler, or holds what hangs on it, has the one lt->sched
\* names.
OwnersAgree ==
  /\ \A s \in Schedulers :
       /\ pc[s] = "wakeup" => sched[wakee[s]] = wsched[s]
       /\ current_lthread[s] # NULL => sched[current_lthread[s]] = s
       /\ \A lt \in sleeping[s] : sched[lt] = s
  /\ poller_pc = "push_ready" => sched[event_lt] = event_sched

\* A ready queue and a sleep tree are changed only under their own scheduler's
\* mutex: lt->sched is written without a mutex by the thief in _lthread_pop_ready
\* and read without one by _lthread_wakeup and _lthread_desched_event, yet the
\* scheduler they lock is the one whose queue they append to, in a program without
\* timed condition waits.  Covers the assertions lt->sched == _lthread_curent_sched.
LockedOwner == Untimed => OwnersAgree

\* No scheduler sleeps on work: one that waits on its condition variable, with
\* no signal on its way, has an empty ready queue and an empty sleep tree.  The
\* block_state handshake carries a push that comes between the last look at the
\* queue and the wait.
NoSleepOnWork ==
  \A s \in Schedulers :
    pc[s] \in {"deep_wait", "timed_wait"} /\ ~signaled[s] => sched_isdone(s)

\* lt is where some thread will find it again.
Reachable(lt) ==
  \/ Queued(lt) \/ InHand(lt) \/ Current(lt) \/ Asleep(lt)
  \/ lt \in blocked \/ lt \in waiting \/ WakePending(lt)

\* An lthread that gives up its scheduler comes back: it is always on a queue,
\* in a scheduler's hand, running, in a sleep tree, on a condition's list,
\* registered with the poller, or about to be pushed by a thread that has taken
\* it off such a list.  The documentation of lthread_sleep() says so of
\* lthread_sleep(0) as well.
NoneForgotten ==
  \A lt \in Lthreads : life[lt] = "live" => Reachable(lt)

\* The same of programs that neither call lthread_sleep(0) nor wait on a condition
\* with a timeout: no wake-up is lost, in particular not one that comes between the
\* registration for it and the switch out of the lthread (the needs_resched mark).
NothingLost == Untimed /\ "sleep0" \notin Calls => NoneForgotten

\* The agreement that all work is done is right: once one scheduler has left its
\* loop, no ready queue or sleep tree of any scheduler holds an lthread, none is
\* running or in hand, and the poller has none registered and none in hand, so
\* nobody will touch a scheduler that lthread_run() frees.
DoneMeansDone ==
  (\E s \in Schedulers : pc[s] \in {"exit_wake", "done"}) =>
    /\ \A t \in Schedulers :
         /\ sched_isdone(t)
         /\ current_lthread[t] = NULL /\ result[t] = NULL
    /\ waiting = {} /\ num_pending_events = 0
    /\ poller_pc \in {"poll", "done"}

\* An lthread that is over is out of reach, in a program without timed condition
\* waits (whose entry in a sleep tree may outlive the wait): after its function
\* returned, or lthread_exit() had it freed, no queue, tree, list or pending wake-up
\* still names it (the memory is gone, or the coroutine is dead).
OverIsUnreachable ==
  Untimed =>
    \A lt \in Lthreads : life[lt] \in {"exited", "returned", "freed"} =>
      /\ ~Queued(lt) /\ ~InHand(lt) /\ ~Asleep(lt)
      /\ lt \notin blocked /\ lt \notin waiting /\ ~WakePending(lt)
      /\ ~needs_resched[lt]
      /\ life[lt] = "freed" => ~Current(lt)

\* num_pending_events counts the registered lthreads and the one whose event is
\* being handled: it never wraps below zero and never hides an outstanding wait.
PendingIsCounted ==
  num_pending_events =
    Cardinality(waiting) + IF poller_pc \in {"push_ready", "decrement"} THEN 1 ELSE 0
=============================================================================
