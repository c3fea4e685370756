------------------------- MODULE LthreadSchedEffects ------------------------
(***************************************************************************)
(* What each step of LthreadSched does in a state that satisfies IInv,     *)
(* field by field of one scheduler and one lthread: in such a state a      *)
(* sleep tree holds one lthread that is due, a wake-up finds its lthread   *)
(* where it read it to be, and a scheduler never wakes itself out of a     *)
(* wait. LthreadSchedSteps proves that every step has one of these         *)
(* effects; the proofs of the parts of IInv start from them and need no    *)
(* types.                                                                  *)
(***************************************************************************)
EXTENDS LthreadSchedInv

\* g is f but for its value v at one scheduler, at one lthread.
Sets(f, g, s, v) == g[s] = v /\ \A u \in Schedulers : u # s => g[u] = f[u]

SetsLt(f, g, lt, v) == g[lt] = v /\ \A x \in Lthreads : x # lt => g[x] = f[x]

\* A wake-up either signals a scheduler that blocks, or keeps it from blocking.
Signalled(t) ==
  /\ block_state[t] = "IS_BLOCKING"
  /\ Sets(asleep, asleep', t, FALSE)
  /\ Sets(signaled, signaled', t, TRUE)
  /\ UNCHANGED block_state

Warned(t) ==
  /\ block_state[t] # "IS_BLOCKING"
  /\ Sets(block_state, block_state', t, "WONT_BLOCK")
  /\ UNCHANGED <<asleep, signaled>>

Woke(t) == Signalled(t) \/ Warned(t)

\* One lthread more, or less, on the ready queue of t; the other queues are left
\* alone, and no queue comes to hold an lthread twice.
Adds(t, lt) ==
  /\ \A u \in Schedulers : u # t => ready'[u] = ready[u]
  /\ \A u \in Schedulers :
       \A x : x \in Queue(u)' <=> x \in Queue(u) \/ (u = t /\ x = lt)
  /\ (\A u \in Schedulers : Distinct(ready[u])) /\ lt \notin Queue(t)
       => \A u \in Schedulers : Distinct(ready[u])'

Removes(t, lt) ==
  /\ lt \in Queue(t) /\ ready[t] # <<>>
  /\ \A u \in Schedulers : u # t => ready'[u] = ready[u]
  /\ \A u \in Schedulers :
       \A x : x \in Queue(u)' <=> x \in Queue(u) /\ ~(u = t /\ x = lt)
  /\ \A u \in Schedulers : Distinct(ready[u])'

Searching == {"pop_own", "steal", "pop_blocking"}

Over == {"exit_wake", "done"}

\* The program counter of s goes from one label to another.
Steps(s, from, to) == pc[s] = from /\ Sets(pc, pc', s, to)

\* _lthread_schedule_expired finds the tree empty, or its one lthread due.
NoneExpired(s) ==
  /\ Steps(s, "schedule_expired", "pop_own")
  /\ sleeping[s] = {}
  /\ UNCHANGED <<ready, sleeping, current_lthread, block_state, signaled, result,
                 wakee, wsched, asleep, run_pc, life, sched, needs_resched,
                 sleep_usecs, blocked, waiting, num_pending_events, poller_pc,
                 event_lt, event_sched>>

Expired(s, lt) ==
  /\ Steps(s, "schedule_expired", "pop_own")
  /\ sleeping[s] = {lt} /\ sched[lt] = s
  /\ Sets(sleeping, sleeping', s, {})
  /\ Adds(s, lt)
  /\ Warned(s)
  /\ UNCHANGED <<current_lthread, result, wakee, wsched, run_pc, life, sched,
                 needs_resched, sleep_usecs, blocked, waiting,
                 num_pending_events, poller_pc, event_lt, event_sched>>

\* _lthread_pop_ready takes lt from t's queue, or goes on with the search.
Takes(s, t, lt) ==
  /\ pc[s] \in Searching /\ ~Locked(t)
  /\ Sets(pc, pc', s, "wake_neighbor")
  /\ Removes(t, lt)
  /\ Sets(result, result', s, lt)
  /\ UNCHANGED <<sleeping, current_lthread, block_state, signaled, wakee, wsched,
                 asleep, run_pc, life, sched, needs_resched, sleep_usecs, blocked,
                 waiting, num_pending_events, poller_pc, event_lt, event_sched>>

Searches(s, label) ==
  /\ pc[s] \in Searching
  /\ label = "block" => ready[s] = <<>>
  /\ Sets(pc, pc', s, label)
  /\ UNCHANGED <<ready, sleeping, current_lthread, block_state, signaled, result,
                 wakee, wsched, asleep, run_pc, life, sched, needs_resched,
                 sleep_usecs, blocked, waiting, num_pending_events, poller_pc,
                 event_lt, event_sched>>

\* _lthread_sched_wake on the neighbour, if there is one.
PassFrame(s, from, to) ==
  /\ Steps(s, from, to)
  /\ UNCHANGED <<ready, sleeping, current_lthread, result, wakee, wsched,
                 run_pc, life, sched, needs_resched, sleep_usecs, blocked,
                 waiting, num_pending_events, poller_pc, event_lt, event_sched>>

PassAlone(s, from, to) ==
  PassFrame(s, from, to) /\ UNCHANGED <<block_state, asleep, signaled>>

PassWake(s, t, from, to) ==
  PassFrame(s, from, to) /\ t # s /\ ~Locked(t) /\ Woke(t)

Passes(s, from, to) ==
  PassAlone(s, from, to) \/ \E t \in Schedulers : PassWake(s, t, from, to)

\* The thief's lt->sched = _lthread_curent_sched, and _lthread_resume.
Adopts(s, lt) ==
  /\ Steps(s, "adopt", "resume")
  /\ result[s] = lt
  /\ SetsLt(sched, sched', lt, s)
  /\ UNCHANGED <<ready, sleeping, current_lthread, block_state, signaled, result,
                 wakee, wsched, asleep, run_pc, life, needs_resched, sleep_usecs,
                 blocked, waiting, num_pending_events, poller_pc, event_lt,
                 event_sched>>

Resumes(s, lt) ==
  /\ Steps(s, "resume", "user")
  /\ result[s] = lt
  /\ Sets(current_lthread, current_lthread', s, lt)
  /\ Sets(result, result', s, NULL)
  /\ UNCHANGED <<ready, sleeping, block_state, signaled, wakee, wsched, asleep,
                 run_pc, life, sched, needs_resched, sleep_usecs, blocked,
                 waiting, num_pending_events, poller_pc, event_lt, event_sched>>

\* The end of _lthread_resume, without and with a wake-up in the meantime.
TailFrame(s, lt) ==
  /\ Steps(s, "switched", "schedule_expired")
  /\ current_lthread[s] = lt /\ sched[lt] = s
  /\ Sets(current_lthread, current_lthread', s, NULL)
  /\ SetsLt(sleep_usecs, sleep_usecs', lt, 0)
  /\ SetsLt(needs_resched, needs_resched', lt, FALSE)
  /\ SetsLt(life, life', lt, IF life[lt] = "exited" THEN "freed" ELSE life[lt])
  /\ UNCHANGED <<sleeping, block_state, signaled, result, wakee, wsched, asleep,
                 run_pc, sched, blocked, waiting, num_pending_events, poller_pc,
                 event_lt, event_sched>>

TailPlain(s, lt) == TailFrame(s, lt) /\ ~needs_resched[lt] /\ UNCHANGED ready

TailPush(s, lt) == TailFrame(s, lt) /\ needs_resched[lt] /\ Adds(s, lt)

\* The blocking section of _lthread_run_sched: round again, or a wait.
BlockFrame(s) ==
  UNCHANGED <<ready, sleeping, current_lthread, signaled, result, wakee, wsched,
              asleep, run_pc, life, sched, needs_resched, sleep_usecs, blocked,
              waiting, num_pending_events, poller_pc, event_lt, event_sched>>

GoesRound(s) ==
  /\ Steps(s, "block", "schedule_expired")
  /\ Sets(block_state, block_state', s, "WILL_BLOCK")
  /\ BlockFrame(s)

Commits(s, label) ==
  /\ Steps(s, "block", label)
  /\ block_state[s] # "WONT_BLOCK"
  /\ label = "begin_deep_sleep" => sched_isdone(s) /\ num_pending_events = 0
  /\ Sets(block_state, block_state', s, "IS_BLOCKING")
  /\ BlockFrame(s)

\* _lthread_pool_begin_deep_sleep, of another scheduler than the last awake and
\* of the last.
FallsAsleep(s) ==
  /\ Steps(s, "begin_deep_sleep", "deep_wait")
  /\ Sets(asleep, asleep', s, TRUE)
  /\ UNCHANGED <<ready, sleeping, current_lthread, block_state, signaled, result,
                 wakee, wsched, run_pc, life, sched, needs_resched, sleep_usecs,
                 blocked, waiting, num_pending_events, poller_pc, event_lt,
                 event_sched>>

LastAsleep(s) ==
  /\ Steps(s, "begin_deep_sleep", "exit_wake")
  /\ \A t \in Schedulers : t = s \/ asleep[t]
  /\ Sets(asleep, asleep', s, TRUE)
  /\ Sets(block_state, block_state', s, "WILL_BLOCK")
  /\ UNCHANGED <<ready, sleeping, current_lthread, signaled, result, wakee,
                 wsched, run_pc, life, sched, needs_resched, sleep_usecs, blocked,
                 waiting, num_pending_events, poller_pc, event_lt, event_sched>>

\* The return from pthread_cond_wait and from pthread_cond_timedwait.
Returns(s, from) ==
  /\ Steps(s, from, "schedule_expired")
  /\ \/ Sets(asleep, asleep', s, FALSE)
     \/ from = "timed_wait" /\ UNCHANGED asleep
  /\ Sets(block_state, block_state', s, "WILL_BLOCK")
  /\ Sets(signaled, signaled', s, FALSE)
  /\ UNCHANGED <<ready, sleeping, current_lthread, result, wakee, wsched, run_pc,
                 life, sched, needs_resched, sleep_usecs, blocked, waiting,
                 num_pending_events, poller_pc, event_lt, event_sched>>

\* lthread_create.
Creates(s, lt) ==
  /\ pc[s] = "user" /\ life[lt] = "unborn"
  /\ SetsLt(life, life', lt, "live")
  /\ SetsLt(sched, sched', lt, s)
  /\ Adds(s, lt)
  /\ Warned(s)
  /\ UNCHANGED <<pc, result, wakee, wsched, sleeping, current_lthread, run_pc,
                 needs_resched, sleep_usecs, blocked, waiting,
                 num_pending_events, poller_pc, event_lt, event_sched>>

\* The calls with which the lthread that runs on s switches out.
Leaves(s, lt) ==
  /\ Steps(s, "user", "switched")
  /\ current_lthread[s] = lt /\ sched[lt] = s
  /\ UNCHANGED <<ready, current_lthread, block_state, signaled, result, wakee,
                 wsched, asleep, run_pc, sched, poller_pc, event_lt, event_sched>>

Yields(s, lt) ==
  /\ Leaves(s, lt)
  /\ SetsLt(needs_resched, needs_resched', lt, TRUE)
  /\ UNCHANGED <<sleeping, life, sleep_usecs, blocked, waiting,
                 num_pending_events>>

Sleeps(s, lt) ==
  /\ Leaves(s, lt)
  /\ SetsLt(sleep_usecs, sleep_usecs', lt, Deadline)
  /\ Sets(sleeping, sleeping', s, sleeping[s] \cup {lt})
  /\ UNCHANGED <<life, needs_resched, blocked, waiting, num_pending_events>>

Sleeps0(s, lt) ==
  /\ Leaves(s, lt) /\ "sleep0" \in Calls
  /\ SetsLt(sleep_usecs, sleep_usecs', lt, 0)
  /\ UNCHANGED <<sleeping, life, needs_resched, blocked, waiting,
                 num_pending_events>>

WaitsFd(s, lt) ==
  /\ Leaves(s, lt)
  /\ waiting' = waiting \cup {lt}
  /\ num_pending_events' = num_pending_events + 1
  /\ UNCHANGED <<sleeping, life, needs_resched, sleep_usecs, blocked>>

CondWaits(s, lt) ==
  /\ Leaves(s, lt)
  /\ blocked' = blocked \cup {lt}
  /\ SetsLt(sleep_usecs, sleep_usecs', lt, 0)
  /\ UNCHANGED <<sleeping, life, needs_resched, waiting, num_pending_events>>

Finishes(s, lt, how) ==
  /\ Leaves(s, lt)
  /\ SetsLt(life, life', lt, how)
  /\ UNCHANGED <<sleeping, needs_resched, sleep_usecs, blocked, waiting,
                 num_pending_events>>

\* _lthread_cond_signal takes lt off a condition's list.
Signals(s, lt) ==
  /\ Steps(s, "user", "wakeup")
  /\ lt \in blocked /\ wakee[s] = NULL
  /\ blocked' = blocked \ {lt}
  /\ Sets(wakee, wakee', s, lt)
  /\ Sets(wsched, wsched', s, sched[lt])
  /\ UNCHANGED <<ready, sleeping, current_lthread, block_state, signaled, result,
                 asleep, run_pc, life, sched, needs_resched, sleep_usecs, waiting,
                 num_pending_events, poller_pc, event_lt, event_sched>>

\* _lthread_sched_push_ready_unsafe on lt's scheduler: the mark, or the queue.
Marks(t, lt) ==
  /\ current_lthread[t] = lt
  /\ SetsLt(needs_resched, needs_resched', lt, TRUE)
  /\ UNCHANGED ready

Pushes(t, lt) ==
  /\ current_lthread[t] # lt
  /\ Adds(t, lt)
  /\ UNCHANGED needs_resched

Pushed(t, lt) ==
  sched[lt] = t /\ ~Locked(t) /\ Woke(t) /\ (Marks(t, lt) \/ Pushes(t, lt))

\* _lthread_wakeup, and the poller's _lthread_sched_push_ready.
Wakes(s, t, lt) ==
  /\ Steps(s, "wakeup", "user")
  /\ wakee[s] = lt
  /\ Pushed(t, lt)
  /\ Sets(wakee, wakee', s, NULL)
  /\ Sets(wsched, wsched', s, s)
  /\ UNCHANGED <<sleeping, current_lthread, result, run_pc, life, sched,
                 sleep_usecs, blocked, waiting, num_pending_events, poller_pc,
                 event_lt, event_sched>>

Arrives(t, lt) ==
  /\ poller_pc = "push_ready" /\ event_lt = lt /\ num_pending_events # 0
  /\ Pushed(t, lt)
  /\ poller_pc' = "decrement" /\ event_lt' = NULL /\ event_sched' = 0
  /\ UNCHANGED <<pc, result, wakee, wsched, sleeping, current_lthread, life,
                 sched, sleep_usecs, run_pc, blocked, waiting,
                 num_pending_events>>

\* The poller takes lt out of its tree.
Descheds(lt) ==
  /\ poller_pc = "poll" /\ lt \in waiting /\ event_lt = NULL
  /\ waiting' = waiting \ {lt}
  /\ poller_pc' = "push_ready" /\ event_lt' = lt /\ event_sched' = sched[lt]
  /\ UNCHANGED <<pc, result, wakee, wsched, ready, sleeping, current_lthread,
                 block_state, signaled, asleep, run_pc, life, sched,
                 needs_resched, sleep_usecs, blocked, num_pending_events>>

\* A step that neither a scheduler nor an lthread notices.
Ends ==
  /\ \/ UNCHANGED <<poller_pc, num_pending_events>>
     \/ poller_pc = "poll" /\ poller_pc' = "done" /\ UNCHANGED num_pending_events
     \/ /\ poller_pc = "decrement" /\ poller_pc' = "poll"
        /\ num_pending_events' = num_pending_events - 1
  /\ UNCHANGED <<pc, result, wakee, wsched, ready, sleeping, current_lthread,
                 block_state, signaled, asleep, life, sched, needs_resched,
                 sleep_usecs, blocked, waiting, event_lt, event_sched>>

\* The steps of a scheduler's thread, of the lthread it runs, and of the others.
WorkEffect(s) ==
  \/ NoneExpired(s)
  \/ \E lt \in Lthreads : Expired(s, lt)
  \/ \E t \in Schedulers, lt \in Lthreads : Takes(s, t, lt)
  \/ \E label \in {"steal", "pop_blocking", "block"} : Searches(s, label)
  \/ Passes(s, "wake_neighbor", "adopt") \/ Passes(s, "exit_wake", "done")
  \/ \E lt \in Lthreads : Adopts(s, lt) \/ Resumes(s, lt)
  \/ \E lt \in Lthreads : TailPlain(s, lt) \/ TailPush(s, lt)

BlockingEffect(s) ==
  \/ GoesRound(s)
  \/ \E label \in {"begin_deep_sleep", "timed_wait"} : Commits(s, label)
  \/ FallsAsleep(s) \/ LastAsleep(s)
  \/ \E from \in {"deep_wait", "timed_wait"} : Returns(s, from)

LoopEffect(s) == WorkEffect(s) \/ BlockingEffect(s)

UserEffect(s) ==
  \/ \E lt \in Lthreads : Creates(s, lt) \/ Yields(s, lt) \/ Sleeps(s, lt)
  \/ \E lt \in Lthreads : Sleeps0(s, lt) \/ WaitsFd(s, lt) \/ CondWaits(s, lt)
  \/ \E lt \in Lthreads, how \in {"exited", "returned"} : Finishes(s, lt, how)
  \/ \E lt \in Lthreads : Signals(s, lt)
  \/ \E t \in Schedulers, lt \in Lthreads : Wakes(s, t, lt)

OtherEffect ==
  \/ \E lt \in Lthreads : Descheds(lt)
  \/ \E t \in Schedulers, lt \in Lthreads : Arrives(t, lt)
  \/ Ends

\* One step, whoever takes it.
Effect == (\E s \in Schedulers : LoopEffect(s) \/ UserEffect(s)) \/ OtherEffect
=============================================================================
