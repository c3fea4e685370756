---------------------------- MODULE LthreadSched ----------------------------
(***************************************************************************)
(* The scheduler pool of lthread_run(): N operating-system threads, each   *)
(* running _lthread_run_sched() over its own ready queue, stealing from    *)
(* its ring neighbours, resuming lthreads, and agreeing through the pool's *)
(* asleep[] array that all work is done; the poller thread as far as the   *)
(* schedulers see it; and the lthreads' own calls (spawn, yield, sleep,    *)
(* wait for a descriptor, block on a condition, signal, exit, return).     *)
(*                                                                         *)
(* Grain.  Code between lock and unlock of one mutex is one step.  A       *)
(* section that takes a second mutex while it holds the first is one step  *)
(* too when every shared access after the last acquisition is protected by *)
(* what is held.  The one place where this fails is the blocking section   *)
(* of _lthread_run_sched(): it holds the scheduler's mutex over a poller   *)
(* section and then a pool section.  It is two steps, Block and            *)
(* BeginDeepSleep, and Locked(s) says that s holds its mutex in between.   *)
(* Accesses outside any mutex (lt->sched) are steps of their own.  A local *)
(* variable that is out of scope goes back to its initial value.           *)
(***************************************************************************)
EXTENDS LthreadSchedState

\* Mutant: last_sched does not start at the last scheduler; the ring is open.
sched_neighbor_Open(s) == IF s = N - 1 THEN s ELSE s + 1

\* The ring lthread_run() builds: the last scheduler's neighbour is the first.
sched_neighbor(s) == IF s = N - 1 THEN 0 ELSE s + 1

Goto(s, label) == pc' = [pc EXCEPT ![s] = label]

\* lthread_run() up to _lthread_run_sched(): every scheduler created, the main
\* lthread pushed on scheduler 0, whose block_state that push has changed.
Init ==
  /\ pc = [s \in Schedulers |-> "schedule_expired"]
  /\ ready = [s \in Schedulers |-> IF s = 0 THEN <<Main>> ELSE <<>>]
  /\ sleeping = [s \in Schedulers |-> {}]
  /\ current_lthread = [s \in Schedulers |-> NULL]
  /\ block_state = [s \in Schedulers |->
                      IF s = 0 THEN "WONT_BLOCK" ELSE "WILL_BLOCK"]
  /\ signaled = [s \in Schedulers |-> FALSE]
  /\ result = [s \in Schedulers |-> NULL]
  /\ victim = [s \in Schedulers |-> s]
  /\ wakee = [s \in Schedulers |-> NULL]
  /\ wsched = [s \in Schedulers |-> s]
  /\ asleep = [s \in Schedulers |-> FALSE]
  /\ run_pc = "join"
  /\ life = [lt \in Lthreads |-> IF lt = Main THEN "live" ELSE "unborn"]
  /\ sched = [lt \in Lthreads |-> 0]
  /\ needs_resched = [lt \in Lthreads |-> FALSE]
  /\ sleep_usecs = [lt \in Lthreads |-> 0]
  /\ blocked = {}
  /\ waiting = {}
  /\ num_pending_events = 0
  /\ poller_pc = "poll"
  /\ event_lt = NULL
  /\ event_sched = 0

-----------------------------------------------------------------------------
(* Helpers called with a scheduler's mutex held. *)

\* Mutant: the signal is sent, _lthread_pool_end_deep_sleep() is left to the
\* sleeper.
sched_wake_unsafe_SignalOnly(t) ==
  /\ block_state' = [block_state EXCEPT ![t] =
                       IF @ = "WILL_BLOCK" THEN "WONT_BLOCK" ELSE @]
  /\ asleep' = asleep
  /\ signaled' = [signaled EXCEPT ![t] =
                    IF block_state[t] = "IS_BLOCKING" THEN TRUE ELSE @]

\* _lthread_sched_wake_unsafe: keep t from blocking, or wake it and take it
\* off the list of sleepers before it has run.
sched_wake_unsafe(t) ==
  /\ block_state' = [block_state EXCEPT ![t] =
                       IF @ = "WILL_BLOCK" THEN "WONT_BLOCK" ELSE @]
  /\ asleep' = [asleep EXCEPT ![t] =
                  IF block_state[t] = "IS_BLOCKING" THEN FALSE ELSE @]
  /\ signaled' = [signaled EXCEPT ![t] =
                    IF block_state[t] = "IS_BLOCKING" THEN TRUE ELSE @]

\* Mutant: an lthread that is still on its stack is queued like any other.
sched_push_ready_unsafe_Unmarked(t, lt) ==
  /\ ready' = [ready EXCEPT ![sched[lt]] = Append(@, lt)]
  /\ needs_resched' = needs_resched
  /\ sched_wake_unsafe(t)

\* _lthread_sched_push_ready_unsafe: an lthread that is still on its stack is
\* only marked, so that no neighbour can steal it before it has switched out.
sched_push_ready_unsafe(t, lt) ==
  /\ IF current_lthread[sched[lt]] = lt
       THEN /\ needs_resched' = [needs_resched EXCEPT ![lt] = TRUE]
            /\ ready' = ready
       ELSE /\ ready' = [ready EXCEPT ![sched[lt]] = Append(@, lt)]
            /\ needs_resched' = needs_resched
  /\ sched_wake_unsafe(t)

\* _lthread_desched_sleep_unsafe.
desched_sleep_unsafe(lt) ==
  /\ sleeping' = [sleeping EXCEPT ![sched[lt]] = @ \ {lt}]
  /\ sched_push_ready_unsafe(sched[lt], lt)

-----------------------------------------------------------------------------
(* The scheduler thread. *)

\* _lthread_schedule_expired when the clock reads now: the entry of RB_MIN is made
\* ready while its sleep_usecs is not after it.  The loop is left with the last due
\* entry.
expire(s, now) ==
  /\ pc[s] = "schedule_expired"
  /\ LET due == {lt \in sleeping[s] : sleep_usecs[lt] <= now} IN
     IF due = {}
       THEN /\ Goto(s, "pop_own")
            /\ UNCHANGED <<sleeping, ready, needs_resched, block_state, asleep,
                           signaled>>
       ELSE \E lt \in due :
              /\ \A other \in due : sleep_usecs[lt] <= sleep_usecs[other]
              /\ desched_sleep_unsafe(lt)
              /\ Goto(s, IF due = {lt} THEN "pop_own" ELSE "schedule_expired")
  /\ UNCHANGED <<current_lthread, result, victim, wakee, wsched, run_pc, life,
                 sched, sleep_usecs, blocked, pollVars>>

schedule_expired(s) == \E now \in ClockReadings : expire(s, now)

\* TAILQ_FIRST and TAILQ_REMOVE of _lthread_sched_pop_ready, on t's queue.
TakeReady(s, t) ==
  /\ ready[t] # <<>>
  /\ ready' = [ready EXCEPT ![t] = Tail(@)]
  /\ result' = [result EXCEPT ![s] = Head(ready[t])]
  /\ Goto(s, "wake_neighbor")

\* _lthread_pop_ready, first attempt: trylock on the own queue.  The trylock may
\* fail at any time: the other threads' one-step sections hold the mutex too.
pop_own(s) ==
  /\ pc[s] = "pop_own"
  /\ \/ /\ TakeReady(s, s)
        /\ UNCHANGED victim
     \/ /\ Goto(s, "steal")
        /\ victim' = [victim EXCEPT ![s] = sched_neighbor(s)]
        /\ UNCHANGED <<ready, result>>
  /\ UNCHANGED <<sleeping, current_lthread, block_state, signaled, wakee,
                 wsched, asleep, run_pc, ltVars, blocked, pollVars>>

\* _lthread_pop_ready, the loop over the ring: trylock on each neighbour.
steal(s) ==
  /\ pc[s] = "steal"
  /\ \/ /\ victim[s] # s
        /\ ~Locked(victim[s])
        /\ TakeReady(s, victim[s])
        /\ victim' = [victim EXCEPT ![s] = s]
     \/ /\ victim[s] # s
        /\ victim' = [victim EXCEPT ![s] = sched_neighbor(@)]
        /\ UNCHANGED <<pc, ready, result>>
     \/ /\ victim[s] = s
        /\ Goto(s, "pop_blocking")
        /\ UNCHANGED <<victim, ready, result>>
  /\ UNCHANGED <<sleeping, current_lthread, block_state, signaled, wakee,
                 wsched, asleep, run_pc, ltVars, blocked, pollVars>>

\* Mutant: the last attempt on the own queue is a trylock too.
pop_blocking_Trylock(s) ==
  /\ pc[s] = "pop_blocking"
  /\ \/ TakeReady(s, s)
     \/ Goto(s, "block") /\ UNCHANGED <<ready, result>>
  /\ UNCHANGED <<sleeping, current_lthread, block_state, signaled, victim,
                 wakee, wsched, asleep, run_pc, ltVars, blocked, pollVars>>

\* _lthread_pop_ready, last attempt: the own queue again, waiting for the mutex.
pop_blocking(s) ==
  /\ pc[s] = "pop_blocking"
  /\ \/ TakeReady(s, s)
     \/ /\ ready[s] = <<>>
        /\ Goto(s, "block")
        /\ UNCHANGED <<ready, result>>
  /\ UNCHANGED <<sleeping, current_lthread, block_state, signaled, victim,
                 wakee, wsched, asleep, run_pc, ltVars, blocked, pollVars>>

\* _lthread_pop_ready found an lthread: _lthread_sched_wake on the neighbour.
wake_neighbor(s) ==
  /\ pc[s] = "wake_neighbor"
  /\ LET t == sched_neighbor(s) IN
     IF t = s
       THEN UNCHANGED <<block_state, asleep, signaled>>
       ELSE ~Locked(t) /\ sched_wake_unsafe(t)
  /\ Goto(s, "adopt")
  /\ UNCHANGED <<ready, sleeping, current_lthread, result, victim, wakee,
                 wsched, run_pc, ltVars, blocked, pollVars>>

\* Mutant: a stolen lthread keeps its old scheduler.
adopt_Skipped(s) ==
  /\ pc[s] = "adopt"
  /\ Goto(s, "resume")
  /\ UNCHANGED <<schedVars, result, victim, wakee, wsched, asleep, run_pc,
                 ltVars, blocked, pollVars>>

\* result->sched = _lthread_curent_sched, outside any mutex.
adopt(s) ==
  /\ pc[s] = "adopt"
  /\ sched' = [sched EXCEPT ![result[s]] = s]
  /\ Goto(s, "resume")
  /\ UNCHANGED <<schedVars, result, victim, wakee, wsched, asleep, run_pc,
                 life, needs_resched, sleep_usecs, blocked, pollVars>>

\* _lthread_resume up to the context switch.  is_running is TRUE exactly while
\* the lthread is some scheduler's current_lthread and is not kept separately.
resume(s) ==
  /\ pc[s] = "resume"
  /\ current_lthread' = [current_lthread EXCEPT ![s] = result[s]]
  /\ result' = [result EXCEPT ![s] = NULL]
  /\ Goto(s, "user")
  /\ UNCHANGED <<ready, sleeping, block_state, signaled, victim, wakee, wsched,
                 asleep, run_pc, ltVars, blocked, pollVars>>

\* Mutant: _lthread_resume() does not look at needs_resched after the switch.
resume_tail_Unmarked(s) ==
  /\ pc[s] = "switched"
  /\ LET lt == current_lthread[s] IN
     /\ current_lthread' = [current_lthread EXCEPT ![s] = NULL]
     /\ sleep_usecs' = [sleep_usecs EXCEPT ![lt] = 0]
     /\ needs_resched' = [needs_resched EXCEPT ![lt] = FALSE]
     /\ life' = [life EXCEPT ![lt] = IF @ = "exited" THEN "freed" ELSE @]
  /\ Goto(s, "schedule_expired")
  /\ UNCHANGED <<ready, sleeping, block_state, signaled, result, victim, wakee,
                 wsched, asleep, run_pc, sched, blocked, pollVars>>

\* _lthread_resume after the switch back: sleep_usecs is cleared whether or not
\* the lthread has just entered the sleep tree, a wake-up that came while it was
\* current puts it on the queue, and one that called lthread_exit() is freed.
resume_tail(s) ==
  /\ pc[s] = "switched"
  /\ LET lt == current_lthread[s] IN
     /\ current_lthread' = [current_lthread EXCEPT ![s] = NULL]
     /\ sleep_usecs' = [sleep_usecs EXCEPT ![lt] = 0]
     /\ needs_resched' = [needs_resched EXCEPT ![lt] = FALSE]
     /\ ready' = IF needs_resched[lt]
                   THEN [ready EXCEPT ![sched[lt]] = Append(@, lt)]
                   ELSE ready
     /\ life' = [life EXCEPT ![lt] = IF @ = "exited" THEN "freed" ELSE @]
  /\ Goto(s, "schedule_expired")
  /\ UNCHANGED <<sleeping, block_state, signaled, result, victim, wakee,
                 wsched, asleep, run_pc, sched, blocked, pollVars>>

\* Mutant: the scheduler blocks whatever its block_state says.
Block_Anyway(s) ==
  /\ pc[s] = "block"
  /\ block_state' = [block_state EXCEPT ![s] = "IS_BLOCKING"]
  /\ Goto(s, IF sched_isdone(s) /\ num_pending_events = 0
               THEN "begin_deep_sleep"
               ELSE "timed_wait")
  /\ UNCHANGED <<ready, sleeping, current_lthread, signaled, result, victim,
                 wakee, wsched, asleep, run_pc, ltVars, blocked, pollVars>>

\* _lthread_run_sched, the blocking section as far as the poller query: a wake-up
\* since the last look sends the thread round again; otherwise it will block, for
\* good (deep sleep) only if nothing is queued, asleep or pending.
Block(s) ==
  /\ pc[s] = "block"
  /\ block_state' = [block_state EXCEPT ![s] =
                       IF @ = "WONT_BLOCK" THEN "WILL_BLOCK" ELSE "IS_BLOCKING"]
  /\ Goto(s, IF block_state[s] = "WONT_BLOCK" THEN "schedule_expired"
             ELSE IF sched_isdone(s) /\ num_pending_events = 0
               THEN "begin_deep_sleep"
               ELSE "timed_wait")
  /\ UNCHANGED <<ready, sleeping, current_lthread, signaled, result, victim,
                 wakee, wsched, asleep, run_pc, ltVars, blocked, pollVars>>

\* _lthread_pool_begin_deep_sleep, then cond_wait, or the end of the loop when
\* this was the last scheduler awake.
BeginDeepSleep(s) ==
  /\ pc[s] = "begin_deep_sleep"
  /\ asleep' = [asleep EXCEPT ![s] = TRUE]
  /\ IF \A t \in Schedulers : asleep'[t]
       THEN /\ block_state' = [block_state EXCEPT ![s] = "WILL_BLOCK"]
            /\ Goto(s, "exit_wake")
       ELSE /\ Goto(s, "deep_wait")
            /\ UNCHANGED block_state
  /\ UNCHANGED <<ready, sleeping, current_lthread, signaled, result, victim,
                 wakee, wsched, run_pc, ltVars, blocked, pollVars>>

\* Mutant: no _lthread_pool_end_deep_sleep() after the wait.
EndDeepSleep_StaysListed(s) ==
  /\ pc[s] = "deep_wait"
  /\ block_state' = [block_state EXCEPT ![s] = "WILL_BLOCK"]
  /\ signaled' = [signaled EXCEPT ![s] = FALSE]
  /\ Goto(s, "schedule_expired")
  /\ UNCHANGED <<asleep, ready, sleeping, current_lthread, result, victim,
                 wakee, wsched, run_pc, ltVars, blocked, pollVars>>

\* Return from the untimed pthread_cond_wait, with _lthread_pool_end_deep_sleep.
EndDeepSleep(s) ==
  /\ pc[s] = "deep_wait"
  /\ asleep' = [asleep EXCEPT ![s] = FALSE]
  /\ block_state' = [block_state EXCEPT ![s] = "WILL_BLOCK"]
  /\ signaled' = [signaled EXCEPT ![s] = FALSE]
  /\ Goto(s, "schedule_expired")
  /\ UNCHANGED <<ready, sleeping, current_lthread, result, victim, wakee,
                 wsched, run_pc, ltVars, blocked, pollVars>>

WakeFromDeepSleep(s) == signaled[s] /\ EndDeepSleep(s)
SpuriousWakeup(s) == Spurious /\ ~signaled[s] /\ EndDeepSleep(s)

\* Return from pthread_cond_timedwait, by a signal or by its timeout: the
\* timeout is _lthread_min_timeout(), an absolute time of the past or a deadline.
EndTimedWait(s) ==
  /\ pc[s] = "timed_wait"
  /\ block_state' = [block_state EXCEPT ![s] = "WILL_BLOCK"]
  /\ signaled' = [signaled EXCEPT ![s] = FALSE]
  /\ Goto(s, "schedule_expired")
  /\ UNCHANGED <<ready, sleeping, current_lthread, result, victim, wakee,
                 wsched, asleep, run_pc, ltVars, blocked, pollVars>>

\* Mutant: a scheduler leaves without waking its neighbour.
exit_wake_Silent(s) ==
  /\ pc[s] = "exit_wake"
  /\ Goto(s, "done")
  /\ UNCHANGED <<schedVars, result, victim, wakee, wsched, asleep, run_pc,
                 ltVars, blocked, pollVars>>

\* The end of _lthread_run_sched: pass the wake-up on round the ring.
exit_wake(s) ==
  /\ pc[s] = "exit_wake"
  /\ LET t == sched_neighbor(s) IN
     IF t = s
       THEN UNCHANGED <<block_state, asleep, signaled>>
       ELSE ~Locked(t) /\ sched_wake_unsafe(t)
  /\ Goto(s, "done")
  /\ UNCHANGED <<ready, sleeping, current_lthread, result, victim, wakee,
                 wsched, run_pc, ltVars, blocked, pollVars>>

-----------------------------------------------------------------------------
(* The lthread that runs on scheduler s: one call of the API. *)

\* An lthread that a timed wait has resumed ends the wait before it does anything
\* else.
Running(s, call) ==
  pc[s] = "user" /\ call \in Calls /\ current_lthread[s] \notin blocked

\* lthread_create: a new lthread at the tail of the creator's scheduler.
lthread_create(s, lt) ==
  /\ Running(s, "spawn")
  /\ life[lt] = "unborn"
  /\ life' = [life EXCEPT ![lt] = "live"]
  /\ sched' = [sched EXCEPT ![lt] = s]
  /\ ready' = [ready EXCEPT ![s] = Append(@, lt)]
  /\ sched_wake_unsafe(s)
  /\ UNCHANGED <<localVars, sleeping, current_lthread, run_pc, needs_resched,
                 sleep_usecs, blocked, pollVars>>

\* lthread_yield.
lthread_yield(s) ==
  /\ Running(s, "yield")
  /\ needs_resched' = [needs_resched EXCEPT ![current_lthread[s]] = TRUE]
  /\ Goto(s, "switched")
  /\ UNCHANGED <<schedVars, result, victim, wakee, wsched, asleep, run_pc,
                 life, sched, sleep_usecs, blocked, pollVars>>

\* _lthread_sched_sleep: lt enters the sleep tree of its scheduler and switches.
sched_sleep(s) ==
  /\ LET lt == current_lthread[s] IN
     /\ sleep_usecs' = [sleep_usecs EXCEPT ![lt] = Deadline]
     /\ sleeping' = [sleeping EXCEPT ![sched[lt]] = @ \cup {lt}]
  /\ Goto(s, "switched")
  /\ UNCHANGED <<ready, current_lthread, block_state, signaled, result, victim,
                 wakee, wsched, asleep, run_pc, life, sched, needs_resched,
                 blocked, pollVars>>

\* lthread_sleep with msecs > 0.
lthread_sleep(s) == Running(s, "sleep") /\ sched_sleep(s)

\* lthread_sleep(0) from user code: the lthread switches out and is nowhere.
lthread_sleep0(s) ==
  /\ Running(s, "sleep0")
  /\ sleep_usecs' = [sleep_usecs EXCEPT ![current_lthread[s]] = 0]
  /\ Goto(s, "switched")
  /\ UNCHANGED <<schedVars, result, victim, wakee, wsched, asleep, run_pc,
                 life, sched, needs_resched, blocked, pollVars>>

\* Mutant: the wait is registered and not counted.
wait_fd_Uncounted(s) ==
  /\ Running(s, "wait_fd")
  /\ waiting' = waiting \cup {current_lthread[s]}
  /\ Goto(s, "switched")
  /\ UNCHANGED <<schedVars, result, victim, wakee, wsched, asleep, run_pc,
                 ltVars, blocked, num_pending_events, poller_pc, event_lt,
                 event_sched>>

\* _lthread_wait_fd: lthread_poller_schedule_event adds the lthread to the
\* poller's tree, counts it and registers the event; then it yields.
wait_fd(s) ==
  /\ Running(s, "wait_fd")
  /\ waiting' = waiting \cup {current_lthread[s]}
  /\ num_pending_events' = num_pending_events + 1
  /\ Goto(s, "switched")
  /\ UNCHANGED <<schedVars, result, victim, wakee, wsched, asleep, run_pc,
                 ltVars, blocked, poller_pc, event_lt, event_sched>>

\* _lthread_cond_wait with timeout 0, up to the yield of its lthread_sleep(0).
cond_wait(s) ==
  /\ Running(s, "cond")
  /\ blocked' = blocked \cup {current_lthread[s]}
  /\ sleep_usecs' = [sleep_usecs EXCEPT ![current_lthread[s]] = 0]
  /\ Goto(s, "switched")
  /\ UNCHANGED <<schedVars, result, victim, wakee, wsched, asleep, run_pc,
                 life, sched, needs_resched, pollVars>>

\* _lthread_cond_wait with a timeout, up to the unlock of c->mutex.
cond_timedwait(s) ==
  /\ Running(s, "cond_timed")
  /\ blocked' = blocked \cup {current_lthread[s]}
  /\ Goto(s, "cond_sleep")
  /\ UNCHANGED <<schedVars, result, victim, wakee, wsched, asleep, run_pc,
                 ltVars, pollVars>>

\* Its lthread_sleep(timeout); a signal may have come since the unlock.
cond_sleep(s) == pc[s] = "cond_sleep" /\ sched_sleep(s)

\* _lthread_cond_wait after lthread_sleep(): an lthread that was not signalled
\* takes itself off the list.
cond_wait_return(s) ==
  /\ pc[s] = "user"
  /\ current_lthread[s] \in blocked
  /\ blocked' = blocked \ {current_lthread[s]}
  /\ UNCHANGED <<schedVars, localVars, ltVars, pollVars, asleep, run_pc>>

\* _lthread_cond_signal takes the first blocked lthread of its condition, and
\* the _lthread_wakeup it calls reads lt->sched.
cond_signal(s) ==
  /\ Running(s, "cond")
  /\ \E lt \in blocked :
       /\ blocked' = blocked \ {lt}
       /\ wakee' = [wakee EXCEPT ![s] = lt]
       /\ wsched' = [wsched EXCEPT ![s] = sched[lt]]
  /\ Goto(s, "wakeup")
  /\ UNCHANGED <<schedVars, result, victim, asleep, run_pc, ltVars, pollVars>>

\* _lthread_wakeup under the mutex of the scheduler it read; it starts again if
\* the lthread has moved.
lthread_wakeup(s) ==
  /\ pc[s] = "wakeup"
  /\ LET lt == wakee[s]
         t  == wsched[s] IN
     /\ ~Locked(t)
     /\ IF sched[lt] = t
          THEN /\ IF sleep_usecs[lt] # 0
                    THEN desched_sleep_unsafe(lt)
                    ELSE sched_push_ready_unsafe(t, lt) /\ UNCHANGED sleeping
               /\ wakee' = [wakee EXCEPT ![s] = NULL]
               /\ wsched' = [wsched EXCEPT ![s] = s]
               /\ Goto(s, "user")
          ELSE /\ wsched' = [wsched EXCEPT ![s] = sched[lt]]
               /\ UNCHANGED <<pc, wakee, sleeping, ready, needs_resched,
                              block_state, asleep, signaled>>
  /\ UNCHANGED <<current_lthread, result, victim, run_pc, life, sched,
                 sleep_usecs, blocked, pollVars>>

\* lthread_exit: the EXITED bit, then the switch.
lthread_exit(s) ==
  /\ Running(s, "exit")
  /\ life' = [life EXCEPT ![current_lthread[s]] = "exited"]
  /\ Goto(s, "switched")
  /\ UNCHANGED <<schedVars, result, victim, wakee, wsched, asleep, run_pc,
                 sched, needs_resched, sleep_usecs, blocked, pollVars>>

\* The lthread's function returns: mco_entry returns, without the EXITED bit.
mco_entry(s) ==
  /\ pc[s] = "user" /\ current_lthread[s] \notin blocked
  /\ life' = [life EXCEPT ![current_lthread[s]] = "returned"]
  /\ Goto(s, "switched")
  /\ UNCHANGED <<schedVars, result, victim, wakee, wsched, asleep, run_pc,
                 sched, needs_resched, sleep_usecs, blocked, pollVars>>

-----------------------------------------------------------------------------
(* The poller thread. *)

\* An event arrives: _lthread_poller_desched_event takes the lthread out of the
\* tree, _lthread_desched_event reads its lt->sched.
poller_desched_event ==
  /\ poller_pc = "poll"
  /\ \E lt \in waiting :
       /\ waiting' = waiting \ {lt}
       /\ event_lt' = lt
       /\ event_sched' = sched[lt]
  /\ poller_pc' = "push_ready"
  /\ UNCHANGED <<schedVars, localVars, ltVars, asleep, run_pc, blocked,
                 num_pending_events>>

\* _lthread_sched_push_ready(sched, lt).
poller_push_ready ==
  /\ poller_pc = "push_ready"
  /\ ~Locked(event_sched)
  /\ sched_push_ready_unsafe(event_sched, event_lt)
  /\ event_lt' = NULL
  /\ event_sched' = 0
  /\ poller_pc' = "decrement"
  /\ UNCHANGED <<localVars, sleeping, current_lthread, life, sched,
                 sleep_usecs, run_pc, blocked, waiting, num_pending_events>>

\* --poller->num_pending_events, after the lthread has been made ready.
poller_decrement ==
  /\ poller_pc = "decrement"
  /\ num_pending_events' = num_pending_events - 1
  /\ poller_pc' = "poll"
  /\ UNCHANGED <<schedVars, localVars, ltVars, asleep, run_pc, blocked,
                 waiting, event_lt, event_sched>>

\* The poll fails once lthread_poller_close() has closed the descriptor.
poller_done ==
  /\ poller_pc = "poll"
  /\ run_pc = "close"
  /\ poller_pc' = "done"
  /\ UNCHANGED <<schedVars, localVars, ltVars, asleep, run_pc, blocked,
                 waiting, num_pending_events, event_lt, event_sched>>

-----------------------------------------------------------------------------
(* lthread_run() after its own scheduler has finished. *)

\* The auxiliary threads are joined, the schedulers freed, the poller closed.
run_join ==
  /\ run_pc = "join"
  /\ \A s \in Schedulers : pc[s] = "done"
  /\ run_pc' = "close"
  /\ UNCHANGED <<schedVars, localVars, ltVars, pollVars, asleep, blocked>>

\* lthread_poller_close() joins the poller thread and lthread_run() returns.
run_return ==
  /\ run_pc = "close"
  /\ poller_pc = "done"
  /\ run_pc' = "returned"
  /\ UNCHANGED <<schedVars, localVars, ltVars, pollVars, asleep, blocked>>

\* Nothing is left to do once lthread_run() has returned.
Returned == run_pc = "returned" /\ UNCHANGED vars

-----------------------------------------------------------------------------
Loop(s) ==
  \/ schedule_expired(s) \/ pop_own(s) \/ steal(s) \/ pop_blocking(s)
  \/ wake_neighbor(s) \/ adopt(s) \/ resume(s) \/ resume_tail(s)
  \/ Block(s) \/ BeginDeepSleep(s) \/ WakeFromDeepSleep(s) \/ EndTimedWait(s)
  \/ exit_wake(s)

User(s) ==
  \/ \E lt \in Lthreads : lthread_create(s, lt)
  \/ lthread_yield(s) \/ lthread_sleep(s) \/ lthread_sleep0(s) \/ wait_fd(s)
  \/ cond_wait(s) \/ cond_timedwait(s) \/ cond_sleep(s) \/ cond_wait_return(s)
  \/ cond_signal(s) \/ lthread_wakeup(s)
  \/ lthread_exit(s) \/ mco_entry(s)

Poller ==
  \/ poller_desched_event \/ poller_push_ready \/ poller_decrement
  \/ poller_done

Next ==
  \/ \E s \in Schedulers : Loop(s) \/ User(s) \/ SpuriousWakeup(s)
  \/ Poller
  \/ run_join \/ run_return \/ Returned

\* The operating system runs every thread that can run; a descriptor that is
\* waited for becomes ready; and an lthread's function that is resumed again and
\* again returns.  A spurious wake-up is never owed to anyone.
Fairness ==
  /\ \A s \in Schedulers : WF_vars(Loop(s) \/ User(s))
  /\ WF_vars(Poller)
  /\ WF_vars(run_join \/ run_return)
  /\ \A lt \in Lthreads :
       SF_vars(\E s \in Schedulers : current_lthread[s] = lt /\ mco_entry(s))

Spec == Init /\ [][Next]_vars
FairSpec == Spec /\ Fairness

-----------------------------------------------------------------------------
(* What sleepers are promised. *)

\* lthread_sleep() sleeps: a look at the sleep tree with a clock that reads less
\* than every deadline given out makes nobody ready.
SleepsUntilDue ==
  [][\A s \in Schedulers : expire(s, Deadline - 1) => sleeping'[s] = sleeping[s]]_vars

-----------------------------------------------------------------------------
(* Liveness. *)

\* lthread_run() returns: under fair threads, events that arrive and functions
\* that return, the pool comes to agree that it is done, every scheduler leaves
\* its loop, and the poller thread ends.
RunReturns == <>(run_pc = "returned")

\* lthread_run() returns even if pthread_cond_wait() returns a few times without
\* a signal, as POSIX allows it to, on the way.
RunReturnsAnyway ==
  <>[][\A s \in Schedulers : ~SpuriousWakeup(s)]_vars => RunReturns

\* A ready lthread runs: whatever the stealing and the failing trylocks do, an
\* lthread on a ready queue is resumed.
ReadyRuns == \A lt \in Lthreads : Queued(lt) ~> Current(lt)
=============================================================================
