--------------------------- MODULE LthreadSchedInv ---------------------------
(***************************************************************************)
(* The inductive invariant of LthreadSched, for programs without timed     *)
(* condition waits: the safety properties of that module, strengthened by  *)
(* what ties a thread's program counter to the flags the other threads     *)
(* read, and by the place of every lthread.                                *)
(***************************************************************************)
EXTENDS LthreadSchedState

\* t is awake, and has not even begun to fall into a deep sleep.
Awake(t) ==
  pc[t] \notin {"begin_deep_sleep", "deep_wait", "exit_wake", "done"}

\* lt has entered a structure from which it will be pushed on a ready queue.
Registered(lt) ==
  Asleep(lt) \/ lt \in blocked \/ lt \in waiting \/ WakePending(lt)

\* What a scheduler's program counter says about its fields and its locals.
PcInv ==
  \A s \in Schedulers :
    /\ pc[s] # "cond_sleep"
    /\ current_lthread[s] # NULL <=> pc[s] \in {"user", "wakeup", "switched"}
    /\ result[s] # NULL <=> pc[s] \in {"wake_neighbor", "adopt", "resume"}
    /\ wakee[s] # NULL <=> pc[s] = "wakeup"
    /\ block_state[s] = "IS_BLOCKING"
         <=> pc[s] \in {"begin_deep_sleep", "deep_wait", "timed_wait"}
    /\ signaled[s] => pc[s] \in {"deep_wait", "timed_wait"}
    /\ asleep[s] <=> \/ pc[s] = "deep_wait" /\ ~signaled[s]
                     \/ pc[s] \in {"exit_wake", "done"}

\* While an event is outstanding some scheduler is awake and cannot fall into a
\* deep sleep: the one that ran the waiting lthread saw the count it left.
PollerInv ==
  /\ event_lt # NULL <=> poller_pc = "push_ready"
  /\ IsFiniteSet(waiting) /\ Cardinality(waiting) \in Nat
  /\ PendingIsCounted
  /\ num_pending_events # 0 => \E t \in Schedulers : Awake(t)

\* A sequence without repetitions.
Distinct(q) == \A i, j \in 1 .. Len(q) : q[i] = q[j] => i = j

\* lt->sched names the scheduler whose structure holds the lthread.
SchedInv ==
  /\ \A s \in Schedulers :
       /\ \A lt \in Queue(s) : sched[lt] = s
       /\ pc[s] = "resume" => sched[result[s]] = s
  /\ OwnersAgree

\* No lthread is on a queue, in a scheduler's hand or being woken twice.
OnceInv ==
  /\ \A s \in Schedulers : Distinct(ready[s])
  /\ \A s, t \in Schedulers : s # t =>
       /\ result[s] # NULL => result[s] # result[t]
       /\ wakee[s] # NULL => wakee[s] # wakee[t]

\* No lthread is in two places; a wake-up comes only to an lthread that has
\* registered for it; and an lthread that is over is in none of them.
OnePlace(lt) ==
  /\ Queued(lt) => ~InHand(lt) /\ ~Current(lt) /\ ~Registered(lt)
  /\ InHand(lt) => ~Current(lt) /\ ~Registered(lt)
  /\ needs_resched[lt] => Current(lt) /\ ~Registered(lt)
  /\ Queued(lt) \/ InHand(lt) \/ Registered(lt) \/ needs_resched[lt]
       => life[lt] = "live"
  /\ Asleep(lt) => lt \notin blocked /\ lt \notin waiting /\ ~WakePending(lt)
  /\ lt \in blocked => lt \notin waiting /\ ~WakePending(lt)
  /\ lt \in waiting => ~WakePending(lt)
  /\ event_lt = lt => \A t \in Schedulers : wakee[t] # lt

PlaceInv == \A lt \in Lthreads : OnePlace(lt)

\* The lthread that runs is live and registered nowhere; one that has switched
\* out may be over.
RunInv ==
  \A s \in Schedulers :
    LET lt == current_lthread[s] IN
    /\ pc[s] \in {"user", "wakeup"} =>
         life[lt] = "live" /\ ~Registered(lt) /\ ~needs_resched[lt]
    /\ pc[s] = "switched" => life[lt] \in {"live", "exited", "returned"}

\* What a scheduler has looked at is still so when it blocks.
BlockInv ==
  \A s \in Schedulers :
    /\ sleeping[s] # {} => pc[s] \in {"switched", "schedule_expired"}
    /\ \A lt, other \in sleeping[s] : lt = other
    /\ pc[s] = "switched" => \A lt \in sleeping[s] : lt = current_lthread[s]
    /\ pc[s] = "block" /\ block_state[s] # "WONT_BLOCK" => sched_isdone(s)
    /\ pc[s] \in {"begin_deep_sleep", "deep_wait", "timed_wait"} /\ ~signaled[s]
         => sched_isdone(s)

\* sleep_usecs is set only between lthread_sleep() and the switch it ends with.
SleepInv ==
  \A lt \in Lthreads : sleep_usecs[lt] # 0 =>
    \E s \in Schedulers :
      pc[s] = "switched" /\ current_lthread[s] = lt /\ lt \in sleeping[s]

\* lt is running: it has not switched out since it was resumed.
OnStack(lt) ==
  \E t \in Schedulers : current_lthread[t] = lt /\ pc[t] \in {"user", "wakeup"}

\* An lthread that is neither over nor running will be resumed: it is on a queue,
\* in a scheduler's hand, registered for a wake-up, or marked by one.
Held(lt) ==
  Queued(lt) \/ InHand(lt) \/ OnStack(lt) \/ Registered(lt) \/ needs_resched[lt]

LiveInv ==
  "sleep0" \notin Calls => \A lt \in Lthreads : life[lt] = "live" => Held(lt)

\* The invariant of the blocking protocol and of every lthread's place: the
\* flags block_state, asleep[] and num_pending_events, read by threads that do
\* not hold the mutex under which they were written, say what they are read for.
IInv ==
  /\ TypeOK /\ PcInv /\ PollerInv /\ SchedInv /\ OnceInv /\ PlaceInv /\ RunInv
  /\ BlockInv /\ SleepInv /\ LiveInv /\ DoneMeansDone
==============================================================================
