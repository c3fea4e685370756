-------------------------- MODULE LthreadSchedSteps -------------------------
(***************************************************************************)
(* Every step of LthreadSched from a state that satisfies IInv keeps the   *)
(* types and, unless it begins a timed condition wait, has one of the      *)
(* effects of LthreadSchedEffects.                                         *)
(***************************************************************************)
EXTENDS LthreadSched, LthreadSchedEffects, TLAPS

\* The neighbour of a scheduler is a scheduler.
LEMMA NeighborType == \A s \in Schedulers : sched_neighbor(s) \in Schedulers
  BY NAssumption DEF Schedulers, sched_neighbor

\* Taking the first lthread off a queue, and putting one at its end.
LEMMA TakeReadyType ==
  ASSUME TypeOK, NEW s \in Schedulers, NEW t \in Schedulers, TakeReady(s, t)
  PROVE  /\ pc' \in [Schedulers -> RunPcs]
         /\ ready' \in [Schedulers -> Seq(Lthreads)]
         /\ result' \in [Schedulers -> LtOrNull]
         /\ Head(ready[t]) \in Lthreads
<1>1. ready[t] \in Seq(Lthreads) /\ ready[t] # <<>>
  BY Zenon DEF TypeOK, TakeReady
<1>2. Head(ready[t]) \in Lthreads /\ Tail(ready[t]) \in Seq(Lthreads)
  BY <1>1
<1> QED
  BY <1>2, Zenon DEF TypeOK, TakeReady, Goto, RunPcs, LtOrNull

\* _lthread_sched_wake_unsafe() leaves block_state, asleep[] and the signal typed.
LEMMA WakeType ==
  ASSUME TypeOK, NEW t \in Schedulers, sched_wake_unsafe(t)
  PROVE  /\ block_state' \in [Schedulers -> BlockStates]
         /\ asleep' \in [Schedulers -> BOOLEAN]
         /\ signaled' \in [Schedulers -> BOOLEAN]
  BY Zenon DEF TypeOK, sched_wake_unsafe, BlockStates

\* _lthread_sched_push_ready_unsafe() leaves what it writes typed.
LEMMA PushType ==
  ASSUME TypeOK, NEW t \in Schedulers, NEW lt \in Lthreads,
         sched_push_ready_unsafe(t, lt)
  PROVE  /\ ready' \in [Schedulers -> Seq(Lthreads)]
         /\ needs_resched' \in [Lthreads -> BOOLEAN]
         /\ block_state' \in [Schedulers -> BlockStates]
         /\ asleep' \in [Schedulers -> BOOLEAN]
         /\ signaled' \in [Schedulers -> BOOLEAN]
<1>1. sched_wake_unsafe(t)
  BY Zenon DEF sched_push_ready_unsafe
<1>2. sched[lt] \in Schedulers /\ ready[sched[lt]] \in Seq(Lthreads)
  BY Zenon DEF TypeOK
<1>3. Append(ready[sched[lt]], lt) \in Seq(Lthreads)
  BY <1>2
<1> QED
  BY <1>1, <1>2, <1>3, WakeType, Zenon DEF TypeOK, sched_push_ready_unsafe

\* The lthread that runs on a scheduler.
LEMMA OnSched ==
  ASSUME TypeOK, PcInv, NEW s \in Schedulers, pc[s] \in {"user", "wakeup", "switched"}
  PROVE  current_lthread[s] \in Lthreads
<1>1. current_lthread[s] \in LtOrNull
  BY Zenon DEF TypeOK
<1> QED
  BY <1>1, Zenon DEF PcInv, LtOrNull

\* Every step keeps the types: in particular num_pending_events, which the poller
\* decrements without looking, stays a natural number.
LEMMA TypeStep ==
  ASSUME IInv, [Next]_vars
  PROVE  TypeOK'
<1>0. TypeOK /\ PcInv /\ PollerInv
  BY Zenon DEF IInv
<1> USE <1>0
<1> USE DEF Goto, pollVars, ltVars, schedVars, localVars
<1>1. ASSUME NEW s \in Schedulers, Loop(s) \/ SpuriousWakeup(s) PROVE TypeOK'
  <2>1. CASE schedule_expired(s)
    <3>1. ASSUME NEW lt \in sleeping[s], desched_sleep_unsafe(lt)
          PROVE  /\ sleeping' \in [Schedulers -> SUBSET Lthreads]
                 /\ ready' \in [Schedulers -> Seq(Lthreads)]
                 /\ needs_resched' \in [Lthreads -> BOOLEAN]
                 /\ block_state' \in [Schedulers -> BlockStates]
                 /\ asleep' \in [Schedulers -> BOOLEAN]
                 /\ signaled' \in [Schedulers -> BOOLEAN]
      <4>1. lt \in Lthreads /\ sched[lt] \in Schedulers
        BY Zenon DEF TypeOK
      <4>2. sleeping' \in [Schedulers -> SUBSET Lthreads]
        BY <3>1, <4>1, Zenon DEF desched_sleep_unsafe, TypeOK
      <4> QED
        BY <3>1, <4>1, <4>2, PushType, Zenon DEF desched_sleep_unsafe
    <3>2. pc' \in [Schedulers -> RunPcs]
      BY <2>1, Zenon DEF schedule_expired, expire, TypeOK, RunPcs
    <3> QED
      BY <2>1, <3>1, <3>2, Zenon DEF schedule_expired, expire, TypeOK
  <2>2. CASE pop_own(s)
    <3>1. CASE TakeReady(s, s) /\ UNCHANGED victim
      BY <2>2, <3>1, TakeReadyType, Zenon DEF TypeOK, pop_own
    <3>2. CASE /\ Goto(s, "steal")
               /\ victim' = [victim EXCEPT ![s] = sched_neighbor(s)]
               /\ UNCHANGED <<ready, result>>
      BY <2>2, <3>2, NeighborType, Zenon DEF TypeOK, pop_own, RunPcs
    <3> QED BY <2>2, <3>1, <3>2 DEF pop_own
  <2>3. CASE steal(s)
    <3>0. victim[s] \in Schedulers
      BY Zenon DEF TypeOK
    <3>1. CASE TakeReady(s, victim[s]) /\ victim' = [victim EXCEPT ![s] = s]
      BY <2>3, <3>0, <3>1, TakeReadyType, Zenon DEF TypeOK, steal
    <3>2. CASE /\ victim' = [victim EXCEPT ![s] = sched_neighbor(@)]
               /\ UNCHANGED <<pc, ready, result>>
      BY <2>3, <3>0, <3>2, NeighborType, Zenon DEF TypeOK, steal
    <3>3. CASE Goto(s, "pop_blocking") /\ UNCHANGED <<victim, ready, result>>
      BY <2>3, <3>3, Zenon DEF TypeOK, steal, RunPcs
    <3> QED BY <2>3, <3>1, <3>2, <3>3 DEF steal
  <2>4. CASE pop_blocking(s)
    BY <2>4, TakeReadyType, Zenon DEF TypeOK, pop_blocking, RunPcs
  <2>5. CASE wake_neighbor(s)
    BY <2>5, NeighborType, WakeType, Zenon DEF TypeOK, wake_neighbor, RunPcs
  <2>6. CASE adopt(s)
    BY <2>6, Zenon DEF TypeOK, adopt, RunPcs
  <2>7. CASE resume(s)
    BY <2>7, Zenon DEF TypeOK, resume, RunPcs, LtOrNull
  <2>8. CASE resume_tail(s)
    <3>1. current_lthread[s] \in Lthreads
      BY <2>8, OnSched, Zenon DEF resume_tail
    <3>2. Append(ready[sched[current_lthread[s]]], current_lthread[s]) \in Seq(Lthreads)
      BY <3>1 DEF TypeOK
    <3> QED
      BY <2>8, <3>1, <3>2, Zenon
      DEF TypeOK, resume_tail, RunPcs, LtOrNull, ClockReadings
  <2>9. CASE Block(s)
    BY <2>9, Zenon DEF TypeOK, Block, RunPcs, BlockStates
  <2>10. CASE BeginDeepSleep(s)
    <3>0. /\ asleep \in [Schedulers -> BOOLEAN] /\ asleep' = [asleep EXCEPT ![s] = TRUE]
          /\ block_state \in [Schedulers -> BlockStates] /\ pc \in [Schedulers -> RunPcs]
          /\ \/ block_state' = [block_state EXCEPT ![s] = "WILL_BLOCK"]
             \/ block_state' = block_state
          /\ \/ pc' = [pc EXCEPT ![s] = "exit_wake"]
             \/ pc' = [pc EXCEPT ![s] = "deep_wait"]
      BY <2>10, Zenon DEF TypeOK, BeginDeepSleep
    <3>1. asleep' \in [Schedulers -> BOOLEAN]
      BY <3>0, Zenon
    <3>2. block_state' \in [Schedulers -> BlockStates]
      BY <3>0, Zenon DEF BlockStates
    <3>3. pc' \in [Schedulers -> RunPcs]
      BY <3>0, Zenon DEF RunPcs
    <3> QED
      BY <2>10, <3>1, <3>2, <3>3, Zenon DEF TypeOK, BeginDeepSleep
  <2>11. CASE EndDeepSleep(s)
    BY <2>11, Zenon DEF TypeOK, EndDeepSleep, RunPcs, BlockStates
  <2>12. CASE EndTimedWait(s)
    BY <2>12, Zenon DEF TypeOK, EndTimedWait, RunPcs, BlockStates
  <2>13. CASE exit_wake(s)
    BY <2>13, NeighborType, WakeType, Zenon DEF TypeOK, exit_wake, RunPcs
  <2> QED
    BY <1>1, <2>1, <2>2, <2>3, <2>4, <2>5, <2>6, <2>7, <2>8, <2>9, <2>10,
       <2>11, <2>12, <2>13, Zenon DEF Loop, SpuriousWakeup, WakeFromDeepSleep
<1>2. ASSUME NEW s \in Schedulers, User(s) PROVE TypeOK'
  <2>1. ASSUME NEW lt \in Lthreads, lthread_create(s, lt) PROVE TypeOK'
    <3>1. Append(ready[s], lt) \in Seq(Lthreads)
      BY DEF TypeOK
    <3> QED
      BY <2>1, <3>1, WakeType, Zenon DEF TypeOK, lthread_create
  <2>2. CASE lthread_yield(s)
    BY <2>2, Zenon DEF TypeOK, lthread_yield, RunPcs
  <2>3. CASE lthread_sleep(s)
    <3>1. current_lthread[s] \in Lthreads
      BY <2>3, OnSched, Zenon DEF lthread_sleep, Running
    <3>2. sleeping' \in [Schedulers -> SUBSET Lthreads]
      BY <2>3, <3>1, Zenon DEF TypeOK, lthread_sleep, sched_sleep
    <3> QED
      BY <2>3, <3>2, Zenon
      DEF TypeOK, lthread_sleep, sched_sleep, RunPcs, ClockReadings, Deadline
  <2>4. CASE lthread_sleep0(s)
    BY <2>4, Zenon DEF TypeOK, lthread_sleep0, RunPcs, ClockReadings
  <2>5. CASE wait_fd(s)
    <3>1. current_lthread[s] \in Lthreads
      BY <2>5, OnSched, Zenon DEF wait_fd, Running
    <3> QED
      BY <2>5, <3>1 DEF TypeOK, wait_fd, RunPcs
  <2>6. CASE cond_wait(s)
    <3>1. current_lthread[s] \in Lthreads
      BY <2>6, OnSched, Zenon DEF cond_wait, Running
    <3> QED
      BY <2>6, <3>1, Zenon DEF TypeOK, cond_wait, RunPcs, ClockReadings
  <2>7. CASE cond_signal(s)
    <3>1. PICK lt \in blocked :
            /\ blocked' = blocked \ {lt}
            /\ wakee' = [wakee EXCEPT ![s] = lt]
            /\ wsched' = [wsched EXCEPT ![s] = sched[lt]]
      BY <2>7, Zenon DEF cond_signal
    <3>2. lt \in LtOrNull /\ sched[lt] \in Schedulers
      BY Zenon DEF TypeOK, LtOrNull
    <3> QED
      BY <2>7, <3>1, <3>2, Zenon DEF TypeOK, cond_signal, RunPcs
  <2>8. CASE lthread_wakeup(s)
    <3> DEFINE lt == wakee[s]
               t == wsched[s]
    <3>0. lt \in Lthreads /\ t \in Schedulers /\ sched[lt] \in Schedulers
      BY <2>8, Zenon DEF lthread_wakeup, PcInv, TypeOK, LtOrNull
    <3>1. ASSUME NEW u \in Schedulers, sched_push_ready_unsafe(u, lt),
                 sleeping' \in [Schedulers -> SUBSET Lthreads],
                 wakee' = [wakee EXCEPT ![s] = NULL],
                 wsched' = [wsched EXCEPT ![s] = s], Goto(s, "user")
          PROVE  TypeOK'
      <4>1. /\ ready' \in [Schedulers -> Seq(Lthreads)]
            /\ needs_resched' \in [Lthreads -> BOOLEAN]
            /\ block_state' \in [Schedulers -> BlockStates]
            /\ asleep' \in [Schedulers -> BOOLEAN]
            /\ signaled' \in [Schedulers -> BOOLEAN]
        BY <3>0, <3>1, PushType, Zenon
      <4> QED
        BY <2>8, <3>1, <4>1, Zenon DEF TypeOK, lthread_wakeup, RunPcs, LtOrNull
    <3>2. CASE sched[lt] = t /\ desched_sleep_unsafe(lt)
      <4>1. sleeping' \in [Schedulers -> SUBSET Lthreads]
        BY <3>0, <3>2, Zenon DEF TypeOK, desched_sleep_unsafe
      <4>2. sched_push_ready_unsafe(t, lt)
        BY <3>2, Zenon DEF desched_sleep_unsafe
      <4> QED
        BY <2>8, <3>0, <3>1, <3>2, <4>1, <4>2, Zenon DEF lthread_wakeup
    <3>3. CASE sched[lt] = t /\ sched_push_ready_unsafe(t, lt) /\ UNCHANGED sleeping
      BY <2>8, <3>0, <3>1, <3>3, Zenon DEF lthread_wakeup, TypeOK
    <3>4. CASE sched[lt] # t
      BY <2>8, <3>0, <3>4, Zenon DEF lthread_wakeup, TypeOK
    <3> QED
      BY <2>8, <3>2, <3>3, <3>4, Zenon DEF lthread_wakeup
  <2>9. CASE lthread_exit(s)
    BY <2>9, Zenon DEF TypeOK, lthread_exit, RunPcs
  <2>10. CASE mco_entry(s)
    BY <2>10, Zenon DEF TypeOK, mco_entry, RunPcs
  <2>11. CASE cond_timedwait(s)
    <3>1. current_lthread[s] \in Lthreads
      BY <2>11, OnSched, Zenon DEF cond_timedwait, Running
    <3> QED
      BY <2>11, <3>1, Zenon DEF TypeOK, cond_timedwait, RunPcs
  <2>12. ~cond_sleep(s)
    BY Zenon DEF cond_sleep, PcInv
  <2>13. CASE cond_wait_return(s)
    BY <2>13, Zenon DEF TypeOK, cond_wait_return
  <2> QED
    BY <1>2, <2>1, <2>2, <2>3, <2>4, <2>5, <2>6, <2>7, <2>8, <2>9, <2>10, <2>11,
       <2>12, <2>13, Zenon DEF User
<1>3. CASE Poller \/ run_join \/ run_return \/ Returned \/ UNCHANGED vars
  <2>1. CASE poller_desched_event
    <3>1. PICK lt \in waiting :
            waiting' = waiting \ {lt} /\ event_lt' = lt /\ event_sched' = sched[lt]
      BY <2>1, Zenon DEF poller_desched_event
    <3>2. lt \in LtOrNull /\ sched[lt] \in Schedulers
      BY Zenon DEF TypeOK, LtOrNull
    <3> QED
      BY <2>1, <3>1, <3>2, Zenon DEF TypeOK, poller_desched_event
  <2>2. CASE poller_push_ready
    <3>0. 0 \in Schedulers
      BY NAssumption DEF Schedulers
    <3>1. event_lt \in Lthreads /\ event_sched \in Schedulers
      BY <2>2, Zenon DEF poller_push_ready, PollerInv, TypeOK, LtOrNull
    <3>2. /\ ready' \in [Schedulers -> Seq(Lthreads)]
          /\ needs_resched' \in [Lthreads -> BOOLEAN]
          /\ block_state' \in [Schedulers -> BlockStates]
          /\ asleep' \in [Schedulers -> BOOLEAN]
          /\ signaled' \in [Schedulers -> BOOLEAN]
      BY <2>2, <3>1, PushType, Zenon DEF poller_push_ready
    <3> QED
      BY <2>2, <3>0, <3>2, Zenon DEF poller_push_ready, TypeOK, LtOrNull
  <2>3. CASE poller_decrement
    <3>1. num_pending_events = Cardinality(waiting) + 1 /\ Cardinality(waiting) \in Nat
      BY <2>3, Zenon
      DEF poller_decrement, PollerInv, PendingIsCounted
    <3> QED
      BY <2>3, <3>1 DEF TypeOK, poller_decrement
  <2>4. CASE poller_done \/ run_join \/ run_return \/ Returned \/ UNCHANGED vars
    BY <2>4, Zenon DEF TypeOK, poller_done, run_join, run_return, Returned, vars
  <2> QED
    BY <1>3, <2>1, <2>2, <2>3, <2>4, Zenon DEF Poller
<1> QED
  BY <1>1, <1>2, <1>3, Zenon DEF Next

\* _lthread_sched_wake_unsafe() does one of the two.
LEMMA WakeEffect ==
  ASSUME TypeOK, NEW t \in Schedulers, sched_wake_unsafe(t)
  PROVE  Woke(t)
<1>1. /\ block_state \in [Schedulers -> BlockStates]
      /\ asleep \in [Schedulers -> BOOLEAN]
      /\ signaled \in [Schedulers -> BOOLEAN]
  BY Zenon DEF TypeOK
<1>2. CASE block_state[t] = "IS_BLOCKING"
  BY <1>1, <1>2, Zenon DEF sched_wake_unsafe, Sets, Signalled, Woke
<1>3. CASE block_state[t] # "IS_BLOCKING"
  BY <1>1, <1>3, Zenon DEF sched_wake_unsafe, BlockStates, Sets, Warned, Woke
<1> QED
  BY <1>2, <1>3, Zenon

\* Appending to one queue adds one lthread to it and leaves the others alone.
LEMMA QueueAppend ==
  ASSUME TypeOK, NEW t \in Schedulers, NEW lt \in Lthreads,
         ready' = [ready EXCEPT ![t] = Append(@, lt)]
  PROVE  Adds(t, lt)
<1>1. ready[t] \in Seq(Lthreads)
  BY Zenon DEF TypeOK
<1>2. /\ ready'[t] = Append(ready[t], lt)
      /\ \A u \in Schedulers \ {t} : ready'[u] = ready[u]
  BY Zenon DEF TypeOK
<1>3. /\ Len(ready'[t]) = Len(ready[t]) + 1 /\ Len(ready[t]) \in Nat
      /\ \A i \in 1 .. Len(ready[t]) : ready'[t][i] = ready[t][i]
      /\ ready'[t][Len(ready[t]) + 1] = lt
  BY <1>1, <1>2
<1>4. Queue(t)' = Queue(t) \cup {lt}
  BY <1>3 DEF Queue
<1>5. \A u \in Schedulers \ {t} : Queue(u)' = Queue(u)
  BY <1>2, Zenon DEF Queue
<1>6. Distinct(ready[t]) /\ lt \notin Queue(t) => Distinct(ready[t])'
  BY <1>3 DEF Distinct, Queue
<1>7. \A u \in Schedulers \ {t} : Distinct(ready[u]) => Distinct(ready[u])'
  BY <1>2, Zenon DEF Distinct
<1> QED
  BY <1>2, <1>4, <1>5, <1>6, <1>7, Zenon DEF Adds

\* Taking the head of a queue without repetitions removes that lthread from it.
LEMMA QueueTake ==
  ASSUME TypeOK, \A u \in Schedulers : Distinct(ready[u]),
         NEW s \in Schedulers, NEW t \in Schedulers, TakeReady(s, t)
  PROVE  Head(ready[t]) \in Lthreads /\ Removes(t, Head(ready[t]))
<1>1. ready[t] \in Seq(Lthreads) /\ ready[t] # <<>>
  BY Zenon DEF TypeOK, TakeReady
<1>2. /\ ready'[t] = Tail(ready[t])
      /\ \A u \in Schedulers \ {t} : ready'[u] = ready[u]
  BY Zenon DEF TypeOK, TakeReady
<1>3. /\ Len(ready'[t]) = Len(ready[t]) - 1 /\ Len(ready[t]) \in Nat \ {0}
      /\ \A i \in 1 .. Len(ready[t]) - 1 : ready'[t][i] = ready[t][i + 1]
      /\ Head(ready[t]) = ready[t][1] /\ Head(ready[t]) \in Lthreads
  BY <1>1, <1>2
<1>4. Head(ready[t]) \in Queue(t)
  BY <1>3 DEF Queue
<1>5. Queue(t)' = Queue(t) \ {Head(ready[t])}
  <2>1. ASSUME NEW x \in Queue(t)' PROVE x \in Queue(t) \ {Head(ready[t])}
    BY <1>3 DEF Queue, Distinct
  <2>2. ASSUME NEW x \in Queue(t) \ {Head(ready[t])} PROVE x \in Queue(t)'
    <3>1. PICK i \in 1 .. Len(ready[t]) : x = ready[t][i]
      BY Zenon DEF Queue
    <3>2. i - 1 \in 1 .. Len(ready[t]) - 1
      BY <1>3, <3>1
    <3>3. ready'[t][i - 1] = x
      BY <1>3, <3>1, <3>2
    <3> QED
      BY <1>3, <3>2, <3>3, Zenon DEF Queue
  <2> QED
    BY <2>1, <2>2, Zenon
<1>6. \A u \in Schedulers \ {t} : Queue(u)' = Queue(u)
  BY <1>2, Zenon DEF Queue
<1>7. Distinct(ready[t])'
  <2>1. SUFFICES ASSUME NEW i \in 1 .. Len(ready'[t]), NEW j \in 1 .. Len(ready'[t]),
                        ready'[t][i] = ready'[t][j]
                 PROVE  i = j
    BY Zenon DEF Distinct
  <2>2. /\ i \in 1 .. Len(ready[t]) - 1 /\ i + 1 \in 1 .. Len(ready[t])
        /\ j \in 1 .. Len(ready[t]) - 1 /\ j + 1 \in 1 .. Len(ready[t])
    BY <1>3, <2>1
  <2>3. ready[t][i + 1] = ready[t][j + 1]
    BY <1>3, <2>1, <2>2, Zenon
  <2>4. i + 1 = j + 1
    BY <2>2, <2>3, Zenon DEF Distinct
  <2> QED
    BY <2>2, <2>4
<1>8. \A u \in Schedulers \ {t} : Distinct(ready[u])'
  BY <1>2, Zenon DEF Distinct
<1> QED
  BY <1>1, <1>2, <1>3, <1>4, <1>5, <1>6, <1>7, <1>8, Zenon DEF Removes

\* The domains of the functions the steps write.
LEMMA Domains ==
  TypeOK =>
    /\ DOMAIN pc = Schedulers /\ DOMAIN ready = Schedulers
    /\ DOMAIN sleeping = Schedulers /\ DOMAIN current_lthread = Schedulers
    /\ DOMAIN block_state = Schedulers /\ DOMAIN signaled = Schedulers
    /\ DOMAIN result = Schedulers /\ DOMAIN wakee = Schedulers
    /\ DOMAIN wsched = Schedulers /\ DOMAIN asleep = Schedulers
    /\ DOMAIN life = Lthreads /\ DOMAIN sched = Lthreads
    /\ DOMAIN needs_resched = Lthreads /\ DOMAIN sleep_usecs = Lthreads
  BY Zenon DEF TypeOK

\* _lthread_schedule_expired.
LEMMA ExpiredEffect ==
  ASSUME IInv, NEW s \in Schedulers, schedule_expired(s)
  PROVE  NoneExpired(s) \/ \E lt \in Lthreads : Expired(s, lt)
<1>a. TypeOK
  BY Zenon DEF IInv
<1>1. PICK now \in ClockReadings : expire(s, now)
  BY Zenon DEF schedule_expired
<1>0. /\ pc[s] = "schedule_expired"
      /\ UNCHANGED <<current_lthread, result, victim, wakee, wsched, run_pc, life,
                     sched, sleep_usecs, blocked, pollVars>>
  BY <1>1, Zenon DEF expire
<1>2. \A lt \in sleeping[s] : sleep_usecs[lt] = 0
  <2> SUFFICES ASSUME NEW lt \in sleeping[s], sleep_usecs[lt] # 0 PROVE FALSE
    BY Zenon
  <2>1. lt \in Lthreads /\ sched[lt] = s
    BY Zenon DEF IInv, TypeOK, SchedInv, OwnersAgree
  <2>2. PICK t \in Schedulers : pc[t] = "switched" /\ lt \in sleeping[t]
    BY <2>1, Zenon DEF IInv, SleepInv
  <2>3. t = s
    BY <2>1, <2>2, Zenon DEF IInv, SchedInv, OwnersAgree
  <2> QED
    BY <1>0, <2>2, <2>3, Zenon
<1>3. {lt \in sleeping[s] : sleep_usecs[lt] <= now} = sleeping[s]
  BY <1>2 DEF ClockReadings, Deadline
<1>4. CASE sleeping[s] = {}
  <2>1. Steps(s, "schedule_expired", "pop_own")
    BY <1>a, <1>0, <1>1, <1>3, <1>4, Domains, Zenon DEF expire, Goto, Sets, Steps
  <2> QED
    BY <1>0, <1>1, <1>3, <1>4, <2>1, Zenon DEF expire, NoneExpired, pollVars
<1>5. CASE sleeping[s] # {}
  <2>1. PICK lt \in sleeping[s] :
          /\ desched_sleep_unsafe(lt)
          /\ Goto(s, IF sleeping[s] = {lt} THEN "pop_own" ELSE "schedule_expired")
    BY <1>1, <1>3, <1>5, Zenon DEF expire
  <2>2. sleeping[s] = {lt}
    BY DEF IInv, BlockInv
  <2>3. lt \in Lthreads /\ sched[lt] = s
    BY Zenon DEF IInv, TypeOK, SchedInv, OwnersAgree
  <2>4. current_lthread[s] # lt
    BY <1>0, <2>3, NullAssumption, Zenon DEF IInv, PcInv
  <2>5. Sets(sleeping, sleeping', s, {})
    BY <1>a, <2>1, <2>2, <2>3, Domains, Zenon DEF desched_sleep_unsafe, Sets
  <2>6. /\ ready' = [ready EXCEPT ![s] = Append(@, lt)]
        /\ UNCHANGED needs_resched
        /\ sched_wake_unsafe(s)
    BY <2>1, <2>3, <2>4, Zenon DEF desched_sleep_unsafe, sched_push_ready_unsafe
  <2>7. Warned(s)
    BY <1>0, <2>6, WakeEffect, Zenon DEF Woke, Signalled, IInv, PcInv
  <2>8. Steps(s, "schedule_expired", "pop_own")
    BY <1>a, <1>0, <2>1, <2>2, Domains, Zenon DEF Goto, Sets, Steps
  <2>9. Adds(s, lt)
    BY <1>a, <2>3, <2>6, QueueAppend, Zenon
  <2> QED
    BY <1>0, <2>2, <2>3, <2>5, <2>6, <2>7, <2>8, <2>9, Zenon DEF Expired, pollVars
<1> QED
  BY <1>4, <1>5, Zenon

\* _lthread_pop_ready takes an lthread from a queue it has locked.
LEMMA TakeEffect ==
  ASSUME IInv, NEW s \in Schedulers, NEW t \in Schedulers,
         pc[s] \in Searching, ~Locked(t), TakeReady(s, t),
         UNCHANGED <<sleeping, current_lthread, block_state, signaled, wakee,
                     wsched, asleep, run_pc, ltVars, blocked, pollVars>>
  PROVE  \E lt \in Lthreads : Takes(s, t, lt)
<1>1. TypeOK /\ \A u \in Schedulers : Distinct(ready[u])
  BY Zenon DEF IInv, OnceInv
<1>2. Head(ready[t]) \in Lthreads /\ Removes(t, Head(ready[t]))
  BY <1>1, QueueTake, Zenon
<1>3. /\ Sets(pc, pc', s, "wake_neighbor")
      /\ Sets(result, result', s, Head(ready[t]))
  BY <1>1, Domains, Zenon DEF TakeReady, Goto, Sets
<1> QED
  BY <1>2, <1>3, Zenon DEF Takes, ltVars, pollVars

\* _lthread_pop_ready up to its wake-up of the neighbour.
LEMMA PopEffect ==
  ASSUME IInv, NEW s \in Schedulers,
         pop_own(s) \/ steal(s) \/ pop_blocking(s)
  PROVE  \/ \E t \in Schedulers, lt \in Lthreads : Takes(s, t, lt)
         \/ \E label \in {"steal", "pop_blocking", "block"} : Searches(s, label)
<1>1. TypeOK /\ victim[s] \in Schedulers
  BY Zenon DEF IInv, TypeOK
<1>2. pc[s] \in Searching
  BY Zenon DEF pop_own, steal, pop_blocking, Searching
<1>3. UNCHANGED <<sleeping, current_lthread, block_state, signaled, wakee,
                  wsched, asleep, run_pc, ltVars, blocked, pollVars>>
  BY Zenon DEF pop_own, steal, pop_blocking
<1>4. CASE \E t \in Schedulers : ~Locked(t) /\ TakeReady(s, t)
  BY <1>2, <1>3, <1>4, TakeEffect, Zenon
<1>5. CASE \E label \in {"steal", "pop_blocking", "block"} :
             /\ Goto(s, label) /\ UNCHANGED <<ready, result>>
             /\ label = "block" => ready[s] = <<>>
  <2>1. PICK label \in {"steal", "pop_blocking", "block"} :
          /\ Goto(s, label) /\ UNCHANGED <<ready, result>>
          /\ label = "block" => ready[s] = <<>>
    BY <1>5, Zenon
  <2>2. Sets(pc, pc', s, label)
    BY <1>1, <2>1, Domains, Zenon DEF Goto, Sets
  <2> QED
    BY <1>2, <1>3, <2>1, <2>2, Zenon DEF Searches, ltVars, pollVars
<1>6. ASSUME UNCHANGED pc, pc[s] = "steal" PROVE Goto(s, "steal")
  BY <1>1, <1>6, Zenon DEF TypeOK, Goto
<1>7. CASE pop_own(s)
  BY <1>4, <1>5, <1>7, Zenon DEF pop_own, Locked
<1>8. CASE steal(s)
  BY <1>1, <1>4, <1>5, <1>6, <1>8, Zenon DEF steal
<1>9. CASE pop_blocking(s)
  BY <1>4, <1>5, <1>9, Zenon DEF pop_blocking, Locked
<1> QED
  BY <1>7, <1>8, <1>9, Zenon

\* The wake-up of the neighbour after a successful pop, and after the loop.
LEMMA PassEffect ==
  ASSUME IInv, NEW s \in Schedulers
  PROVE  /\ wake_neighbor(s) => Passes(s, "wake_neighbor", "adopt")
         /\ exit_wake(s) => Passes(s, "exit_wake", "done")
<1> DEFINE t == sched_neighbor(s)
<1>1. t \in Schedulers /\ TypeOK
  BY NeighborType, Zenon DEF IInv
<1>2. sched_wake_unsafe(t) => Woke(t)
  BY <1>1, WakeEffect, Zenon
<1>3. ASSUME NEW from, NEW to, pc[s] = from, Goto(s, to),
             UNCHANGED <<ready, sleeping, current_lthread, result, victim, wakee,
                         wsched, run_pc, ltVars, blocked, pollVars>>
      PROVE  PassFrame(s, from, to)
  BY <1>1, <1>3, Domains, Zenon DEF Goto, Sets, Steps, PassFrame, ltVars, pollVars
<1>4. ASSUME wake_neighbor(s) PROVE Passes(s, "wake_neighbor", "adopt")
  BY <1>1, <1>2, <1>3, <1>4, Zenon DEF wake_neighbor, Passes, PassAlone, PassWake
<1>5. ASSUME exit_wake(s) PROVE Passes(s, "exit_wake", "done")
  BY <1>1, <1>2, <1>3, <1>5, Zenon DEF exit_wake, Passes, PassAlone, PassWake
<1> QED
  BY <1>4, <1>5, Zenon

\* The thief's write of lt->sched, and _lthread_resume up to the switch.
LEMMA ResumeEffect ==
  ASSUME IInv, NEW s \in Schedulers
  PROVE  /\ adopt(s) => \E lt \in Lthreads : Adopts(s, lt)
         /\ resume(s) => \E lt \in Lthreads : Resumes(s, lt)
<1>1. TypeOK
  BY Zenon DEF IInv
<1>2. pc[s] \in {"adopt", "resume"} => result[s] \in Lthreads
  BY Zenon DEF IInv, TypeOK, PcInv, LtOrNull
<1>3. ASSUME adopt(s) PROVE Adopts(s, result[s])
  <2>1. Steps(s, "adopt", "resume")
    BY <1>1, <1>3, Domains, Zenon DEF adopt, Goto, Sets, Steps
  <2>2. SetsLt(sched, sched', result[s], s)
    BY <1>1, <1>2, <1>3, Domains, Zenon DEF adopt, SetsLt
  <2> QED
    BY <1>3, <2>1, <2>2, Zenon DEF adopt, Adopts, schedVars, pollVars
<1>4. ASSUME resume(s) PROVE Resumes(s, result[s])
  <2>1. Steps(s, "resume", "user")
    BY <1>1, <1>4, Domains, Zenon DEF resume, Goto, Sets, Steps
  <2>2. /\ Sets(current_lthread, current_lthread', s, result[s])
        /\ Sets(result, result', s, NULL)
    BY <1>1, <1>4, Domains, Zenon DEF resume, Sets
  <2> QED
    BY <1>4, <2>1, <2>2, Zenon DEF resume, Resumes, ltVars, pollVars
<1> QED
  BY <1>2, <1>3, <1>4, Zenon DEF adopt, resume

\* The end of _lthread_resume.
LEMMA TailEffect ==
  ASSUME IInv, NEW s \in Schedulers, resume_tail(s)
  PROVE  \E lt \in Lthreads : TailPlain(s, lt) \/ TailPush(s, lt)
<1> DEFINE lt == current_lthread[s]
<1>0. TypeOK /\ PcInv /\ OwnersAgree /\ pc[s] = "switched"
  BY Zenon DEF IInv, SchedInv, resume_tail
<1>1. lt \in Lthreads /\ sched[lt] = s /\ needs_resched[lt] \in BOOLEAN /\ TypeOK
  <2>1. lt # NULL
    BY <1>0, Zenon DEF PcInv
  <2>2. lt \in LtOrNull
    BY <1>0, Zenon DEF TypeOK
  <2>3. lt \in Lthreads
    BY <2>1, <2>2, Zenon DEF LtOrNull
  <2>4. sched[lt] = s
    BY <1>0, <2>1, Zenon DEF OwnersAgree
  <2>5. needs_resched[lt] \in BOOLEAN
    BY <1>0, <2>3, Zenon DEF TypeOK
  <2> QED
    BY <1>0, <2>3, <2>4, <2>5, Zenon
<1>2. TailFrame(s, lt)
  <2>1. /\ Steps(s, "switched", "schedule_expired")
        /\ Sets(current_lthread, current_lthread', s, NULL)
    BY <1>1, Domains, Zenon DEF resume_tail, Goto, Sets, Steps
  <2>2. /\ SetsLt(sleep_usecs, sleep_usecs', lt, 0)
        /\ SetsLt(needs_resched, needs_resched', lt, FALSE)
        /\ SetsLt(life, life', lt, IF life[lt] = "exited" THEN "freed" ELSE life[lt])
    BY <1>1, Domains, Zenon DEF resume_tail, SetsLt
  <2> QED
    BY <1>1, <2>1, <2>2, Zenon DEF resume_tail, TailFrame, pollVars
<1>3. CASE needs_resched[lt]
  <2>1. ready' = [ready EXCEPT ![s] = Append(@, lt)]
    BY <1>1, <1>3, Zenon DEF resume_tail
  <2> QED
    BY <1>1, <1>2, <1>3, <2>1, QueueAppend, Zenon DEF TailPush
<1>4. CASE ~needs_resched[lt]
  BY <1>1, <1>2, <1>4, Zenon DEF resume_tail, TailPlain
<1> QED
  BY <1>3, <1>4, Zenon

\* The blocking section, and _lthread_pool_begin_deep_sleep in it.
LEMMA BlockEffect ==
  ASSUME IInv, NEW s \in Schedulers, Block(s)
  PROVE  \/ GoesRound(s)
         \/ \E label \in {"begin_deep_sleep", "timed_wait"} : Commits(s, label)
<1>1. TypeOK /\ BlockFrame(s)
  BY Zenon DEF IInv, Block, BlockFrame, ltVars, pollVars
<1>2. CASE block_state[s] = "WONT_BLOCK"
  BY <1>1, <1>2, Domains, Zenon DEF Block, Goto, Sets, Steps, GoesRound
<1>3. CASE block_state[s] # "WONT_BLOCK"
  <2> DEFINE label == IF sched_isdone(s) /\ num_pending_events = 0
                        THEN "begin_deep_sleep" ELSE "timed_wait"
  <2>1. pc[s] = "block" /\ Goto(s, label)
    BY <1>3, Zenon DEF Block
  <2>2. Sets(block_state, block_state', s, "IS_BLOCKING")
    BY <1>1, <1>3, Domains, Zenon DEF Block, Sets
  <2>3. label = "begin_deep_sleep" => sched_isdone(s) /\ num_pending_events = 0
    BY Zenon
  <2>4. label \in {"begin_deep_sleep", "timed_wait"}
    BY Zenon
  <2> HIDE DEF label
  <2>5. Steps(s, "block", label)
    BY <1>1, <2>1, Domains, Zenon DEF Goto, Sets, Steps
  <2> QED
    BY <1>1, <1>3, <2>2, <2>3, <2>4, <2>5, Zenon DEF Commits
<1> QED
  BY <1>2, <1>3, Zenon

\* BeginDeepSleep lists the scheduler as asleep; it is the last one or it is not.
LEMMA DeepSleepEffect ==
  ASSUME IInv, NEW s \in Schedulers, BeginDeepSleep(s)
  PROVE  FallsAsleep(s) \/ LastAsleep(s)
<1>1. TypeOK
  BY Zenon DEF IInv
<1>2. Sets(asleep, asleep', s, TRUE)
  BY <1>1, Domains, Zenon DEF BeginDeepSleep, Sets
<1>3. CASE \A t \in Schedulers : asleep'[t]
  <2>1. \A t \in Schedulers : t = s \/ asleep[t]
    BY <1>2, <1>3, Zenon DEF Sets
  <2>2. /\ Steps(s, "begin_deep_sleep", "exit_wake")
        /\ Sets(block_state, block_state', s, "WILL_BLOCK")
    BY <1>1, <1>3, Domains, Zenon DEF BeginDeepSleep, Goto, Sets, Steps
  <2> QED
    BY <1>2, <2>1, <2>2, Zenon DEF BeginDeepSleep, LastAsleep, ltVars, pollVars
<1>4. CASE ~\A t \in Schedulers : asleep'[t]
  <2>1. Steps(s, "begin_deep_sleep", "deep_wait")
    BY <1>1, <1>4, Domains, Zenon DEF BeginDeepSleep, Goto, Sets, Steps
  <2> QED
    BY <1>2, <1>4, <2>1, Zenon DEF BeginDeepSleep, FallsAsleep, ltVars, pollVars
<1> QED
  BY <1>3, <1>4, Zenon

\* The returns from the two waits.
LEMMA ReturnEffect ==
  ASSUME IInv, NEW s \in Schedulers
  PROVE  /\ EndDeepSleep(s) => Returns(s, "deep_wait")
         /\ EndTimedWait(s) => Returns(s, "timed_wait")
<1>1. TypeOK
  BY Zenon DEF IInv
<1>2. ASSUME EndDeepSleep(s) PROVE Returns(s, "deep_wait")
  <2>1. /\ Steps(s, "deep_wait", "schedule_expired")
        /\ Sets(asleep, asleep', s, FALSE)
    BY <1>1, <1>2, Domains, Zenon DEF EndDeepSleep, Goto, Sets, Steps
  <2>2. /\ Sets(block_state, block_state', s, "WILL_BLOCK")
        /\ Sets(signaled, signaled', s, FALSE)
    BY <1>1, <1>2, Domains, Zenon DEF EndDeepSleep, Sets
  <2> QED
    BY <1>2, <2>1, <2>2, Zenon DEF EndDeepSleep, Returns, ltVars, pollVars
<1>3. ASSUME EndTimedWait(s) PROVE Returns(s, "timed_wait")
  <2>1. Steps(s, "timed_wait", "schedule_expired")
    BY <1>1, <1>3, Domains, Zenon DEF EndTimedWait, Goto, Sets, Steps
  <2>2. /\ Sets(block_state, block_state', s, "WILL_BLOCK")
        /\ Sets(signaled, signaled', s, FALSE)
    BY <1>1, <1>3, Domains, Zenon DEF EndTimedWait, Sets
  <2> QED
    BY <1>3, <2>1, <2>2, Zenon DEF EndTimedWait, Returns, ltVars, pollVars
<1> QED
  BY <1>2, <1>3, Zenon

\* lthread_create: the creator runs, so it is only warned.
LEMMA CreateEffect ==
  ASSUME IInv, NEW s \in Schedulers, NEW lt \in Lthreads, lthread_create(s, lt)
  PROVE  Creates(s, lt)
<1>0. TypeOK
  BY Zenon DEF IInv
<1>1. Woke(s)
  BY <1>0, WakeEffect, Zenon DEF lthread_create
<1>2. Warned(s)
  BY <1>1, Zenon DEF Woke, Signalled, lthread_create, Running, IInv, PcInv
<1>3. SetsLt(life, life', lt, "live") /\ SetsLt(sched, sched', lt, s)
  BY <1>0, Domains, Zenon DEF lthread_create, SetsLt
<1>4. Adds(s, lt)
  BY <1>0, QueueAppend, Zenon DEF lthread_create
<1> QED
  BY <1>2, <1>3, <1>4, Zenon DEF Creates, lthread_create, Running, localVars, pollVars

\* The calls that end with _lthread_yield().
LEMMA LeaveEffect ==
  ASSUME IInv, NEW s \in Schedulers
  PROVE  /\ lthread_yield(s) => \E lt \in Lthreads : Yields(s, lt)
         /\ lthread_sleep(s) => \E lt \in Lthreads : Sleeps(s, lt)
         /\ lthread_sleep0(s) => \E lt \in Lthreads : Sleeps0(s, lt)
         /\ wait_fd(s) => \E lt \in Lthreads : WaitsFd(s, lt)
         /\ cond_wait(s) => \E lt \in Lthreads : CondWaits(s, lt)
         /\ lthread_exit(s) => \E lt \in Lthreads : Finishes(s, lt, "exited")
         /\ mco_entry(s) => \E lt \in Lthreads : Finishes(s, lt, "returned")
<1> DEFINE lt == current_lthread[s]
<1>1. TypeOK /\ PcInv /\ OwnersAgree
  BY Zenon DEF IInv, SchedInv
<1>2. pc[s] = "user" => lt \in Lthreads /\ sched[lt] = s
  <2>1. pc[s] = "user" => lt # NULL
    BY <1>1, Zenon DEF PcInv
  <2>2. lt \in LtOrNull
    BY <1>1, Zenon DEF TypeOK
  <2> QED
    BY <1>1, <2>1, <2>2, Zenon DEF LtOrNull, OwnersAgree
<1>3. ASSUME pc[s] = "user", Goto(s, "switched"),
             UNCHANGED <<ready, current_lthread, block_state, signaled, result,
                         wakee, wsched, asleep, run_pc, sched, poller_pc,
                         event_lt, event_sched>>
      PROVE  Leaves(s, lt)
  BY <1>1, <1>2, <1>3, Domains, Zenon DEF Goto, Sets, Steps, Leaves
<1>4. ASSUME pc[s] = "user", NEW f, NEW g, NEW v, DOMAIN f = Lthreads,
             g = [f EXCEPT ![lt] = v]
      PROVE  SetsLt(f, g, lt, v)
  BY <1>2, <1>4, Zenon DEF SetsLt
<1>5. /\ DOMAIN life = Lthreads /\ DOMAIN needs_resched = Lthreads
      /\ DOMAIN sleep_usecs = Lthreads /\ DOMAIN sleeping = Schedulers
  BY <1>1, Domains, Zenon
<1> USE DEF Running, schedVars, ltVars, pollVars
<1>6. ASSUME lthread_yield(s) PROVE Yields(s, lt)
  <2>1. Leaves(s, lt)
    BY <1>3, <1>6, Zenon DEF lthread_yield
  <2> QED
    BY <1>4, <1>5, <1>6, <2>1, Zenon DEF lthread_yield, Yields
<1>7. ASSUME lthread_sleep(s) PROVE Sleeps(s, lt)
  <2>1. Leaves(s, lt)
    BY <1>3, <1>7, Zenon DEF lthread_sleep, sched_sleep
  <2>2. Sets(sleeping, sleeping', s, sleeping[s] \cup {lt})
    BY <1>2, <1>5, <1>7, Zenon DEF lthread_sleep, sched_sleep, Sets
  <2> QED
    BY <1>4, <1>5, <1>7, <2>1, <2>2, Zenon DEF lthread_sleep, sched_sleep, Sleeps
<1>8. ASSUME lthread_sleep0(s) PROVE Sleeps0(s, lt)
  <2>1. Leaves(s, lt)
    BY <1>3, <1>8, Zenon DEF lthread_sleep0
  <2> QED
    BY <1>4, <1>5, <1>8, <2>1, Zenon DEF lthread_sleep0, Sleeps0
<1>9. ASSUME wait_fd(s) PROVE WaitsFd(s, lt)
  <2>1. Leaves(s, lt)
    BY <1>3, <1>9, Zenon DEF wait_fd
  <2> QED
    BY <1>9, <2>1, Zenon DEF wait_fd, WaitsFd
<1>10. ASSUME cond_wait(s) PROVE CondWaits(s, lt)
  <2>1. Leaves(s, lt)
    BY <1>3, <1>10, Zenon DEF cond_wait
  <2> QED
    BY <1>4, <1>5, <1>10, <2>1, Zenon DEF cond_wait, CondWaits
<1>11. ASSUME lthread_exit(s) PROVE Finishes(s, lt, "exited")
  <2>1. Leaves(s, lt)
    BY <1>3, <1>11, Zenon DEF lthread_exit
  <2> QED
    BY <1>4, <1>5, <1>11, <2>1, Zenon DEF lthread_exit, Finishes
<1>12. ASSUME mco_entry(s) PROVE Finishes(s, lt, "returned")
  <2>1. Leaves(s, lt)
    BY <1>3, <1>12, Zenon DEF mco_entry
  <2> QED
    BY <1>4, <1>5, <1>12, <2>1, Zenon DEF mco_entry, Finishes
<1>13. (\/ lthread_yield(s) \/ lthread_sleep(s) \/ lthread_sleep0(s)
        \/ wait_fd(s) \/ cond_wait(s) \/ lthread_exit(s) \/ mco_entry(s))
         => pc[s] = "user"
  BY Zenon DEF lthread_yield, lthread_sleep, lthread_sleep0, wait_fd, cond_wait,
         lthread_exit, mco_entry
<1> HIDE DEF lt, Running, schedVars, ltVars, pollVars
<1> QED
  BY <1>2, <1>6, <1>7, <1>8, <1>9, <1>10, <1>11, <1>12, <1>13, Zenon

\* _lthread_cond_signal.
LEMMA SignalEffect ==
  ASSUME IInv, NEW s \in Schedulers, cond_signal(s)
  PROVE  \E lt \in Lthreads : Signals(s, lt)
<1>1. TypeOK /\ wakee[s] = NULL
  BY Zenon DEF IInv, PcInv, cond_signal, Running
<1>2. PICK lt \in blocked :
        /\ blocked' = blocked \ {lt}
        /\ wakee' = [wakee EXCEPT ![s] = lt]
        /\ wsched' = [wsched EXCEPT ![s] = sched[lt]]
  BY Zenon DEF cond_signal
<1>3. Sets(wakee, wakee', s, lt) /\ Sets(wsched, wsched', s, sched[lt])
  BY <1>1, <1>2, Domains, Zenon DEF Sets
<1>4. Steps(s, "user", "wakeup")
  BY <1>1, Domains, Zenon DEF cond_signal, Running, Goto, Sets, Steps
<1>5. lt \in Lthreads
  BY <1>1, Zenon DEF TypeOK
<1> QED
  BY <1>1, <1>2, <1>3, <1>4, <1>5, Zenon
  DEF cond_signal, Signals, schedVars, ltVars, pollVars

\* _lthread_sched_push_ready_unsafe on the lthread's own scheduler.
LEMMA PushEffect ==
  ASSUME TypeOK, NEW t \in Schedulers, NEW lt \in Lthreads, sched[lt] = t,
         ~Locked(t), sched_push_ready_unsafe(t, lt)
  PROVE  Pushed(t, lt)
<1>1. Woke(t)
  BY WakeEffect, Zenon DEF sched_push_ready_unsafe
<1>2. CASE current_lthread[t] = lt
  BY <1>1, <1>2, Domains, Zenon DEF sched_push_ready_unsafe, Marks, SetsLt, Pushed
<1>3. CASE current_lthread[t] # lt
  <2>1. ready' = [ready EXCEPT ![t] = Append(@, lt)] /\ UNCHANGED needs_resched
    BY <1>3, Zenon DEF sched_push_ready_unsafe
  <2> QED
    BY <1>1, <1>3, <2>1, QueueAppend, Zenon DEF Pushes, Pushed
<1> QED
  BY <1>2, <1>3, Zenon

\* _lthread_wakeup: the lthread is not in a sleep tree and has not moved since
\* its lt->sched was read, so it is pushed at the first attempt.
LEMMA WakeupEffect ==
  ASSUME IInv, NEW s \in Schedulers, lthread_wakeup(s)
  PROVE  \E t \in Schedulers, lt \in Lthreads : Wakes(s, t, lt)
<1> DEFINE lt == wakee[s]
           t == wsched[s]
<1>1. lt \in Lthreads /\ t \in Schedulers /\ TypeOK
  BY Zenon DEF IInv, lthread_wakeup, PcInv, TypeOK, LtOrNull
<1>2. sched[lt] = t
  BY Zenon DEF IInv, lthread_wakeup, SchedInv, OwnersAgree
<1>3. ~Asleep(lt)
  BY <1>1, Zenon DEF IInv, PlaceInv, OnePlace, Registered, WakePending
<1>4. sleep_usecs[lt] = 0
  BY <1>1, <1>3, Zenon DEF IInv, SleepInv, Asleep
<1>5. /\ sched_push_ready_unsafe(t, lt) /\ ~Locked(t)
      /\ wakee' = [wakee EXCEPT ![s] = NULL]
      /\ wsched' = [wsched EXCEPT ![s] = s]
      /\ pc[s] = "wakeup" /\ Goto(s, "user")
      /\ UNCHANGED <<sleeping, current_lthread, result, run_pc, life, sched,
                     sleep_usecs, blocked, pollVars>>
  BY <1>2, <1>4, Zenon DEF lthread_wakeup
<1>6. Pushed(t, lt)
  BY <1>1, <1>2, <1>5, PushEffect, Zenon
<1>7. Sets(wakee, wakee', s, NULL) /\ Sets(wsched, wsched', s, s)
  BY <1>1, <1>5, Domains, Zenon DEF Sets
<1>8. Steps(s, "wakeup", "user")
  BY <1>1, <1>5, Domains, Zenon DEF Goto, Sets, Steps
<1>9. Wakes(s, t, lt)
  BY <1>5, <1>6, <1>7, <1>8, Zenon DEF Wakes, pollVars
<1> QED
  BY <1>1, <1>9, Zenon

\* The poller's push, while the event is still counted.
LEMMA ArriveEffect ==
  ASSUME IInv, poller_push_ready
  PROVE  \E t \in Schedulers, lt \in Lthreads : Arrives(t, lt)
<1>1. num_pending_events = Cardinality(waiting) + 1 /\ Cardinality(waiting) \in Nat
  BY Zenon DEF poller_push_ready, IInv, PollerInv, PendingIsCounted
<1>2. event_lt \in Lthreads /\ event_sched \in Schedulers /\ TypeOK
  BY Zenon DEF IInv, poller_push_ready, PollerInv, TypeOK, LtOrNull
<1>3. sched[event_lt] = event_sched
  BY Zenon DEF IInv, poller_push_ready, SchedInv, OwnersAgree
<1>4. Pushed(event_sched, event_lt)
  BY <1>2, <1>3, PushEffect, Zenon DEF poller_push_ready
<1>5. num_pending_events # 0
  BY <1>1
<1>6. Arrives(event_sched, event_lt)
  BY <1>4, <1>5, Zenon DEF poller_push_ready, Arrives, localVars
<1> QED
  BY <1>2, <1>6, Zenon

\* The other steps of the poller, and those of lthread_run().
LEMMA RestEffect ==
  ASSUME IInv
  PROVE  /\ poller_desched_event => \E lt \in Lthreads : Descheds(lt)
         /\ poller_decrement \/ poller_done \/ run_join \/ run_return
              \/ UNCHANGED vars => Ends
<1>1. ASSUME poller_desched_event PROVE \E lt \in Lthreads : Descheds(lt)
  <2>1. event_lt = NULL /\ waiting \subseteq Lthreads
    BY <1>1, Zenon DEF IInv, PollerInv, poller_desched_event, TypeOK
  <2> QED
    BY <1>1, <2>1, Zenon
    DEF poller_desched_event, Descheds, schedVars, localVars, ltVars
<1>2. ASSUME \/ poller_decrement \/ poller_done \/ run_join \/ run_return
             \/ UNCHANGED vars
      PROVE  Ends
  BY <1>2, Zenon DEF poller_decrement, poller_done, run_join, run_return, vars, Ends,
              schedVars, localVars, ltVars, pollVars
<1> QED
  BY <1>1, <1>2, Zenon

\* Every step from a state that satisfies IInv has one of these effects, in a
\* program without timed condition waits: none begins, sleeps or returns.
LEMMA StepEffect ==
  ASSUME Untimed, IInv, [Next]_vars
  PROVE  Effect
<1>1. ASSUME NEW s \in Schedulers, Loop(s) \/ SpuriousWakeup(s) PROVE LoopEffect(s)
  <2>1. CASE schedule_expired(s)
    BY <2>1, ExpiredEffect, Zenon DEF LoopEffect, WorkEffect
  <2>2. CASE pop_own(s) \/ steal(s) \/ pop_blocking(s)
    BY <2>2, PopEffect, Zenon DEF LoopEffect, WorkEffect
  <2>3. CASE wake_neighbor(s) \/ exit_wake(s)
    BY <2>3, PassEffect, Zenon DEF LoopEffect, WorkEffect
  <2>4. CASE adopt(s) \/ resume(s)
    BY <2>4, ResumeEffect, Zenon DEF LoopEffect, WorkEffect
  <2>5. CASE resume_tail(s)
    BY <2>5, TailEffect, Zenon DEF LoopEffect, WorkEffect
  <2>6. CASE Block(s)
    BY <2>6, BlockEffect, Zenon DEF LoopEffect, BlockingEffect
  <2>7. CASE BeginDeepSleep(s)
    BY <2>7, DeepSleepEffect, Zenon DEF LoopEffect, BlockingEffect
  <2>8. CASE EndTimedWait(s) \/ WakeFromDeepSleep(s) \/ SpuriousWakeup(s)
    BY <2>8, ReturnEffect, Zenon
    DEF LoopEffect, BlockingEffect, WakeFromDeepSleep, SpuriousWakeup
  <2> QED
    BY <1>1, <2>1, <2>2, <2>3, <2>4, <2>5, <2>6, <2>7, <2>8, Zenon DEF Loop
<1>2. ASSUME NEW s \in Schedulers, User(s) PROVE UserEffect(s)
  <2>1. ASSUME NEW lt \in Lthreads, lthread_create(s, lt) PROVE UserEffect(s)
    BY <2>1, CreateEffect, Zenon DEF UserEffect
  <2>2. CASE lthread_wakeup(s)
    BY <2>2, WakeupEffect, Zenon DEF UserEffect
  <2>3. CASE cond_signal(s)
    BY <2>3, SignalEffect, Zenon DEF UserEffect
  <2>4. CASE \/ lthread_yield(s) \/ lthread_sleep(s) \/ lthread_sleep0(s)
             \/ wait_fd(s) \/ cond_wait(s) \/ lthread_exit(s) \/ mco_entry(s)
    BY <2>4, LeaveEffect, Zenon DEF UserEffect
  <2>5. ~cond_timedwait(s)
    BY Zenon DEF cond_timedwait, Running, Untimed
  <2>6. ~cond_sleep(s)
    BY Zenon DEF cond_sleep, IInv, PcInv
  <2>7. ~cond_wait_return(s)
    BY Zenon DEF cond_wait_return, IInv, RunInv, Registered
  <2> QED
    BY <1>2, <2>1, <2>2, <2>3, <2>4, <2>5, <2>6, <2>7, Zenon DEF User
<1>3. ASSUME Poller PROVE OtherEffect
  BY <1>3, ArriveEffect, RestEffect, Zenon DEF OtherEffect, Poller
<1>4. CASE run_join \/ run_return \/ Returned \/ UNCHANGED vars
  BY <1>4, RestEffect, Zenon DEF Effect, OtherEffect, Returned
<1> QED
  BY <1>1, <1>2, <1>3, <1>4, Zenon DEF Next, Effect
=============================================================================
