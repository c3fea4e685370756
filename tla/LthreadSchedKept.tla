--------------------------- MODULE LthreadSchedKept -------------------------
(***************************************************************************)
(* Every effect keeps IInv, one lemma per part of it and one step per      *)
(* effect in each: what is known of lt->sched (SchedInv); the blocking     *)
(* protocol, that is the flags block_state and asleep[] and what a         *)
(* blocking scheduler has looked at; the lthread that sleeps; each lthread *)
(* on a ready queue, in hand and being woken at most once (OnceInv); what  *)
(* is known of an lthread that runs (RunInv); each lthread in at most one  *)
(* place (PlaceInv); and, unless the program calls lthread_sleep(0), each  *)
(* live lthread in some place (LiveInv).  Where an effect moves an         *)
(* lthread, the step first says how each kind of place changes, and        *)
(* concludes from that.                                                    *)
(***************************************************************************)
EXTENDS LthreadSchedEffects, TLAPS

\* A step that leaves the ready queues alone leaves their contents alone.
LEMMA QueueSame ==
  UNCHANGED ready => \A u : \A x : x \in Queue(u)' <=> x \in Queue(u)
  BY Zenon DEF Queue

\* Queues that do not change stay without repetition.
LEMMA DistinctSame ==
  UNCHANGED ready => \A u : Distinct(ready[u])' <=> Distinct(ready[u])
  BY Zenon DEF Distinct

\* What a scheduler points to is an lthread.
LEMMA Typed ==
  TypeOK =>
    /\ \A u \in Schedulers :
         /\ Queue(u) \subseteq Lthreads /\ sleeping[u] \subseteq Lthreads
         /\ current_lthread[u] # NULL => current_lthread[u] \in Lthreads
         /\ result[u] # NULL => result[u] \in Lthreads
         /\ wakee[u] # NULL => wakee[u] \in Lthreads
    /\ event_lt # NULL => event_lt \in Lthreads
<1> SUFFICES ASSUME TypeOK, NEW u \in Schedulers
             PROVE  /\ Queue(u) \subseteq Lthreads /\ sleeping[u] \subseteq Lthreads
                    /\ current_lthread[u] # NULL => current_lthread[u] \in Lthreads
                    /\ result[u] # NULL => result[u] \in Lthreads
                    /\ wakee[u] # NULL => wakee[u] \in Lthreads
                    /\ event_lt # NULL => event_lt \in Lthreads
  BY NAssumption DEF Schedulers
<1>1. ready[u] \in Seq(Lthreads) /\ sleeping[u] \subseteq Lthreads
  BY Zenon DEF TypeOK
<1>2. /\ current_lthread[u] \in LtOrNull /\ result[u] \in LtOrNull
      /\ wakee[u] \in LtOrNull /\ event_lt \in LtOrNull
  BY Zenon DEF TypeOK
<1>3. Queue(u) \subseteq Lthreads
  BY <1>1 DEF Queue
<1> QED
  BY <1>1, <1>2, <1>3, Zenon DEF LtOrNull

\* lt->sched goes on naming the scheduler that holds the lthread: only the thief
\* that has it in hand changes it, and no wake-up is on its way then.
LEMMA SchedStep ==
  ASSUME IInv, Effect
  PROVE  SchedInv'
<1>0. TypeOK /\ PcInv /\ PollerInv /\ SchedInv /\ OnceInv /\ PlaceInv /\ RunInv
  BY Zenon DEF IInv
<1>a. /\ \A u \in Schedulers :
           /\ Queue(u) \subseteq Lthreads /\ sleeping[u] \subseteq Lthreads
           /\ current_lthread[u] # NULL => current_lthread[u] \in Lthreads
           /\ result[u] # NULL => result[u] \in Lthreads
           /\ wakee[u] # NULL => wakee[u] \in Lthreads
      /\ event_lt # NULL => event_lt \in Lthreads
  BY <1>0, Typed, Zenon
<1>1. ASSUME NEW s \in Schedulers, WorkEffect(s) PROVE SchedInv'
  <2>1. CASE NoneExpired(s)
    BY <1>0, <2>1, QueueSame DEF NoneExpired, Sets, Steps, SchedInv, OwnersAgree
  <2>2. ASSUME NEW lt \in Lthreads, Expired(s, lt) PROVE SchedInv'
    BY <1>0, <2>2 DEF Expired, Sets, Steps, SchedInv, OwnersAgree, Adds
  <2>3. ASSUME NEW t \in Schedulers, NEW lt \in Lthreads, Takes(s, t, lt)
        PROVE  SchedInv'
    BY <1>0, <2>3 DEF Takes, Sets, SchedInv, OwnersAgree, Removes
  <2>4. ASSUME NEW label \in {"steal", "pop_blocking", "block"}, Searches(s, label)
        PROVE  SchedInv'
    BY <1>0, <2>4, QueueSame, Zenon DEF Searches, Sets, SchedInv, OwnersAgree
  <2>5. CASE PassAlone(s, "wake_neighbor", "adopt")
    BY <1>0, <2>5, QueueSame
    DEF PassAlone, PassFrame, Sets, Steps, SchedInv, OwnersAgree
  <2>6. CASE PassAlone(s, "exit_wake", "done")
    BY <1>0, <2>6, QueueSame
    DEF PassAlone, PassFrame, Sets, Steps, SchedInv, OwnersAgree
  <2>7. ASSUME NEW t \in Schedulers, PassWake(s, t, "wake_neighbor", "adopt")
        PROVE  SchedInv'
    BY <1>0, <2>7, QueueSame
    DEF PassWake, PassFrame, Sets, Steps, SchedInv, OwnersAgree
  <2>8. ASSUME NEW t \in Schedulers, PassWake(s, t, "exit_wake", "done")
        PROVE  SchedInv'
    BY <1>0, <2>8, QueueSame
    DEF PassWake, PassFrame, Sets, Steps, SchedInv, OwnersAgree
  <2>9. ASSUME NEW lt \in Lthreads, Adopts(s, lt) PROVE SchedInv'
    <3>1. /\ \A u \in Schedulers :
               /\ lt \notin Queue(u) /\ lt \notin sleeping[u]
               /\ current_lthread[u] # lt /\ wakee[u] # lt
          /\ event_lt # lt
      BY <1>0, <2>9, Zenon
      DEF Adopts, PlaceInv, OnePlace, Queued, InHand, Current, Registered, Asleep,
          WakePending
    <3>2. \A u \in Schedulers : u # s => result[u] # lt
      BY <1>0, <2>9, NullAssumption, Zenon DEF Adopts, OnceInv
    <3> QED
      BY <1>0, <1>a, <2>9, <3>1, <3>2, QueueSame
      DEF Adopts, Sets, Steps, SetsLt, SchedInv, OwnersAgree, PcInv, PollerInv
  <2>10. ASSUME NEW lt \in Lthreads, Resumes(s, lt) PROVE SchedInv'
    BY <1>0, <2>10, QueueSame DEF Resumes, Sets, Steps, SchedInv, OwnersAgree
  <2>11. ASSUME NEW lt \in Lthreads, TailPlain(s, lt) PROVE SchedInv'
    BY <1>0, <2>11, QueueSame
    DEF TailPlain, TailFrame, Sets, Steps, SetsLt, SchedInv, OwnersAgree
  <2>12. ASSUME NEW lt \in Lthreads, TailPush(s, lt) PROVE SchedInv'
    BY <1>0, <2>12
    DEF TailPush, TailFrame, Sets, Steps, SetsLt, SchedInv, OwnersAgree, Adds
  <2> QED
    BY <1>1, <2>1, <2>2, <2>3, <2>4, <2>5, <2>6, <2>7, <2>8, <2>9, <2>10,
       <2>11, <2>12, Zenon DEF WorkEffect, Passes
<1>2. ASSUME NEW s \in Schedulers, BlockingEffect(s) PROVE SchedInv'
  <2>1. CASE GoesRound(s)
    BY <1>0, <2>1, QueueSame
    DEF GoesRound, BlockFrame, Sets, Steps, SchedInv, OwnersAgree
  <2>2. ASSUME NEW label \in {"begin_deep_sleep", "timed_wait"}, Commits(s, label)
        PROVE  SchedInv'
    BY <1>0, <2>2, QueueSame
    DEF Commits, BlockFrame, Sets, Steps, SchedInv, OwnersAgree
  <2>3. CASE FallsAsleep(s)
    BY <1>0, <2>3, QueueSame DEF FallsAsleep, Sets, Steps, SchedInv, OwnersAgree
  <2>4. CASE LastAsleep(s)
    BY <1>0, <2>4, QueueSame DEF LastAsleep, Sets, Steps, SchedInv, OwnersAgree
  <2>5. ASSUME NEW from \in {"deep_wait", "timed_wait"}, Returns(s, from)
        PROVE  SchedInv'
    BY <1>0, <2>5, QueueSame DEF Returns, Sets, Steps, SchedInv, OwnersAgree
  <2> QED
    BY <1>2, <2>1, <2>2, <2>3, <2>4, <2>5, Zenon DEF BlockingEffect
<1>3. ASSUME NEW s \in Schedulers, UserEffect(s) PROVE SchedInv'
  <2>1. ASSUME NEW lt \in Lthreads, Creates(s, lt) PROVE SchedInv'
    <3>1. /\ \A u \in Schedulers :
               /\ lt \notin Queue(u) /\ lt \notin sleeping[u]
               /\ wakee[u] # lt /\ result[u] # lt
          /\ event_lt # lt
      BY <1>0, <2>1, Zenon
      DEF Creates, PlaceInv, OnePlace, Queued, InHand, Registered, Asleep,
          WakePending
    <3>2. \A u \in Schedulers : current_lthread[u] # lt
      BY <1>0, <2>1, NullAssumption, Zenon DEF Creates, RunInv, PcInv
    <3> QED
      BY <1>0, <1>a, <2>1, <3>1, <3>2
      DEF Creates, SetsLt, Adds, SchedInv, OwnersAgree, PcInv, PollerInv
  <2>2. ASSUME NEW lt \in Lthreads, Yields(s, lt) PROVE SchedInv'
    BY <1>0, <2>2, QueueSame
    DEF Yields, Leaves, Sets, Steps, SetsLt, SchedInv, OwnersAgree
  <2>3. ASSUME NEW lt \in Lthreads, Sleeps(s, lt) PROVE SchedInv'
    BY <1>0, <2>3, QueueSame
    DEF Sleeps, Leaves, Sets, Steps, SetsLt, SchedInv, OwnersAgree
  <2>4. ASSUME NEW lt \in Lthreads, Sleeps0(s, lt) PROVE SchedInv'
    BY <1>0, <2>4, QueueSame
    DEF Sleeps0, Leaves, Sets, Steps, SetsLt, SchedInv, OwnersAgree
  <2>5. ASSUME NEW lt \in Lthreads, WaitsFd(s, lt) PROVE SchedInv'
    BY <1>0, <2>5, QueueSame
    DEF WaitsFd, Leaves, Sets, Steps, SchedInv, OwnersAgree
  <2>6. ASSUME NEW lt \in Lthreads, CondWaits(s, lt) PROVE SchedInv'
    BY <1>0, <2>6, QueueSame
    DEF CondWaits, Leaves, Sets, Steps, SetsLt, SchedInv, OwnersAgree
  <2>7. ASSUME NEW lt \in Lthreads, NEW how \in {"exited", "returned"}, Finishes(s, lt, how)
        PROVE  SchedInv'
    BY <1>0, <2>7, QueueSame
    DEF Finishes, Leaves, Sets, Steps, SetsLt, SchedInv, OwnersAgree
  <2>8. ASSUME NEW lt \in Lthreads, Signals(s, lt) PROVE SchedInv'
    BY <1>0, <2>8, QueueSame DEF Signals, Sets, Steps, SchedInv, OwnersAgree
  <2>9. ASSUME NEW t \in Schedulers, NEW lt \in Lthreads, Wakes(s, t, lt)
        PROVE  SchedInv'
    <3>1. \A u \in Schedulers :
            \A x : x \in Queue(u)' => x \in Queue(u) \/ (u = t /\ x = lt)
      BY <2>9, QueueSame, Zenon DEF Wakes, Pushed, Marks, Pushes, Adds
    <3>2. /\ sched[lt] = t /\ pc'[s] = "user"
          /\ \A u \in Schedulers : u # s =>
               pc'[u] = pc[u] /\ wakee'[u] = wakee[u] /\ wsched'[u] = wsched[u]
          /\ UNCHANGED <<sleeping, current_lthread, result, sched, poller_pc, event_lt,
                         event_sched>>
      BY <2>9, Zenon DEF Wakes, Pushed, Sets, Steps
    <3> QED
      BY <1>0, <3>1, <3>2 DEF SchedInv, OwnersAgree
  <2> QED
    BY <1>3, <2>1, <2>2, <2>3, <2>4, <2>5, <2>6, <2>7, <2>8, <2>9, Zenon DEF
       UserEffect
<1>4. CASE OtherEffect
  <2>1. ASSUME NEW lt \in Lthreads, Descheds(lt) PROVE SchedInv'
    BY <1>0, <2>1, QueueSame, Zenon DEF Descheds, SchedInv, OwnersAgree
  <2>2. ASSUME NEW t \in Schedulers, NEW lt \in Lthreads, Arrives(t, lt)
        PROVE  SchedInv'
    <3>1. \A u \in Schedulers :
            \A x : x \in Queue(u)' => x \in Queue(u) \/ (u = t /\ x = lt)
      BY <2>2, QueueSame, Zenon DEF Arrives, Pushed, Marks, Pushes, Adds
    <3> QED
      BY <1>0, <2>2, <3>1, Zenon
      DEF Arrives, Pushed, Sets, Steps, SetsLt, SchedInv, OwnersAgree
  <2>3. CASE Ends
    BY <1>0, <2>3, QueueSame, Zenon DEF Ends, SchedInv, OwnersAgree
  <2> QED
    BY <1>4, <2>1, <2>2, <2>3, Zenon DEF OtherEffect
<1> QED
  BY <1>1, <1>2, <1>3, <1>4, Zenon DEF Effect, LoopEffect

\* Every step keeps the tie between a program counter and the flags other threads
\* read: block_state is IS_BLOCKING, and asleep[] TRUE, just where a wake-up has
\* to signal the condition variable or to cancel the sleep.
LEMMA PcStep ==
  ASSUME IInv, Effect
  PROVE  PcInv'
<1>0. PcInv
  BY Zenon DEF IInv
<1>1. ASSUME NEW s \in Schedulers, WorkEffect(s) PROVE PcInv'
  <2>1. CASE NoneExpired(s)
    BY <1>0, <2>1, Zenon DEF NoneExpired, Sets, Steps, PcInv
  <2>2. ASSUME NEW lt \in Lthreads, Expired(s, lt) PROVE PcInv'
    BY <1>0, <2>2 DEF Expired, Sets, Steps, Warned, PcInv
  <2>3. ASSUME NEW t \in Schedulers, NEW lt \in Lthreads, Takes(s, t, lt)
        PROVE  PcInv'
    BY <1>0, <2>3, NullAssumption DEF Takes, Sets, Searching, Locked, PcInv
  <2>4. ASSUME NEW label \in {"steal", "pop_blocking", "block"}, Searches(s, label)
        PROVE  PcInv'
    BY <1>0, <2>4, Zenon DEF Searches, Sets, Searching, PcInv
  <2>5. CASE PassAlone(s, "wake_neighbor", "adopt")
    BY <1>0, <2>5, Zenon DEF PassAlone, PassFrame, Sets, Steps, PcInv
  <2>6. CASE PassAlone(s, "exit_wake", "done")
    BY <1>0, <2>6, Zenon DEF PassAlone, PassFrame, Sets, Steps, PcInv
  <2>7. ASSUME NEW t \in Schedulers, PassWake(s, t, "wake_neighbor", "adopt")
        PROVE  PcInv'
    BY <1>0, <2>7
    DEF PassWake, PassFrame, Sets, Steps, Locked, Woke, Signalled, Warned, PcInv
  <2>8. ASSUME NEW t \in Schedulers, PassWake(s, t, "exit_wake", "done")
        PROVE  PcInv'
    BY <1>0, <2>8
    DEF PassWake, PassFrame, Sets, Steps, Locked, Woke, Signalled, Warned, PcInv
  <2>9. ASSUME NEW lt \in Lthreads, Adopts(s, lt) PROVE PcInv'
    BY <1>0, <2>9, NullAssumption, Zenon DEF Adopts, Sets, Steps, PcInv
  <2>10. ASSUME NEW lt \in Lthreads, Resumes(s, lt) PROVE PcInv'
    BY <1>0, <2>10, NullAssumption DEF Resumes, Sets, Steps, PcInv
  <2>11. ASSUME NEW lt \in Lthreads, TailPlain(s, lt) PROVE PcInv'
    BY <1>0, <2>11, NullAssumption DEF TailPlain, TailFrame, Sets, Steps, PcInv
  <2>12. ASSUME NEW lt \in Lthreads, TailPush(s, lt) PROVE PcInv'
    BY <1>0, <2>12, NullAssumption DEF TailPush, TailFrame, Sets, Steps, PcInv
  <2> QED
    BY <1>1, <2>1, <2>2, <2>3, <2>4, <2>5, <2>6, <2>7, <2>8, <2>9, <2>10,
       <2>11, <2>12, Zenon DEF WorkEffect, Passes
<1>2. ASSUME NEW s \in Schedulers, BlockingEffect(s) PROVE PcInv'
  <2>1. CASE GoesRound(s)
    BY <1>0, <2>1, Zenon DEF GoesRound, BlockFrame, Sets, Steps, PcInv
  <2>2. ASSUME NEW label \in {"begin_deep_sleep", "timed_wait"}, Commits(s, label)
        PROVE  PcInv'
    BY <1>0, <2>2, Zenon DEF Commits, BlockFrame, Sets, Steps, PcInv
  <2>3. CASE FallsAsleep(s)
    BY <1>0, <2>3, Zenon DEF FallsAsleep, Sets, Steps, PcInv
  <2>4. CASE LastAsleep(s)
    BY <1>0, <2>4 DEF LastAsleep, Sets, Steps, PcInv
  <2>5. ASSUME NEW from \in {"deep_wait", "timed_wait"}, Returns(s, from)
        PROVE  PcInv'
    BY <1>0, <2>5 DEF Returns, Sets, Steps, PcInv
  <2> QED
    BY <1>2, <2>1, <2>2, <2>3, <2>4, <2>5, Zenon DEF BlockingEffect
<1>3. ASSUME NEW s \in Schedulers, UserEffect(s) PROVE PcInv'
  <2>1. ASSUME NEW lt \in Lthreads, Creates(s, lt) PROVE PcInv'
    BY <1>0, <2>1, Zenon DEF Creates, Sets, Warned, PcInv
  <2>2. ASSUME NEW lt \in Lthreads, Yields(s, lt) PROVE PcInv'
    BY <1>0, <2>2, Zenon DEF Yields, Leaves, Sets, Steps, PcInv
  <2>3. ASSUME NEW lt \in Lthreads, Sleeps(s, lt) PROVE PcInv'
    BY <1>0, <2>3 DEF Sleeps, Leaves, Sets, Steps, PcInv
  <2>4. ASSUME NEW lt \in Lthreads, Sleeps0(s, lt) PROVE PcInv'
    BY <1>0, <2>4, Zenon DEF Sleeps0, Leaves, Sets, Steps, PcInv
  <2>5. ASSUME NEW lt \in Lthreads, WaitsFd(s, lt) PROVE PcInv'
    BY <1>0, <2>5, Zenon DEF WaitsFd, Leaves, Sets, Steps, PcInv
  <2>6. ASSUME NEW lt \in Lthreads, CondWaits(s, lt) PROVE PcInv'
    BY <1>0, <2>6 DEF CondWaits, Leaves, Sets, Steps, PcInv
  <2>7. ASSUME NEW lt \in Lthreads, NEW how \in {"exited", "returned"}, Finishes(s, lt, how)
        PROVE  PcInv'
    BY <1>0, <2>7 DEF Finishes, Leaves, Sets, Steps, PcInv
  <2>8. ASSUME NEW lt \in Lthreads, Signals(s, lt) PROVE PcInv'
    BY <1>0, <2>8, NullAssumption DEF Signals, Sets, Steps, PcInv
  <2>9. ASSUME NEW t \in Schedulers, NEW lt \in Lthreads, Wakes(s, t, lt)
        PROVE  PcInv'
    <3>1. CASE Signalled(t)
      BY <1>0, <2>9, <3>1 DEF Wakes, Pushed, Sets, Steps, Locked, Signalled, PcInv
    <3>2. CASE Warned(t)
      BY <1>0, <2>9, <3>2 DEF Wakes, Pushed, Sets, Steps, Locked, Warned, PcInv
    <3> QED
      BY <2>9, <3>1, <3>2, Zenon DEF Wakes, Pushed, Woke
  <2> QED
    BY <1>3, <2>1, <2>2, <2>3, <2>4, <2>5, <2>6, <2>7, <2>8, <2>9, Zenon DEF
       UserEffect
<1>4. CASE OtherEffect
  <2>1. ASSUME NEW lt \in Lthreads, Descheds(lt) PROVE PcInv'
    BY <1>0, <2>1, Zenon DEF Descheds, PcInv
  <2>2. ASSUME NEW t \in Schedulers, NEW lt \in Lthreads, Arrives(t, lt)
        PROVE  PcInv'
    <3>1. CASE Signalled(t)
      BY <1>0, <2>2, <3>1, Zenon DEF Arrives, Pushed, Sets, Locked, Signalled, PcInv
    <3>2. CASE Warned(t)
      BY <1>0, <2>2, <3>2, Zenon DEF Arrives, Pushed, Sets, Locked, Warned, PcInv
    <3> QED
      BY <2>2, <3>1, <3>2, Zenon DEF Arrives, Pushed, Woke
  <2>3. CASE Ends
    BY <1>0, <2>3, Zenon DEF Ends, PcInv
  <2> QED
    BY <1>4, <2>1, <2>2, <2>3, Zenon DEF OtherEffect
<1> QED
  BY <1>1, <1>2, <1>3, <1>4, Zenon DEF Effect, LoopEffect

\* What a scheduler saw before it blocks stays so: a push after its last look
\* either warns it, and it goes round again, or signals it.
LEMMA BlockStep ==
  ASSUME IInv, Effect
  PROVE  BlockInv'
<1>0. PcInv /\ BlockInv
  BY Zenon DEF IInv
<1>a. \A u \in Schedulers :
        pc[u] \in {"begin_deep_sleep", "deep_wait", "timed_wait"}
          <=> block_state[u] = "IS_BLOCKING"
  BY <1>0, Zenon DEF PcInv
<1>b. BlockInv
  BY <1>0, Zenon
<1>1. ASSUME NEW s \in Schedulers, WorkEffect(s) PROVE BlockInv'
  <2>1. CASE NoneExpired(s)
    BY <1>0, <2>1, Zenon DEF NoneExpired, Sets, Steps, BlockInv, sched_isdone
  <2>2. ASSUME NEW lt \in Lthreads, Expired(s, lt) PROVE BlockInv'
    <3>1. \A u \in Schedulers : u # s => ready'[u] = ready[u]
      BY <2>2, Zenon DEF Expired, Adds
    <3> QED
      BY <1>a, <1>b, <2>2, <3>1
      DEF Expired, Sets, Steps, Warned, BlockInv, sched_isdone
  <2>3. ASSUME NEW t \in Schedulers, NEW lt \in Lthreads, Takes(s, t, lt)
        PROVE  BlockInv'
    BY <1>0, <2>3
    DEF Takes, Sets, Searching, Locked, BlockInv, sched_isdone, Removes
  <2>4. ASSUME NEW label \in {"steal", "pop_blocking", "block"}, Searches(s, label)
        PROVE  BlockInv'
    BY <1>0, <2>4, Zenon DEF Searches, Sets, Searching, BlockInv, sched_isdone
  <2>5. CASE PassAlone(s, "wake_neighbor", "adopt")
    BY <1>0, <2>5, Zenon DEF PassAlone, PassFrame, Sets, Steps, BlockInv, sched_isdone
  <2>6. CASE PassAlone(s, "exit_wake", "done")
    BY <1>0, <2>6, Zenon DEF PassAlone, PassFrame, Sets, Steps, BlockInv, sched_isdone
  <2>7. ASSUME NEW t \in Schedulers, PassWake(s, t, "wake_neighbor", "adopt")
        PROVE  BlockInv'
    <3>0. UNCHANGED <<ready, sleeping, current_lthread>>
      BY <2>7, Zenon DEF PassWake, PassFrame
    <3>1. CASE Signalled(t)
      BY <1>a, <1>b, <2>7, <3>0, <3>1
      DEF PassWake, PassFrame, Sets, Steps, Locked, Signalled, BlockInv,
          sched_isdone
    <3>2. CASE Warned(t)
      BY <1>a, <1>b, <2>7, <3>0, <3>2
      DEF PassWake, PassFrame, Sets, Steps, Locked, Warned, BlockInv,
          sched_isdone
    <3> QED
      BY <2>7, <3>1, <3>2, Zenon DEF PassWake, Woke
  <2>8. ASSUME NEW t \in Schedulers, PassWake(s, t, "exit_wake", "done")
        PROVE  BlockInv'
    <3>0. UNCHANGED <<ready, sleeping, current_lthread>>
      BY <2>8, Zenon DEF PassWake, PassFrame
    <3>1. CASE Signalled(t)
      BY <1>a, <1>b, <2>8, <3>0, <3>1
      DEF PassWake, PassFrame, Sets, Steps, Locked, Signalled, BlockInv,
          sched_isdone
    <3>2. CASE Warned(t)
      BY <1>a, <1>b, <2>8, <3>0, <3>2
      DEF PassWake, PassFrame, Sets, Steps, Locked, Warned, BlockInv,
          sched_isdone
    <3> QED
      BY <2>8, <3>1, <3>2, Zenon DEF PassWake, Woke
  <2>9. ASSUME NEW lt \in Lthreads, Adopts(s, lt) PROVE BlockInv'
    BY <1>0, <2>9, Zenon DEF Adopts, Sets, Steps, BlockInv, sched_isdone
  <2>10. ASSUME NEW lt \in Lthreads, Resumes(s, lt) PROVE BlockInv'
    BY <1>0, <2>10, Zenon DEF Resumes, Sets, Steps, BlockInv, sched_isdone
  <2>11. ASSUME NEW lt \in Lthreads, TailPlain(s, lt) PROVE BlockInv'
    BY <1>0, <2>11, Zenon DEF TailPlain, TailFrame, Sets, Steps, BlockInv, sched_isdone
  <2>12. ASSUME NEW lt \in Lthreads, TailPush(s, lt) PROVE BlockInv'
    <3>1. \A u \in Schedulers : u # s => ready'[u] = ready[u]
      BY <2>12, Zenon DEF TailPush, Adds
    <3> QED
      BY <1>a, <1>b, <2>12, <3>1
      DEF TailPush, TailFrame, Sets, Steps, BlockInv, sched_isdone
  <2> QED
    BY <1>1, <2>1, <2>2, <2>3, <2>4, <2>5, <2>6, <2>7, <2>8, <2>9, <2>10,
       <2>11, <2>12, Zenon DEF WorkEffect, Passes
<1>2. ASSUME NEW s \in Schedulers, BlockingEffect(s) PROVE BlockInv'
  <2>1. CASE GoesRound(s)
    BY <1>0, <2>1, Zenon DEF GoesRound, BlockFrame, Sets, Steps, BlockInv, sched_isdone
  <2>2. ASSUME NEW label \in {"begin_deep_sleep", "timed_wait"}, Commits(s, label)
        PROVE  BlockInv'
    BY <1>0, <2>2, Zenon DEF Commits, BlockFrame, Sets, Steps, BlockInv, sched_isdone
  <2>3. CASE FallsAsleep(s)
    BY <1>0, <2>3, Zenon DEF FallsAsleep, Sets, Steps, BlockInv, sched_isdone
  <2>4. CASE LastAsleep(s)
    BY <1>0, <2>4, Zenon DEF LastAsleep, Sets, Steps, BlockInv, sched_isdone
  <2>5. ASSUME NEW from \in {"deep_wait", "timed_wait"}, Returns(s, from)
        PROVE  BlockInv'
    BY <1>0, <2>5, Zenon DEF Returns, Sets, Steps, BlockInv, sched_isdone
  <2> QED
    BY <1>2, <2>1, <2>2, <2>3, <2>4, <2>5, Zenon DEF BlockingEffect
<1>3. ASSUME NEW s \in Schedulers, UserEffect(s) PROVE BlockInv'
  <2>1. ASSUME NEW lt \in Lthreads, Creates(s, lt) PROVE BlockInv'
    <3>1. \A u \in Schedulers : u # s => ready'[u] = ready[u]
      BY <2>1, Zenon DEF Creates, Adds
    <3> QED
      BY <1>a, <1>b, <2>1, <3>1, Zenon DEF Creates, Sets, Warned, BlockInv, sched_isdone
  <2>2. ASSUME NEW lt \in Lthreads, Yields(s, lt) PROVE BlockInv'
    BY <1>0, <2>2, Zenon DEF Yields, Leaves, Sets, Steps, BlockInv, sched_isdone
  <2>3. ASSUME NEW lt \in Lthreads, Sleeps(s, lt) PROVE BlockInv'
    BY <1>0, <2>3 DEF Sleeps, Leaves, Sets, Steps, BlockInv, sched_isdone
  <2>4. ASSUME NEW lt \in Lthreads, Sleeps0(s, lt) PROVE BlockInv'
    BY <1>0, <2>4, Zenon DEF Sleeps0, Leaves, Sets, Steps, BlockInv, sched_isdone
  <2>5. ASSUME NEW lt \in Lthreads, WaitsFd(s, lt) PROVE BlockInv'
    BY <1>0, <2>5, Zenon DEF WaitsFd, Leaves, Sets, Steps, BlockInv, sched_isdone
  <2>6. ASSUME NEW lt \in Lthreads, CondWaits(s, lt) PROVE BlockInv'
    BY <1>0, <2>6, Zenon DEF CondWaits, Leaves, Sets, Steps, BlockInv, sched_isdone
  <2>7. ASSUME NEW lt \in Lthreads, NEW how \in {"exited", "returned"}, Finishes(s, lt, how)
        PROVE  BlockInv'
    BY <1>0, <2>7, Zenon DEF Finishes, Leaves, Sets, Steps, BlockInv, sched_isdone
  <2>8. ASSUME NEW lt \in Lthreads, Signals(s, lt) PROVE BlockInv'
    BY <1>0, <2>8, Zenon DEF Signals, Sets, Steps, BlockInv, sched_isdone
  <2>9. ASSUME NEW t \in Schedulers, NEW lt \in Lthreads, Wakes(s, t, lt)
        PROVE  BlockInv'
    <3>0. \A u \in Schedulers : u # t => ready'[u] = ready[u]
      BY <2>9, Zenon DEF Wakes, Pushed, Marks, Pushes, Adds
    <3>a. /\ pc[s] = "wakeup" /\ pc'[s] = "user"
          /\ \A u \in Schedulers : u # s => pc'[u] = pc[u]
          /\ UNCHANGED <<sleeping, current_lthread>>
      BY <2>9, Zenon DEF Wakes, Pushed, Sets, Steps
    <3>1. CASE Signalled(t)
      <4>1. /\ signaled'[t] /\ UNCHANGED block_state /\ pc[t] # "block"
            /\ \A u \in Schedulers : u # t => signaled'[u] = signaled[u]
        BY <1>a, <3>1, Zenon DEF Signalled, Sets
      <4> QED
        BY <1>b, <3>0, <3>a, <4>1 DEF BlockInv, sched_isdone
    <3>2. CASE Warned(t)
      <4>1. /\ block_state'[t] = "WONT_BLOCK" /\ UNCHANGED signaled
            /\ pc[t] \notin {"begin_deep_sleep", "deep_wait", "timed_wait"}
            /\ \A u \in Schedulers : u # t => block_state'[u] = block_state[u]
        BY <1>a, <3>2, Zenon DEF Warned, Sets
      <4> QED
        BY <1>b, <3>0, <3>a, <4>1, Zenon DEF BlockInv, sched_isdone
    <3> QED
      BY <2>9, <3>1, <3>2, Zenon DEF Wakes, Pushed, Woke
  <2> QED
    BY <1>3, <2>1, <2>2, <2>3, <2>4, <2>5, <2>6, <2>7, <2>8, <2>9, Zenon DEF
       UserEffect
<1>4. CASE OtherEffect
  <2>1. ASSUME NEW lt \in Lthreads, Descheds(lt) PROVE BlockInv'
    BY <1>0, <2>1, Zenon DEF Descheds, BlockInv, sched_isdone
  <2>2. ASSUME NEW t \in Schedulers, NEW lt \in Lthreads, Arrives(t, lt)
        PROVE  BlockInv'
    <3>0. \A u \in Schedulers : u # t => ready'[u] = ready[u]
      BY <2>2, Zenon DEF Arrives, Pushed, Marks, Pushes, Adds
    <3>1. CASE Signalled(t)
      BY <1>a, <1>b, <2>2, <3>0, <3>1
      DEF Arrives, Pushed, Sets, Locked, Signalled, BlockInv, sched_isdone
    <3>2. CASE Warned(t)
      BY <1>a, <1>b, <2>2, <3>0, <3>2
      DEF Arrives, Pushed, Sets, Locked, Warned, BlockInv, sched_isdone
    <3> QED
      BY <2>2, <3>1, <3>2, Zenon DEF Arrives, Pushed, Woke
  <2>3. CASE Ends
    <3>1. UNCHANGED <<pc, ready, sleeping, current_lthread, block_state, signaled>>
      BY <2>3, Zenon DEF Ends
    <3> QED
      BY <1>0, <3>1, Zenon DEF BlockInv, sched_isdone
  <2> QED
    BY <1>4, <2>1, <2>2, <2>3, Zenon DEF OtherEffect
<1> QED
  BY <1>1, <1>2, <1>3, <1>4, Zenon DEF Effect, LoopEffect

\* sleep_usecs is set only between lthread_sleep() and the switch it ends with.
LEMMA SleepStep ==
  ASSUME IInv, Effect
  PROVE  SleepInv'
<1>0. SleepInv /\ SchedInv /\ BlockInv
  BY Zenon DEF IInv
<1>1. ASSUME NEW s \in Schedulers, WorkEffect(s) PROVE SleepInv'
  <2>1. CASE NoneExpired(s)
    BY <1>0, <2>1, NullAssumption, Zenon DEF NoneExpired, Sets, Steps, SleepInv
  <2>2. ASSUME NEW lt \in Lthreads, Expired(s, lt) PROVE SleepInv'
    BY <1>0, <2>2, NullAssumption
    DEF Expired, Sets, Steps, SleepInv, SchedInv, OwnersAgree, BlockInv
  <2>3. ASSUME NEW t \in Schedulers, NEW lt \in Lthreads, Takes(s, t, lt)
        PROVE  SleepInv'
    BY <1>0, <2>3, NullAssumption, Zenon DEF Takes, Sets, Searching, SleepInv
  <2>4. ASSUME NEW label \in {"steal", "pop_blocking", "block"}, Searches(s, label)
        PROVE  SleepInv'
    BY <1>0, <2>4, NullAssumption, Zenon DEF Searches, Sets, Searching, SleepInv
  <2>5. CASE PassAlone(s, "wake_neighbor", "adopt")
    BY <1>0, <2>5, NullAssumption, Zenon DEF PassAlone, PassFrame, Sets, Steps, SleepInv
  <2>6. CASE PassAlone(s, "exit_wake", "done")
    BY <1>0, <2>6, NullAssumption, Zenon DEF PassAlone, PassFrame, Sets, Steps, SleepInv
  <2>7. ASSUME NEW t \in Schedulers, PassWake(s, t, "wake_neighbor", "adopt")
        PROVE  SleepInv'
    BY <1>0, <2>7, NullAssumption, Zenon DEF PassWake, PassFrame, Sets, Steps, SleepInv
  <2>8. ASSUME NEW t \in Schedulers, PassWake(s, t, "exit_wake", "done")
        PROVE  SleepInv'
    BY <1>0, <2>8, NullAssumption, Zenon DEF PassWake, PassFrame, Sets, Steps, SleepInv
  <2>9. ASSUME NEW lt \in Lthreads, Adopts(s, lt) PROVE SleepInv'
    BY <1>0, <2>9, NullAssumption, Zenon DEF Adopts, Sets, Steps, SetsLt, SleepInv
  <2>10. ASSUME NEW lt \in Lthreads, Resumes(s, lt) PROVE SleepInv'
    BY <1>0, <2>10, NullAssumption
    DEF Resumes, Sets, Steps, SleepInv, SchedInv, OwnersAgree, BlockInv
  <2>11. ASSUME NEW lt \in Lthreads, TailPlain(s, lt) PROVE SleepInv'
    BY <1>0, <2>11, NullAssumption
    DEF TailPlain, TailFrame, Sets, Steps, SetsLt, SleepInv, SchedInv,
        OwnersAgree, BlockInv
  <2>12. ASSUME NEW lt \in Lthreads, TailPush(s, lt) PROVE SleepInv'
    BY <1>0, <2>12, NullAssumption
    DEF TailPush, TailFrame, Sets, Steps, SetsLt, SleepInv, SchedInv,
        OwnersAgree, BlockInv
  <2> QED
    BY <1>1, <2>1, <2>2, <2>3, <2>4, <2>5, <2>6, <2>7, <2>8, <2>9, <2>10,
       <2>11, <2>12, Zenon DEF WorkEffect, Passes
<1>2. ASSUME NEW s \in Schedulers, BlockingEffect(s) PROVE SleepInv'
  <2>1. CASE GoesRound(s)
    BY <1>0, <2>1, NullAssumption, Zenon
    DEF GoesRound, BlockFrame, Sets, Steps, SleepInv
  <2>2. ASSUME NEW label \in {"begin_deep_sleep", "timed_wait"}, Commits(s, label)
        PROVE  SleepInv'
    BY <1>0, <2>2, NullAssumption, Zenon DEF Commits, BlockFrame, Sets, Steps, SleepInv
  <2>3. CASE FallsAsleep(s)
    BY <1>0, <2>3, NullAssumption, Zenon DEF FallsAsleep, Sets, Steps, SleepInv
  <2>4. CASE LastAsleep(s)
    BY <1>0, <2>4, NullAssumption, Zenon DEF LastAsleep, Sets, Steps, SleepInv
  <2>5. ASSUME NEW from \in {"deep_wait", "timed_wait"}, Returns(s, from)
        PROVE  SleepInv'
    BY <1>0, <2>5, NullAssumption, Zenon DEF Returns, Sets, Steps, SleepInv
  <2> QED
    BY <1>2, <2>1, <2>2, <2>3, <2>4, <2>5, Zenon DEF BlockingEffect
<1>3. ASSUME NEW s \in Schedulers, UserEffect(s) PROVE SleepInv'
  <2>1. ASSUME NEW lt \in Lthreads, Creates(s, lt) PROVE SleepInv'
    BY <1>0, <2>1, NullAssumption, Zenon DEF Creates, SetsLt, Sets, SleepInv
  <2>2. ASSUME NEW lt \in Lthreads, Yields(s, lt) PROVE SleepInv'
    BY <1>0, <2>2, NullAssumption, Zenon
    DEF Yields, Leaves, Sets, Steps, SetsLt, SleepInv
  <2>3. ASSUME NEW lt \in Lthreads, Sleeps(s, lt) PROVE SleepInv'
    BY <1>0, <2>3, NullAssumption, Zenon
    DEF Sleeps, Leaves, Sets, Steps, SetsLt, SleepInv, Deadline
  <2>4. ASSUME NEW lt \in Lthreads, Sleeps0(s, lt) PROVE SleepInv'
    BY <1>0, <2>4, NullAssumption, Zenon
    DEF Sleeps0, Leaves, Sets, Steps, SetsLt, SleepInv
  <2>5. ASSUME NEW lt \in Lthreads, WaitsFd(s, lt) PROVE SleepInv'
    BY <1>0, <2>5, NullAssumption, Zenon DEF WaitsFd, Leaves, Sets, Steps, SleepInv
  <2>6. ASSUME NEW lt \in Lthreads, CondWaits(s, lt) PROVE SleepInv'
    BY <1>0, <2>6, NullAssumption, Zenon
    DEF CondWaits, Leaves, Sets, Steps, SetsLt, SleepInv
  <2>7. ASSUME NEW lt \in Lthreads, NEW how \in {"exited", "returned"}, Finishes(s, lt, how)
        PROVE  SleepInv'
    BY <1>0, <2>7, NullAssumption, Zenon
    DEF Finishes, Leaves, Sets, Steps, SetsLt, SleepInv
  <2>8. ASSUME NEW lt \in Lthreads, Signals(s, lt) PROVE SleepInv'
    BY <1>0, <2>8, NullAssumption, Zenon DEF Signals, Sets, Steps, SleepInv
  <2>9. ASSUME NEW t \in Schedulers, NEW lt \in Lthreads, Wakes(s, t, lt)
        PROVE  SleepInv'
    BY <1>0, <2>9, NullAssumption, Zenon
    DEF Wakes, Pushed, Marks, Pushes, Sets, Steps, SetsLt, SleepInv
  <2> QED
    BY <1>3, <2>1, <2>2, <2>3, <2>4, <2>5, <2>6, <2>7, <2>8, <2>9, Zenon DEF
       UserEffect
<1>4. CASE OtherEffect
  <2>1. ASSUME NEW lt \in Lthreads, Descheds(lt) PROVE SleepInv'
    BY <1>0, <2>1, NullAssumption, Zenon DEF Descheds, SleepInv
  <2>2. ASSUME NEW t \in Schedulers, NEW lt \in Lthreads, Arrives(t, lt)
        PROVE  SleepInv'
    BY <1>0, <2>2, NullAssumption, Zenon
    DEF Arrives, Pushed, Marks, Pushes, Sets, SetsLt, SleepInv
  <2>3. CASE Ends
    BY <1>0, <2>3, NullAssumption, Zenon DEF Ends, SleepInv
  <2> QED
    BY <1>4, <2>1, <2>2, <2>3, Zenon DEF OtherEffect
<1> QED
  BY <1>1, <1>2, <1>3, <1>4, Zenon DEF Effect, LoopEffect

\* No lthread comes to be on a queue, in hand or being woken twice.
LEMMA OnceStep ==
  ASSUME IInv, Effect
  PROVE  OnceInv'
<1>0. OnceInv /\ PlaceInv
  BY Zenon DEF IInv
<1>1. ASSUME NEW s \in Schedulers, WorkEffect(s) PROVE OnceInv'
  <2>1. CASE NoneExpired(s)
    BY <1>0, <2>1, DistinctSame, Zenon DEF NoneExpired, Sets, Steps, OnceInv
  <2>2. ASSUME NEW lt \in Lthreads, Expired(s, lt) PROVE OnceInv'
    BY <1>0, <2>2
    DEF Expired, Sets, Steps, OnceInv, Adds, PlaceInv, OnePlace, Queued, InHand,
        Current, Registered, Asleep, WakePending
  <2>3. ASSUME NEW t \in Schedulers, NEW lt \in Lthreads, Takes(s, t, lt)
        PROVE  OnceInv'
    <3>1. \A u \in Schedulers : result[u] # lt
      BY <1>0, <2>3, Zenon DEF Takes, Removes, PlaceInv, OnePlace, Queued, InHand
    <3> QED
      BY <1>0, <2>3, <3>1 DEF Takes, Sets, OnceInv, Removes
  <2>4. ASSUME NEW label \in {"steal", "pop_blocking", "block"}, Searches(s, label)
        PROVE  OnceInv'
    BY <1>0, <2>4, DistinctSame, Zenon DEF Searches, Sets, OnceInv
  <2>5. CASE PassAlone(s, "wake_neighbor", "adopt")
    BY <1>0, <2>5, DistinctSame, Zenon DEF PassAlone, PassFrame, Sets, Steps, OnceInv
  <2>6. CASE PassAlone(s, "exit_wake", "done")
    BY <1>0, <2>6, DistinctSame, Zenon DEF PassAlone, PassFrame, Sets, Steps, OnceInv
  <2>7. ASSUME NEW t \in Schedulers, PassWake(s, t, "wake_neighbor", "adopt")
        PROVE  OnceInv'
    BY <1>0, <2>7, DistinctSame, Zenon DEF PassWake, PassFrame, Sets, Steps, OnceInv
  <2>8. ASSUME NEW t \in Schedulers, PassWake(s, t, "exit_wake", "done")
        PROVE  OnceInv'
    BY <1>0, <2>8, DistinctSame, Zenon DEF PassWake, PassFrame, Sets, Steps, OnceInv
  <2>9. ASSUME NEW lt \in Lthreads, Adopts(s, lt) PROVE OnceInv'
    BY <1>0, <2>9, DistinctSame, Zenon DEF Adopts, Sets, Steps, SetsLt, OnceInv
  <2>10. ASSUME NEW lt \in Lthreads, Resumes(s, lt) PROVE OnceInv'
    BY <1>0, <2>10, DistinctSame, NullAssumption
    DEF Resumes, Sets, Steps, OnceInv
  <2>11. ASSUME NEW lt \in Lthreads, TailPlain(s, lt) PROVE OnceInv'
    BY <1>0, <2>11, DistinctSame, Zenon
    DEF TailPlain, TailFrame, Sets, Steps, SetsLt, OnceInv
  <2>12. ASSUME NEW lt \in Lthreads, TailPush(s, lt) PROVE OnceInv'
    BY <1>0, <2>12
    DEF TailPush, TailFrame, Sets, Steps, SetsLt, OnceInv, Adds, PlaceInv,
        OnePlace, Queued, InHand, Current, Registered, Asleep, WakePending
  <2> QED
    BY <1>1, <2>1, <2>2, <2>3, <2>4, <2>5, <2>6, <2>7, <2>8, <2>9, <2>10,
       <2>11, <2>12, Zenon DEF WorkEffect, Passes
<1>2. ASSUME NEW s \in Schedulers, BlockingEffect(s) PROVE OnceInv'
  <2>1. CASE GoesRound(s)
    BY <1>0, <2>1, DistinctSame, Zenon DEF GoesRound, BlockFrame, Sets, Steps, OnceInv
  <2>2. ASSUME NEW label \in {"begin_deep_sleep", "timed_wait"}, Commits(s, label)
        PROVE  OnceInv'
    BY <1>0, <2>2, DistinctSame, Zenon DEF Commits, BlockFrame, Sets, Steps, OnceInv
  <2>3. CASE FallsAsleep(s)
    BY <1>0, <2>3, DistinctSame, Zenon DEF FallsAsleep, Sets, Steps, OnceInv
  <2>4. CASE LastAsleep(s)
    BY <1>0, <2>4, DistinctSame, Zenon DEF LastAsleep, Sets, Steps, OnceInv
  <2>5. ASSUME NEW from \in {"deep_wait", "timed_wait"}, Returns(s, from)
        PROVE  OnceInv'
    BY <1>0, <2>5, DistinctSame, Zenon DEF Returns, Sets, Steps, OnceInv
  <2> QED
    BY <1>2, <2>1, <2>2, <2>3, <2>4, <2>5, Zenon DEF BlockingEffect
<1>3. ASSUME NEW s \in Schedulers, UserEffect(s) PROVE OnceInv'
  <2>1. ASSUME NEW lt \in Lthreads, Creates(s, lt) PROVE OnceInv'
    BY <1>0, <2>1
    DEF Creates, SetsLt, Sets, OnceInv, Adds, PlaceInv, OnePlace, Queued, InHand,
        Current, Registered, Asleep, WakePending
  <2>2. ASSUME NEW lt \in Lthreads, Yields(s, lt) PROVE OnceInv'
    BY <1>0, <2>2, DistinctSame, Zenon DEF Yields, Leaves, Sets, Steps, SetsLt, OnceInv
  <2>3. ASSUME NEW lt \in Lthreads, Sleeps(s, lt) PROVE OnceInv'
    BY <1>0, <2>3, DistinctSame, Zenon DEF Sleeps, Leaves, Sets, Steps, SetsLt, OnceInv
  <2>4. ASSUME NEW lt \in Lthreads, Sleeps0(s, lt) PROVE OnceInv'
    BY <1>0, <2>4, DistinctSame, Zenon
    DEF Sleeps0, Leaves, Sets, Steps, SetsLt, OnceInv
  <2>5. ASSUME NEW lt \in Lthreads, WaitsFd(s, lt) PROVE OnceInv'
    BY <1>0, <2>5, DistinctSame, Zenon DEF WaitsFd, Leaves, Sets, Steps, OnceInv
  <2>6. ASSUME NEW lt \in Lthreads, CondWaits(s, lt) PROVE OnceInv'
    BY <1>0, <2>6, DistinctSame, Zenon
    DEF CondWaits, Leaves, Sets, Steps, SetsLt, OnceInv
  <2>7. ASSUME NEW lt \in Lthreads, NEW how \in {"exited", "returned"}, Finishes(s, lt, how)
        PROVE  OnceInv'
    BY <1>0, <2>7, DistinctSame, Zenon
    DEF Finishes, Leaves, Sets, Steps, SetsLt, OnceInv
  <2>8. ASSUME NEW lt \in Lthreads, Signals(s, lt) PROVE OnceInv'
    <3>1. \A u \in Schedulers : wakee[u] # lt
      BY <1>0, <2>8, Zenon DEF Signals, PlaceInv, OnePlace, WakePending
    <3> QED
      BY <1>0, <2>8, <3>1, DistinctSame DEF Signals, Sets, OnceInv
  <2>9. ASSUME NEW t \in Schedulers, NEW lt \in Lthreads, Wakes(s, t, lt)
        PROVE  OnceInv'
    <3>1. lt \notin Queue(t)
      BY <1>0, <2>9, Zenon DEF Wakes, PlaceInv, OnePlace, Queued, Registered, WakePending
    <3>2. \A u \in Schedulers : Distinct(ready[u])'
      BY <1>0, <2>9, <3>1, DistinctSame, Zenon DEF Wakes, Pushed, Marks, Pushes, Adds, OnceInv
    <3> QED
      BY <1>0, <2>9, <3>2 DEF Wakes, Sets, OnceInv
  <2> QED
    BY <1>3, <2>1, <2>2, <2>3, <2>4, <2>5, <2>6, <2>7, <2>8, <2>9, Zenon DEF
       UserEffect
<1>4. CASE OtherEffect
  <2>1. ASSUME NEW lt \in Lthreads, Descheds(lt) PROVE OnceInv'
    BY <1>0, <2>1, DistinctSame, Zenon DEF Descheds, OnceInv
  <2>2. ASSUME NEW t \in Schedulers, NEW lt \in Lthreads, Arrives(t, lt)
        PROVE  OnceInv'
    <3>1. lt \notin Queue(t)
      BY <1>0, <2>2, Zenon DEF Arrives, PlaceInv, OnePlace, Queued, Registered, WakePending
    <3>2. \A u \in Schedulers : Distinct(ready[u])'
      BY <1>0, <2>2, <3>1, DistinctSame, Zenon DEF Arrives, Pushed, Marks, Pushes, Adds, OnceInv
    <3> QED
      BY <1>0, <2>2, <3>2, Zenon DEF Arrives, OnceInv
  <2>3. CASE Ends
    BY <1>0, <2>3, DistinctSame, Zenon DEF Ends, OnceInv
  <2> QED
    BY <1>4, <2>1, <2>2, <2>3, Zenon DEF OtherEffect
<1> QED
  BY <1>1, <1>2, <1>3, <1>4, Zenon DEF Effect, LoopEffect

\* The lthread that runs is live and registered nowhere; one that has switched out
\* may be over, and is not yet freed.
LEMMA RunStep ==
  ASSUME IInv, Effect
  PROVE  RunInv'
<1>0. TypeOK /\ PcInv /\ OwnersAgree /\ PlaceInv /\ RunInv
  BY Zenon DEF IInv, SchedInv
<1>a. \A u \in Schedulers : pc[u] \in {"user", "wakeup", "switched"} =>
        current_lthread[u] \in Lthreads
  <2>1. \A u \in Schedulers : current_lthread[u] \in LtOrNull
    BY <1>0, Zenon DEF TypeOK
  <2> QED
    BY <1>0, <2>1, Zenon DEF PcInv, LtOrNull
<1>b. \A u, v \in Schedulers :
        pc[u] \in {"user", "wakeup", "switched"} =>
          (current_lthread[u] = current_lthread[v] => u = v)
  BY <1>0, <1>a, NullAssumption DEF OwnersAgree
<1>1. ASSUME NEW s \in Schedulers, WorkEffect(s) PROVE RunInv'
  <2>1. CASE NoneExpired(s)
    BY <1>0, <2>1, Zenon
    DEF NoneExpired, Sets, Steps, RunInv, Registered, Asleep, WakePending
  <2>2. ASSUME NEW lt \in Lthreads, Expired(s, lt) PROVE RunInv'
    BY <1>0, <2>2, Zenon
    DEF Expired, Sets, Steps, RunInv, Registered, Asleep, WakePending
  <2>3. ASSUME NEW t \in Schedulers, NEW lt \in Lthreads, Takes(s, t, lt)
        PROVE  RunInv'
    BY <1>0, <2>3, Zenon
    DEF Takes, Sets, Searching, RunInv, Registered, Asleep, WakePending
  <2>4. ASSUME NEW label \in {"steal", "pop_blocking", "block"}, Searches(s, label)
        PROVE  RunInv'
    BY <1>0, <2>4, Zenon
    DEF Searches, Sets, Searching, RunInv, Registered, Asleep, WakePending
  <2>5. CASE PassAlone(s, "wake_neighbor", "adopt")
    BY <1>0, <2>5, Zenon
    DEF PassAlone, PassFrame, Sets, Steps, RunInv, Registered, Asleep,
        WakePending
  <2>6. CASE PassAlone(s, "exit_wake", "done")
    BY <1>0, <2>6, Zenon
    DEF PassAlone, PassFrame, Sets, Steps, RunInv, Registered, Asleep,
        WakePending
  <2>7. ASSUME NEW t \in Schedulers, PassWake(s, t, "wake_neighbor", "adopt")
        PROVE  RunInv'
    BY <1>0, <2>7, Zenon
    DEF PassWake, PassFrame, Sets, Steps, RunInv, Registered, Asleep, WakePending
  <2>8. ASSUME NEW t \in Schedulers, PassWake(s, t, "exit_wake", "done")
        PROVE  RunInv'
    BY <1>0, <2>8, Zenon
    DEF PassWake, PassFrame, Sets, Steps, RunInv, Registered, Asleep, WakePending
  <2>9. ASSUME NEW lt \in Lthreads, Adopts(s, lt) PROVE RunInv'
    BY <1>0, <2>9, Zenon
    DEF Adopts, Sets, Steps, SetsLt, RunInv, Registered, Asleep, WakePending
  <2>10. ASSUME NEW lt \in Lthreads, Resumes(s, lt) PROVE RunInv'
    <3>1. life[lt] = "live" /\ ~Registered(lt) /\ ~needs_resched[lt]
      BY <1>0, <2>10, Zenon DEF Resumes, PlaceInv, OnePlace, InHand
    <3> QED
      BY <1>0, <2>10, <3>1 DEF Resumes, Sets, Steps, RunInv, Registered, Asleep, WakePending
  <2>11. ASSUME NEW lt \in Lthreads, TailPlain(s, lt) PROVE RunInv'
    BY <1>0, <2>11, <1>a, <1>b
    DEF TailPlain, TailFrame, Sets, Steps, SetsLt, RunInv, Registered, Asleep,
        WakePending
  <2>12. ASSUME NEW lt \in Lthreads, TailPush(s, lt) PROVE RunInv'
    BY <1>0, <2>12, <1>a, <1>b
    DEF TailPush, TailFrame, Sets, Steps, SetsLt, RunInv, Registered, Asleep,
        WakePending
  <2> QED
    BY <1>1, <2>1, <2>2, <2>3, <2>4, <2>5, <2>6, <2>7, <2>8, <2>9, <2>10,
       <2>11, <2>12, Zenon DEF WorkEffect, Passes
<1>2. ASSUME NEW s \in Schedulers, BlockingEffect(s) PROVE RunInv'
  <2>1. CASE GoesRound(s)
    BY <1>0, <2>1, Zenon
    DEF GoesRound, BlockFrame, Sets, Steps, RunInv, Registered, Asleep,
        WakePending
  <2>2. ASSUME NEW label \in {"begin_deep_sleep", "timed_wait"}, Commits(s, label)
        PROVE  RunInv'
    BY <1>0, <2>2, Zenon
    DEF Commits, BlockFrame, Sets, Steps, RunInv, Registered, Asleep, WakePending
  <2>3. CASE FallsAsleep(s)
    BY <1>0, <2>3, Zenon
    DEF FallsAsleep, Sets, Steps, RunInv, Registered, Asleep, WakePending
  <2>4. CASE LastAsleep(s)
    BY <1>0, <2>4, Zenon
    DEF LastAsleep, Sets, Steps, RunInv, Registered, Asleep, WakePending
  <2>5. ASSUME NEW from \in {"deep_wait", "timed_wait"}, Returns(s, from)
        PROVE  RunInv'
    BY <1>0, <2>5, Zenon
    DEF Returns, Sets, Steps, RunInv, Registered, Asleep, WakePending
  <2> QED
    BY <1>2, <2>1, <2>2, <2>3, <2>4, <2>5, Zenon DEF BlockingEffect
<1>3. ASSUME NEW s \in Schedulers, UserEffect(s) PROVE RunInv'
  <2>1. ASSUME NEW lt \in Lthreads, Creates(s, lt) PROVE RunInv'
    BY <1>0, <2>1, <1>a, <1>b, Zenon
    DEF Creates, SetsLt, Sets, RunInv, Registered, Asleep, WakePending
  <2>2. ASSUME NEW lt \in Lthreads, Yields(s, lt) PROVE RunInv'
    BY <1>0, <2>2, <1>a, <1>b
    DEF Yields, Leaves, Sets, Steps, SetsLt, RunInv, Registered, Asleep,
        WakePending
  <2>3. ASSUME NEW lt \in Lthreads, Sleeps(s, lt) PROVE RunInv'
    BY <1>0, <2>3, <1>a, <1>b
    DEF Sleeps, Leaves, Sets, Steps, SetsLt, RunInv, Registered, Asleep,
        WakePending
  <2>4. ASSUME NEW lt \in Lthreads, Sleeps0(s, lt) PROVE RunInv'
    BY <1>0, <2>4, <1>a, <1>b, Zenon
    DEF Sleeps0, Leaves, Sets, Steps, SetsLt, RunInv, Registered, Asleep,
        WakePending
  <2>5. ASSUME NEW lt \in Lthreads, WaitsFd(s, lt) PROVE RunInv'
    BY <1>0, <2>5, <1>a, <1>b, Zenon
    DEF WaitsFd, Leaves, Sets, Steps, RunInv, Registered, Asleep, WakePending
  <2>6. ASSUME NEW lt \in Lthreads, CondWaits(s, lt) PROVE RunInv'
    BY <1>0, <2>6, <1>a, <1>b, Zenon
    DEF CondWaits, Leaves, Sets, Steps, SetsLt, RunInv, Registered, Asleep,
        WakePending
  <2>7. ASSUME NEW lt \in Lthreads, NEW how \in {"exited", "returned"}, Finishes(s, lt, how)
        PROVE  RunInv'
    BY <1>0, <2>7, <1>a, <1>b, Zenon
    DEF Finishes, Leaves, Sets, Steps, SetsLt, RunInv, Registered, Asleep,
        WakePending
  <2>8. ASSUME NEW lt \in Lthreads, Signals(s, lt) PROVE RunInv'
    <3>1. \A u \in Schedulers :
            pc[u] \in {"user", "wakeup"} => current_lthread[u] # lt
      BY <1>0, <2>8, Zenon DEF Signals, RunInv, Registered
    <3> QED
      BY <1>0, <2>8, <3>1
      DEF Signals, Sets, Steps, RunInv, Registered, Asleep, WakePending
  <2>9. ASSUME NEW t \in Schedulers, NEW lt \in Lthreads, Wakes(s, t, lt)
        PROVE  RunInv'
    <3>1. \A u \in Schedulers :
            pc[u] \in {"user", "wakeup"} => current_lthread[u] # lt
      BY <1>0, <2>9, Zenon DEF Wakes, RunInv, Registered, WakePending
    <3>2. \A u \in Schedulers : pc[u] \in {"user", "wakeup"} =>
            UNCHANGED needs_resched[current_lthread[u]]
      BY <1>0, <1>a, <2>9, <3>1, Zenon DEF Wakes, Pushed, Marks, Pushes, SetsLt
    <3>3. \A u \in Schedulers :
            /\ pc'[u] \in {"user", "wakeup"} => pc[u] \in {"user", "wakeup"}
            /\ pc'[u] = "switched" => pc[u] = "switched"
      BY <2>9, Zenon DEF Wakes, Sets, Steps
    <3>4. \A x \in Lthreads : Registered(x)' => Registered(x)
      BY <2>9, NullAssumption, Zenon DEF Wakes, Sets, Registered, Asleep, WakePending
    <3> QED
      BY <1>0, <1>a, <2>9, <3>2, <3>3, <3>4, Zenon DEF Wakes, RunInv
  <2> QED
    BY <1>3, <2>1, <2>2, <2>3, <2>4, <2>5, <2>6, <2>7, <2>8, <2>9, Zenon DEF
       UserEffect
<1>4. CASE OtherEffect
  <2>1. ASSUME NEW lt \in Lthreads, Descheds(lt) PROVE RunInv'
    BY <1>0, <2>1, Zenon DEF Descheds, RunInv, Registered, Asleep, WakePending
  <2>2. ASSUME NEW t \in Schedulers, NEW lt \in Lthreads, Arrives(t, lt)
        PROVE  RunInv'
    <3>1. \A u \in Schedulers :
            pc[u] \in {"user", "wakeup"} => current_lthread[u] # lt
      BY <1>0, <2>2, Zenon DEF Arrives, RunInv, Registered, WakePending
    <3>2. \A u \in Schedulers : pc[u] \in {"user", "wakeup"} =>
            UNCHANGED needs_resched[current_lthread[u]]
      BY <1>0, <1>a, <2>2, <3>1, Zenon DEF Arrives, Pushed, Marks, Pushes, SetsLt
    <3>3. \A u \in Schedulers :
            /\ pc'[u] \in {"user", "wakeup"} => pc[u] \in {"user", "wakeup"}
            /\ pc'[u] = "switched" => pc[u] = "switched"
      BY <2>2, Zenon DEF Arrives
    <3>4. \A x \in Lthreads : Registered(x)' => Registered(x)
      BY <2>2, NullAssumption, Zenon DEF Arrives, Sets, Registered, Asleep, WakePending
    <3> QED
      BY <1>0, <1>a, <2>2, <3>2, <3>3, <3>4, Zenon DEF Arrives, RunInv
  <2>3. CASE Ends
    BY <1>0, <2>3, Zenon DEF Ends, RunInv, Registered, Asleep, WakePending
  <2> QED
    BY <1>4, <2>1, <2>2, <2>3, Zenon DEF OtherEffect
<1> QED
  BY <1>1, <1>2, <1>3, <1>4, Zenon DEF Effect, LoopEffect

\* A step that leaves every place alone.
LEMMA PlaceSame ==
  ASSUME PlaceInv,
         UNCHANGED <<ready, sleeping, current_lthread, result, wakee, life,
                     needs_resched, blocked, waiting, event_lt>>
  PROVE  PlaceInv'
<1> SUFFICES ASSUME NEW x \in Lthreads PROVE OnePlace(x)'
  BY Zenon DEF PlaceInv
<1>1. Queued(x)' => Queued(x)
  BY QueueSame, Zenon DEF Queued
<1>2. (InHand(x)' => InHand(x)) /\ (Current(x)' <=> Current(x))
  BY Zenon DEF InHand, Current
<1>3. (Asleep(x)' => Asleep(x)) /\ (WakePending(x)' => WakePending(x))
  BY Zenon DEF Asleep, WakePending
<1> QED
  BY <1>1, <1>2, <1>3, Zenon DEF PlaceInv, OnePlace, Registered

\* No step puts an lthread into two places: a wake-up takes it off the list it
\* registered on before it pushes or marks it, and only one wake-up gets it.
LEMMA PlaceStep ==
  ASSUME IInv, Effect
  PROVE  PlaceInv'
<1>0. PcInv /\ SchedInv /\ OwnersAgree /\ OnceInv /\ PlaceInv /\ RunInv
  BY Zenon DEF IInv, SchedInv
<1>a. \A u, v \in Schedulers : \A x \in Lthreads :
        current_lthread[u] = x /\ current_lthread[v] = x => u = v
  BY <1>0, NullAssumption DEF OwnersAgree
<1>b. \A u, v \in Schedulers : \A x : x \in sleeping[u] /\ x \in sleeping[v] => u = v
  BY <1>0 DEF OwnersAgree
<1>c. \A u, v \in Schedulers : \A x : x \in Queue(u) /\ x \in Queue(v) => u = v
  BY <1>0, Zenon DEF SchedInv
<1>1. ASSUME NEW s \in Schedulers, WorkEffect(s) PROVE PlaceInv'
  <2>1. CASE NoneExpired(s)
    BY <1>0, <2>1, PlaceSame, Zenon DEF NoneExpired
  <2>2. ASSUME NEW lt \in Lthreads, Expired(s, lt) PROVE PlaceInv'
    <3> SUFFICES ASSUME NEW x \in Lthreads PROVE OnePlace(x)'
      BY Zenon DEF PlaceInv
    <3>0. Asleep(lt) /\ ~Current(lt)
      BY <1>0, <2>2, <1>a, NullAssumption
      DEF Expired, Steps, Asleep, Current, PcInv, OwnersAgree
    <3>1. Queued(x)' => Queued(x) \/ x = lt
      BY <2>2, <3>0, Zenon DEF Expired, Queued, Adds
    <3>2. (InHand(x)' => InHand(x)) /\ (Current(x)' <=> Current(x))
      BY <2>2, <3>0, Zenon DEF Expired, Sets, InHand, Current
    <3>3. /\ Asleep(x)' => Asleep(x) /\ x # lt
          /\ WakePending(x)' => WakePending(x)
          /\ event_lt' = x => \A u \in Schedulers : wakee'[u] # x
      BY <1>0, <2>2, <3>0, <1>b, Zenon
      DEF Expired, Sets, Asleep, WakePending, PlaceInv, OnePlace
    <3> QED
      BY <1>0, <2>2, <3>0, <3>1, <3>2, <3>3, Zenon
      DEF Expired, PlaceInv, OnePlace, Registered
  <2>3. ASSUME NEW t \in Schedulers, NEW lt \in Lthreads, Takes(s, t, lt)
        PROVE  PlaceInv'
    <3> SUFFICES ASSUME NEW x \in Lthreads PROVE OnePlace(x)'
      BY Zenon DEF PlaceInv
    <3>0. lt \in Queue(t) /\ Queued(lt) /\ result[s] = NULL
      BY <1>0, <2>3, Zenon DEF Takes, Queued, Removes, PcInv, Searching
    <3>a. \A u \in Schedulers : x \in Queue(u)' => x \in Queue(u) /\ ~(u = t /\ x = lt)
      BY <2>3, Zenon DEF Takes, Removes
    <3>b. x = lt => \A u \in Schedulers : x \in Queue(u) => u = t
      BY <1>c, <3>0, Zenon
    <3>1. Queued(x)' => Queued(x) /\ x # lt
      BY <3>a, <3>b, Zenon DEF Queued
    <3>2. (InHand(x)' => InHand(x) \/ x = lt) /\ (Current(x)' <=> Current(x))
      BY <2>3, <3>0, NullAssumption, Zenon DEF Takes, Sets, InHand, Current
    <3>3. /\ Asleep(x)' => Asleep(x)
          /\ WakePending(x)' => WakePending(x)
          /\ event_lt' = x => \A u \in Schedulers : wakee'[u] # x
      BY <1>0, <2>3, <3>0, Zenon DEF Takes, Asleep, WakePending, PlaceInv, OnePlace
    <3> QED
      BY <1>0, <2>3, <3>0, <3>1, <3>2, <3>3, Zenon
      DEF Takes, PlaceInv, OnePlace, Registered
  <2>4. ASSUME NEW label \in {"steal", "pop_blocking", "block"}, Searches(s, label)
        PROVE  PlaceInv'
    BY <1>0, <2>4, PlaceSame, Zenon DEF Searches
  <2>5. CASE PassAlone(s, "wake_neighbor", "adopt")
    BY <1>0, <2>5, PlaceSame, Zenon DEF PassAlone, PassFrame
  <2>6. CASE PassAlone(s, "exit_wake", "done")
    BY <1>0, <2>6, PlaceSame, Zenon DEF PassAlone, PassFrame
  <2>7. ASSUME NEW t \in Schedulers, PassWake(s, t, "wake_neighbor", "adopt")
        PROVE  PlaceInv'
    BY <1>0, <2>7, PlaceSame, Zenon DEF PassWake, PassFrame
  <2>8. ASSUME NEW t \in Schedulers, PassWake(s, t, "exit_wake", "done")
        PROVE  PlaceInv'
    BY <1>0, <2>8, PlaceSame, Zenon DEF PassWake, PassFrame
  <2>9. ASSUME NEW lt \in Lthreads, Adopts(s, lt) PROVE PlaceInv'
    BY <1>0, <2>9, PlaceSame, Zenon DEF Adopts
  <2>10. ASSUME NEW lt \in Lthreads, Resumes(s, lt) PROVE PlaceInv'
    <3> SUFFICES ASSUME NEW x \in Lthreads PROVE OnePlace(x)'
      BY Zenon DEF PlaceInv
    <3>0. InHand(lt) /\ current_lthread[s] = NULL
      BY <1>0, <2>10, Zenon DEF Resumes, Steps, InHand, PcInv
    <3>1. Queued(x)' => Queued(x)
      BY <2>10, QueueSame, Zenon DEF Resumes, Queued
    <3>a. \A u \in Schedulers : result[u] = lt => u = s
      BY <1>0, <2>10, NullAssumption, Zenon DEF Resumes, OnceInv
    <3>2. (InHand(x)' => InHand(x) /\ x # lt) /\ (Current(x)' <=> Current(x) \/ x = lt)
      BY <2>10, <3>0, <3>a, NullAssumption, Zenon DEF Resumes, Sets, InHand, Current
    <3>3. /\ Asleep(x)' => Asleep(x)
          /\ WakePending(x)' => WakePending(x)
          /\ event_lt' = x => \A u \in Schedulers : wakee'[u] # x
      BY <1>0, <2>10, <3>0, Zenon DEF Resumes, Asleep, WakePending, PlaceInv, OnePlace
    <3> QED
      BY <1>0, <2>10, <3>0, <3>1, <3>2, <3>3, Zenon
      DEF Resumes, PlaceInv, OnePlace, Registered
  <2>11. ASSUME NEW lt \in Lthreads, TailPlain(s, lt) PROVE PlaceInv'
    <3> SUFFICES ASSUME NEW x \in Lthreads PROVE OnePlace(x)'
      BY Zenon DEF PlaceInv
    <3>0. Current(lt)
      BY <1>0, <2>11, Zenon DEF TailPlain, TailFrame, Steps, Current
    <3>1. Queued(x)' => Queued(x)
      BY <2>11, QueueSame, Zenon DEF TailPlain, TailFrame, Queued
    <3>a. \A u \in Schedulers : current_lthread[u] = lt => u = s
      BY <1>a, <2>11, Zenon DEF TailPlain, TailFrame
    <3>2. (InHand(x)' => InHand(x)) /\ (Current(x)' <=> Current(x) /\ x # lt)
      BY <2>11, <3>0, <3>a, NullAssumption, Zenon
      DEF TailPlain, TailFrame, Sets, InHand, Current
    <3>3. /\ Asleep(x)' => Asleep(x)
          /\ WakePending(x)' => WakePending(x)
          /\ event_lt' = x => \A u \in Schedulers : wakee'[u] # x
      BY <1>0, <2>11, <3>0, Zenon
      DEF TailPlain, TailFrame, Asleep, WakePending, PlaceInv, OnePlace
    <3> QED
      BY <1>0, <2>11, <3>0, <3>1, <3>2, <3>3, Zenon
      DEF TailPlain, TailFrame, SetsLt, PlaceInv, OnePlace, Registered
  <2>12. ASSUME NEW lt \in Lthreads, TailPush(s, lt) PROVE PlaceInv'
    <3> SUFFICES ASSUME NEW x \in Lthreads PROVE OnePlace(x)'
      BY Zenon DEF PlaceInv
    <3>0. Current(lt) /\ ~InHand(lt) /\ ~Registered(lt) /\ life[lt] = "live"
      BY <1>0, <2>12, Zenon DEF TailPush, TailFrame, Steps, PlaceInv, OnePlace
    <3>1. Queued(x)' => Queued(x) \/ x = lt
      BY <2>12, <3>0, Zenon DEF TailPush, TailFrame, Queued, Adds
    <3>a. \A u \in Schedulers : current_lthread[u] = lt => u = s
      BY <1>a, <2>12, Zenon DEF TailPush, TailFrame
    <3>2. (InHand(x)' => InHand(x)) /\ (Current(x)' <=> Current(x) /\ x # lt)
      BY <2>12, <3>0, <3>a, NullAssumption, Zenon
      DEF TailPush, TailFrame, Sets, InHand, Current
    <3>3. /\ Asleep(x)' => Asleep(x)
          /\ WakePending(x)' => WakePending(x)
          /\ event_lt' = x => \A u \in Schedulers : wakee'[u] # x
      BY <1>0, <2>12, <3>0, Zenon
      DEF TailPush, TailFrame, Asleep, WakePending, PlaceInv, OnePlace
    <3>4. CASE x = lt
      BY <1>0, <2>12, <3>0, <3>1, <3>2, <3>3, <3>4, Zenon
      DEF TailPush, TailFrame, SetsLt, PlaceInv, OnePlace, Registered
    <3>5. CASE x # lt
      BY <1>0, <2>12, <3>0, <3>1, <3>2, <3>3, <3>5, Zenon
      DEF TailPush, TailFrame, SetsLt, PlaceInv, OnePlace, Registered
    <3> QED
      BY <3>4, <3>5, Zenon
  <2> QED
    BY <1>1, <2>1, <2>2, <2>3, <2>4, <2>5, <2>6, <2>7, <2>8, <2>9, <2>10,
       <2>11, <2>12, Zenon DEF WorkEffect, Passes
<1>2. ASSUME NEW s \in Schedulers, BlockingEffect(s) PROVE PlaceInv'
  <2>1. CASE GoesRound(s)
    BY <1>0, <2>1, PlaceSame, Zenon DEF GoesRound, BlockFrame
  <2>2. ASSUME NEW label \in {"begin_deep_sleep", "timed_wait"}, Commits(s, label)
        PROVE  PlaceInv'
    BY <1>0, <2>2, PlaceSame, Zenon DEF Commits, BlockFrame
  <2>3. CASE FallsAsleep(s)
    BY <1>0, <2>3, PlaceSame, Zenon DEF FallsAsleep
  <2>4. CASE LastAsleep(s)
    BY <1>0, <2>4, PlaceSame, Zenon DEF LastAsleep
  <2>5. ASSUME NEW from \in {"deep_wait", "timed_wait"}, Returns(s, from)
        PROVE  PlaceInv'
    BY <1>0, <2>5, PlaceSame, Zenon DEF Returns
  <2> QED
    BY <1>2, <2>1, <2>2, <2>3, <2>4, <2>5, Zenon DEF BlockingEffect
<1>3. ASSUME NEW s \in Schedulers, UserEffect(s) PROVE PlaceInv'
  <2>1. ASSUME NEW lt \in Lthreads, Creates(s, lt) PROVE PlaceInv'
    <3> SUFFICES ASSUME NEW x \in Lthreads PROVE OnePlace(x)'
      BY Zenon DEF PlaceInv
    <3>0. ~Current(lt)
      BY <1>0, <2>1, NullAssumption, Zenon DEF Creates, Current, RunInv, PcInv
    <3>1. Queued(x)' => Queued(x) \/ x = lt
      BY <2>1, <3>0, Zenon DEF Creates, Queued, Adds
    <3>2. (InHand(x)' => InHand(x)) /\ (Current(x)' <=> Current(x))
      BY <2>1, <3>0, Zenon DEF Creates, Sets, InHand, Current
    <3>3. /\ Asleep(x)' => Asleep(x)
          /\ WakePending(x)' => WakePending(x)
          /\ event_lt' = x => \A u \in Schedulers : wakee'[u] # x
      BY <1>0, <2>1, <3>0, Zenon DEF Creates, Asleep, WakePending, PlaceInv, OnePlace
    <3> QED
      BY <1>0, <2>1, <3>0, <3>1, <3>2, <3>3, Zenon
      DEF Creates, SetsLt, PlaceInv, OnePlace, Registered
  <2>2. ASSUME NEW lt \in Lthreads, Yields(s, lt) PROVE PlaceInv'
    <3> SUFFICES ASSUME NEW x \in Lthreads PROVE OnePlace(x)'
      BY Zenon DEF PlaceInv
    <3>0. life[lt] = "live" /\ ~Registered(lt) /\ Current(lt) /\ ~needs_resched[lt]
      BY <1>0, <2>2, Zenon DEF Yields, Leaves, Steps, RunInv, Current
    <3>1. Queued(x)' => Queued(x)
      BY <2>2, QueueSame, Zenon DEF Yields, Leaves, Queued
    <3>2. (InHand(x)' => InHand(x)) /\ (Current(x)' <=> Current(x))
      BY <2>2, <3>0, Zenon DEF Yields, Leaves, Sets, InHand, Current
    <3>3. /\ Asleep(x)' => Asleep(x)
          /\ WakePending(x)' => WakePending(x)
          /\ event_lt' = x => \A u \in Schedulers : wakee'[u] # x
      BY <1>0, <2>2, <3>0, Zenon
      DEF Yields, Leaves, Asleep, WakePending, PlaceInv, OnePlace
    <3> QED
      BY <1>0, <2>2, <3>0, <3>1, <3>2, <3>3, Zenon
      DEF Yields, Leaves, SetsLt, PlaceInv, OnePlace, Registered
  <2>3. ASSUME NEW lt \in Lthreads, Sleeps(s, lt) PROVE PlaceInv'
    <3> SUFFICES ASSUME NEW x \in Lthreads PROVE OnePlace(x)'
      BY Zenon DEF PlaceInv
    <3>0. life[lt] = "live" /\ ~Registered(lt) /\ Current(lt) /\ ~needs_resched[lt]
      BY <1>0, <2>3, Zenon DEF Sleeps, Leaves, Steps, RunInv, Current
    <3>1. Queued(x)' => Queued(x)
      BY <2>3, QueueSame, Zenon DEF Sleeps, Leaves, Queued
    <3>2. (InHand(x)' => InHand(x)) /\ (Current(x)' <=> Current(x))
      BY <2>3, <3>0, Zenon DEF Sleeps, Leaves, Sets, InHand, Current
    <3>3. /\ Asleep(x)' => Asleep(x) \/ x = lt
          /\ WakePending(x)' => WakePending(x)
          /\ event_lt' = x => \A u \in Schedulers : wakee'[u] # x
      BY <1>0, <2>3, <3>0, Zenon
      DEF Sleeps, Leaves, Sets, Asleep, WakePending, PlaceInv, OnePlace
    <3> QED
      BY <1>0, <2>3, <3>0, <3>1, <3>2, <3>3, Zenon
      DEF Sleeps, Leaves, SetsLt, PlaceInv, OnePlace, Registered
  <2>4. ASSUME NEW lt \in Lthreads, Sleeps0(s, lt) PROVE PlaceInv'
    BY <1>0, <2>4, PlaceSame, Zenon DEF Sleeps0, Leaves
  <2>5. ASSUME NEW lt \in Lthreads, WaitsFd(s, lt) PROVE PlaceInv'
    <3> SUFFICES ASSUME NEW x \in Lthreads PROVE OnePlace(x)'
      BY Zenon DEF PlaceInv
    <3>0. life[lt] = "live" /\ ~Registered(lt) /\ Current(lt) /\ ~needs_resched[lt]
      BY <1>0, <2>5, Zenon DEF WaitsFd, Leaves, Steps, RunInv, Current
    <3>1. Queued(x)' => Queued(x)
      BY <2>5, QueueSame, Zenon DEF WaitsFd, Leaves, Queued
    <3>2. (InHand(x)' => InHand(x)) /\ (Current(x)' <=> Current(x))
      BY <2>5, <3>0, Zenon DEF WaitsFd, Leaves, Sets, InHand, Current
    <3>3. /\ Asleep(x)' => Asleep(x)
          /\ WakePending(x)' => WakePending(x)
          /\ event_lt' = x => \A u \in Schedulers : wakee'[u] # x
      BY <1>0, <2>5, <3>0, Zenon
      DEF WaitsFd, Leaves, Asleep, WakePending, PlaceInv, OnePlace
    <3> QED
      BY <1>0, <2>5, <3>0, <3>1, <3>2, <3>3, Zenon
      DEF WaitsFd, Leaves, PlaceInv, OnePlace, Registered
  <2>6. ASSUME NEW lt \in Lthreads, CondWaits(s, lt) PROVE PlaceInv'
    <3> SUFFICES ASSUME NEW x \in Lthreads PROVE OnePlace(x)'
      BY Zenon DEF PlaceInv
    <3>0. life[lt] = "live" /\ ~Registered(lt) /\ Current(lt) /\ ~needs_resched[lt]
      BY <1>0, <2>6, Zenon DEF CondWaits, Leaves, Steps, RunInv, Current
    <3>1. Queued(x)' => Queued(x)
      BY <2>6, QueueSame, Zenon DEF CondWaits, Leaves, Queued
    <3>2. (InHand(x)' => InHand(x)) /\ (Current(x)' <=> Current(x))
      BY <2>6, <3>0, Zenon DEF CondWaits, Leaves, Sets, InHand, Current
    <3>3. /\ Asleep(x)' => Asleep(x)
          /\ WakePending(x)' => WakePending(x)
          /\ event_lt' = x => \A u \in Schedulers : wakee'[u] # x
      BY <1>0, <2>6, <3>0, Zenon
      DEF CondWaits, Leaves, Asleep, WakePending, PlaceInv, OnePlace
    <3> QED
      BY <1>0, <2>6, <3>0, <3>1, <3>2, <3>3, Zenon
      DEF CondWaits, Leaves, SetsLt, PlaceInv, OnePlace, Registered
  <2>7. ASSUME NEW lt \in Lthreads, NEW how \in {"exited", "returned"}, Finishes(s, lt, how)
        PROVE  PlaceInv'
    <3> SUFFICES ASSUME NEW x \in Lthreads PROVE OnePlace(x)'
      BY Zenon DEF PlaceInv
    <3>0. life[lt] = "live" /\ ~Registered(lt) /\ Current(lt) /\ ~needs_resched[lt]
      BY <1>0, <2>7, Zenon DEF Finishes, Leaves, Steps, RunInv, Current
    <3>1. Queued(x)' => Queued(x)
      BY <2>7, QueueSame, Zenon DEF Finishes, Leaves, Queued
    <3>2. (InHand(x)' => InHand(x)) /\ (Current(x)' <=> Current(x))
      BY <2>7, <3>0, Zenon DEF Finishes, Leaves, Sets, InHand, Current
    <3>3. /\ Asleep(x)' => Asleep(x)
          /\ WakePending(x)' => WakePending(x)
          /\ event_lt' = x => \A u \in Schedulers : wakee'[u] # x
      BY <1>0, <2>7, <3>0, Zenon
      DEF Finishes, Leaves, Asleep, WakePending, PlaceInv, OnePlace
    <3> QED
      BY <1>0, <2>7, <3>0, <3>1, <3>2, <3>3, Zenon
      DEF Finishes, Leaves, SetsLt, PlaceInv, OnePlace, Registered
  <2>8. ASSUME NEW lt \in Lthreads, Signals(s, lt) PROVE PlaceInv'
    <3> SUFFICES ASSUME NEW x \in Lthreads PROVE OnePlace(x)'
      BY Zenon DEF PlaceInv
    <3>0. event_lt # lt
      BY <1>0, <2>8, Zenon DEF Signals, Steps, WakePending, PlaceInv, OnePlace
    <3>1. Queued(x)' => Queued(x)
      BY <2>8, QueueSame, Zenon DEF Signals, Queued
    <3>2. (InHand(x)' => InHand(x)) /\ (Current(x)' <=> Current(x))
      BY <2>8, <3>0, Zenon DEF Signals, Sets, InHand, Current
    <3>a. \A u \in Schedulers : wakee'[u] = wakee[u] \/ wakee'[u] = lt
      BY <2>8, Zenon DEF Signals, Sets
    <3>3. /\ Asleep(x)' => Asleep(x)
          /\ WakePending(x)' => WakePending(x) \/ x = lt
          /\ event_lt' = x => \A u \in Schedulers : wakee'[u] # x
      BY <1>0, <2>8, <3>0, <3>a, Zenon DEF Signals, Asleep, WakePending, PlaceInv, OnePlace
    <3> QED
      BY <1>0, <2>8, <3>0, <3>a, <3>1, <3>2, <3>3, Zenon
      DEF Signals, PlaceInv, OnePlace, Registered
  <2>9. ASSUME NEW t \in Schedulers, NEW lt \in Lthreads, Wakes(s, t, lt)
        PROVE  PlaceInv'
    <3> SUFFICES ASSUME NEW x \in Lthreads PROVE OnePlace(x)'
      BY Zenon DEF PlaceInv
    <3>0. WakePending(lt) /\ (current_lthread[t] # lt => ~Current(lt))
      BY <1>0, <2>9, NullAssumption, Zenon
      DEF Wakes, Pushed, WakePending, Current, OwnersAgree
    <3>1. (InHand(x)' => InHand(x)) /\ (Current(x)' <=> Current(x))
      BY <2>9, Zenon DEF Wakes, InHand, Current
    <3>a. \A u \in Schedulers : wakee'[u] # NULL => wakee'[u] = wakee[u] /\ wakee[u] # lt
      BY <1>0, <2>9, Zenon DEF Wakes, Sets, OnceInv
    <3>b. event_lt' # NULL => event_lt' = event_lt /\ event_lt # lt
      BY <1>0, <2>9, Zenon DEF Wakes, PlaceInv, OnePlace
    <3>2. /\ Asleep(x)' => Asleep(x)
          /\ WakePending(x)' => WakePending(x) /\ x # lt
          /\ event_lt' = x => \A u \in Schedulers : wakee'[u] # x
      BY <1>0, <2>9, <3>a, <3>b, NullAssumption, Zenon
      DEF Wakes, Asleep, WakePending, PlaceInv, OnePlace
    <3>3. CASE Marks(t, lt)
      <4>1. (Queued(x)' => Queued(x)) /\ Current(lt)
        BY <3>3, QueueSame, Zenon DEF Marks, Queued, Current
      <4> QED
        BY <1>0, <2>9, <3>0, <3>1, <3>2, <3>3, <4>1, Zenon
        DEF Wakes, Marks, SetsLt, PlaceInv, OnePlace, Registered
    <3>4. CASE Pushes(t, lt)
      <4>1. Queued(x)' => Queued(x) \/ x = lt
        BY <3>4, Zenon DEF Pushes, Adds, Queued
      <4>2. ~Current(lt)
        BY <3>0, <3>4, Zenon DEF Pushes
      <4> QED
        BY <1>0, <2>9, <3>0, <3>1, <3>2, <3>4, <4>1, <4>2, Zenon
        DEF Wakes, Pushes, PlaceInv, OnePlace, Registered
    <3> QED
      BY <2>9, <3>3, <3>4, Zenon DEF Wakes, Pushed
  <2> QED
    BY <1>3, <2>1, <2>2, <2>3, <2>4, <2>5, <2>6, <2>7, <2>8, <2>9, Zenon DEF
       UserEffect
<1>4. CASE OtherEffect
  <2>1. ASSUME NEW lt \in Lthreads, Descheds(lt) PROVE PlaceInv'
    <3> SUFFICES ASSUME NEW x \in Lthreads PROVE OnePlace(x)'
      BY Zenon DEF PlaceInv
    <3>0. \A u \in Schedulers : wakee[u] # lt
      BY <1>0, <2>1, Zenon DEF Descheds, WakePending, PlaceInv, OnePlace
    <3>1. Queued(x)' => Queued(x)
      BY <2>1, QueueSame, Zenon DEF Descheds, Queued
    <3>2. (InHand(x)' => InHand(x)) /\ (Current(x)' <=> Current(x))
      BY <2>1, <3>0, Zenon DEF Descheds, InHand, Current
    <3>3. /\ Asleep(x)' => Asleep(x)
          /\ WakePending(x)' => WakePending(x) \/ x = lt
          /\ event_lt' = x => \A u \in Schedulers : wakee'[u] # x
      BY <1>0, <2>1, <3>0, Zenon DEF Descheds, Asleep, WakePending, PlaceInv, OnePlace
    <3> QED
      BY <1>0, <2>1, <3>0, <3>1, <3>2, <3>3, Zenon
      DEF Descheds, PlaceInv, OnePlace, Registered
  <2>2. ASSUME NEW t \in Schedulers, NEW lt \in Lthreads, Arrives(t, lt)
        PROVE  PlaceInv'
    <3> SUFFICES ASSUME NEW x \in Lthreads PROVE OnePlace(x)'
      BY Zenon DEF PlaceInv
    <3>0. WakePending(lt) /\ (current_lthread[t] # lt => ~Current(lt))
      BY <1>0, <2>2, NullAssumption, Zenon
      DEF Arrives, Pushed, WakePending, Current, OwnersAgree
    <3>1. (InHand(x)' => InHand(x)) /\ (Current(x)' <=> Current(x))
      BY <2>2, Zenon DEF Arrives, InHand, Current
    <3>a. \A u \in Schedulers : wakee'[u] # NULL => wakee'[u] = wakee[u] /\ wakee[u] # lt
      BY <1>0, <2>2, Zenon DEF Arrives, PlaceInv, OnePlace
    <3>b. event_lt' # NULL => event_lt' = event_lt /\ event_lt # lt
      BY <1>0, <2>2, Zenon DEF Arrives
    <3>2. /\ Asleep(x)' => Asleep(x)
          /\ WakePending(x)' => WakePending(x) /\ x # lt
          /\ event_lt' = x => \A u \in Schedulers : wakee'[u] # x
      BY <1>0, <2>2, <3>a, <3>b, NullAssumption, Zenon
      DEF Arrives, Asleep, WakePending, PlaceInv, OnePlace
    <3>3. CASE Marks(t, lt)
      <4>1. (Queued(x)' => Queued(x)) /\ Current(lt)
        BY <3>3, QueueSame, Zenon DEF Marks, Queued, Current
      <4> QED
        BY <1>0, <2>2, <3>0, <3>1, <3>2, <3>3, <4>1, Zenon
        DEF Arrives, Marks, SetsLt, PlaceInv, OnePlace, Registered
    <3>4. CASE Pushes(t, lt)
      <4>1. Queued(x)' => Queued(x) \/ x = lt
        BY <3>4, Zenon DEF Pushes, Adds, Queued
      <4>2. ~Current(lt)
        BY <3>0, <3>4, Zenon DEF Pushes
      <4> QED
        BY <1>0, <2>2, <3>0, <3>1, <3>2, <3>4, <4>1, <4>2, Zenon
        DEF Arrives, Pushes, PlaceInv, OnePlace, Registered
    <3> QED
      BY <2>2, <3>3, <3>4, Zenon DEF Arrives, Pushed
  <2>3. CASE Ends
    BY <1>0, <2>3, PlaceSame, Zenon DEF Ends
  <2> QED
    BY <1>4, <2>1, <2>2, <2>3, Zenon DEF OtherEffect
<1> QED
  BY <1>1, <1>2, <1>3, <1>4, Zenon DEF Effect, LoopEffect

\* No step forgets a live lthread in a program without lthread_sleep(0): the place
\* it leaves is followed by another.
LEMMA LiveStep ==
  ASSUME IInv, Effect
  PROVE  LiveInv'
<1>0. PcInv /\ LiveInv /\ RunInv
  BY Zenon DEF IInv
<1>1. ASSUME NEW s \in Schedulers, WorkEffect(s) PROVE LiveInv'
  <2>1. CASE NoneExpired(s)
    BY <1>0, <2>1, QueueSame, Zenon
    DEF NoneExpired, Sets, Steps, LiveInv, Held, OnStack, Queued, InHand,
        Registered, Asleep, WakePending
  <2>2. ASSUME NEW lt \in Lthreads, Expired(s, lt) PROVE LiveInv'
    BY <1>0, <2>2
    DEF Expired, Sets, Steps, LiveInv, Held, OnStack, Queued, InHand, Registered,
        Asleep, WakePending, Adds
  <2>3. ASSUME NEW t \in Schedulers, NEW lt \in Lthreads, Takes(s, t, lt)
        PROVE  LiveInv'
    <3> SUFFICES ASSUME "sleep0" \notin Calls, NEW x \in Lthreads, life'[x] = "live"
                 PROVE  Held(x)'
      BY Zenon DEF LiveInv
    <3>1. Queued(x) => Queued(x)' \/ x = lt
      BY <2>3, Zenon DEF Takes, Queued, Removes
    <3>2. InHand(x) \/ x = lt => InHand(x)'
      BY <1>0, <2>3, NullAssumption, Zenon DEF Takes, Sets, InHand, PcInv, Searching
    <3>3. OnStack(x) => OnStack(x)'
      BY <2>3, Zenon DEF Takes, Sets, OnStack, Searching
    <3>4. Registered(x) => Registered(x)'
      BY <2>3, NullAssumption, Zenon DEF Takes, Registered, Asleep, WakePending
    <3> QED
      BY <1>0, <2>3, <3>1, <3>2, <3>3, <3>4, Zenon DEF Takes, LiveInv, Held
  <2>4. ASSUME NEW label \in {"steal", "pop_blocking", "block"}, Searches(s, label)
        PROVE  LiveInv'
    <3> SUFFICES ASSUME "sleep0" \notin Calls, NEW x \in Lthreads, life'[x] = "live"
                 PROVE  Held(x)'
      BY Zenon DEF LiveInv
    <3>1. Queued(x) => Queued(x)'
      BY <2>4, QueueSame, Zenon DEF Searches, Queued
    <3>2. InHand(x) => InHand(x)'
      BY <1>0, <2>4, NullAssumption, Zenon DEF Searches, Sets, InHand, PcInv
    <3>3. OnStack(x) => OnStack(x)'
      BY <2>4, Zenon DEF Searches, Sets, OnStack, Searching
    <3>4. Registered(x) => Registered(x)'
      BY <2>4, NullAssumption, Zenon DEF Searches, Registered, Asleep, WakePending
    <3> QED
      BY <1>0, <2>4, <3>1, <3>2, <3>3, <3>4, Zenon DEF Searches, LiveInv, Held
  <2>5. CASE PassAlone(s, "wake_neighbor", "adopt")
    BY <1>0, <2>5, QueueSame, Zenon
    DEF PassAlone, PassFrame, Sets, Steps, LiveInv, Held, OnStack, Queued,
        InHand, Registered, Asleep, WakePending
  <2>6. CASE PassAlone(s, "exit_wake", "done")
    BY <1>0, <2>6, QueueSame, Zenon
    DEF PassAlone, PassFrame, Sets, Steps, LiveInv, Held, OnStack, Queued,
        InHand, Registered, Asleep, WakePending
  <2>7. ASSUME NEW t \in Schedulers, PassWake(s, t, "wake_neighbor", "adopt")
        PROVE  LiveInv'
    BY <1>0, <2>7, QueueSame, Zenon
    DEF PassWake, PassFrame, Sets, Steps, LiveInv, Held, OnStack, Queued, InHand,
        Registered, Asleep, WakePending
  <2>8. ASSUME NEW t \in Schedulers, PassWake(s, t, "exit_wake", "done")
        PROVE  LiveInv'
    BY <1>0, <2>8, QueueSame, Zenon
    DEF PassWake, PassFrame, Sets, Steps, LiveInv, Held, OnStack, Queued, InHand,
        Registered, Asleep, WakePending
  <2>9. ASSUME NEW lt \in Lthreads, Adopts(s, lt) PROVE LiveInv'
    BY <1>0, <2>9, QueueSame, Zenon
    DEF Adopts, Sets, Steps, SetsLt, LiveInv, Held, OnStack, Queued, InHand,
        Registered, Asleep, WakePending
  <2>10. ASSUME NEW lt \in Lthreads, Resumes(s, lt) PROVE LiveInv'
    BY <1>0, <2>10, QueueSame, NullAssumption
    DEF Resumes, Sets, Steps, LiveInv, Held, OnStack, Queued, InHand, Registered,
        Asleep, WakePending
  <2>11. ASSUME NEW lt \in Lthreads, TailPlain(s, lt) PROVE LiveInv'
    BY <1>0, <2>11, QueueSame, NullAssumption
    DEF TailPlain, TailFrame, Sets, Steps, SetsLt, LiveInv, Held, OnStack,
        Queued, InHand, Registered, Asleep, WakePending, RunInv
  <2>12. ASSUME NEW lt \in Lthreads, TailPush(s, lt) PROVE LiveInv'
    BY <1>0, <2>12, NullAssumption
    DEF TailPush, TailFrame, Sets, Steps, SetsLt, LiveInv, Held, OnStack, Queued,
        InHand, Registered, Asleep, WakePending, Adds, RunInv
  <2> QED
    BY <1>1, <2>1, <2>2, <2>3, <2>4, <2>5, <2>6, <2>7, <2>8, <2>9, <2>10,
       <2>11, <2>12, Zenon DEF WorkEffect, Passes
<1>2. ASSUME NEW s \in Schedulers, BlockingEffect(s) PROVE LiveInv'
  <2>1. CASE GoesRound(s)
    BY <1>0, <2>1, QueueSame, Zenon
    DEF GoesRound, BlockFrame, Sets, Steps, LiveInv, Held, OnStack, Queued,
        InHand, Registered, Asleep, WakePending
  <2>2. ASSUME NEW label \in {"begin_deep_sleep", "timed_wait"}, Commits(s, label)
        PROVE  LiveInv'
    BY <1>0, <2>2, QueueSame, Zenon
    DEF Commits, BlockFrame, Sets, Steps, LiveInv, Held, OnStack, Queued, InHand,
        Registered, Asleep, WakePending
  <2>3. CASE FallsAsleep(s)
    BY <1>0, <2>3, QueueSame, Zenon
    DEF FallsAsleep, Sets, Steps, LiveInv, Held, OnStack, Queued, InHand,
        Registered, Asleep, WakePending
  <2>4. CASE LastAsleep(s)
    BY <1>0, <2>4, QueueSame, Zenon
    DEF LastAsleep, Sets, Steps, LiveInv, Held, OnStack, Queued, InHand,
        Registered, Asleep, WakePending
  <2>5. ASSUME NEW from \in {"deep_wait", "timed_wait"}, Returns(s, from)
        PROVE  LiveInv'
    <3>1. ASSUME NEW x \in Lthreads
          PROVE  /\ Queued(x) => Queued(x)'
                 /\ InHand(x) => InHand(x)'
                 /\ Registered(x) => Registered(x)'
      BY <2>5, QueueSame, Zenon
      DEF Returns, Queued, InHand, Registered, Asleep, WakePending
    <3>2. ASSUME NEW x \in Lthreads PROVE OnStack(x) => OnStack(x)'
      BY <2>5, Zenon DEF Returns, Sets, Steps, OnStack
    <3> QED
      BY <1>0, <2>5, <3>1, <3>2, Zenon DEF Returns, LiveInv, Held
  <2> QED
    BY <1>2, <2>1, <2>2, <2>3, <2>4, <2>5, Zenon DEF BlockingEffect
<1>3. ASSUME NEW s \in Schedulers, UserEffect(s) PROVE LiveInv'
  <2>1. ASSUME NEW lt \in Lthreads, Creates(s, lt) PROVE LiveInv'
    BY <1>0, <2>1, Zenon
    DEF Creates, SetsLt, Sets, LiveInv, Held, OnStack, Queued, InHand,
        Registered, Asleep, WakePending, Adds, RunInv
  <2>2. ASSUME NEW lt \in Lthreads, Yields(s, lt) PROVE LiveInv'
    BY <1>0, <2>2, QueueSame, Zenon
    DEF Yields, Leaves, Sets, Steps, SetsLt, LiveInv, Held, OnStack, Queued,
        InHand, Registered, Asleep, WakePending
  <2>3. ASSUME NEW lt \in Lthreads, Sleeps(s, lt) PROVE LiveInv'
    <3>1. ASSUME NEW x \in Lthreads
          PROVE  /\ Queued(x) => Queued(x)'
                 /\ InHand(x) => InHand(x)'
                 /\ Registered(x) => Registered(x)'
      BY <2>3, QueueSame, Zenon
      DEF Sleeps, Leaves, Sets, Queued, InHand, Registered, Asleep, WakePending
    <3>2. ASSUME NEW x \in Lthreads, x # lt PROVE OnStack(x) => OnStack(x)'
      BY <2>3, <3>2, Zenon DEF Sleeps, Leaves, Sets, Steps, OnStack
    <3>3. Registered(lt)'
      BY <2>3, Zenon DEF Sleeps, Sets, Registered, Asleep
    <3> QED
      BY <1>0, <2>3, <3>1, <3>2, <3>3, Zenon DEF Sleeps, LiveInv, Held
  <2>4. ASSUME NEW lt \in Lthreads, Sleeps0(s, lt) PROVE LiveInv'
    BY <1>0, <2>4, QueueSame, Zenon
    DEF Sleeps0, Leaves, Sets, Steps, SetsLt, LiveInv, Held, OnStack, Queued,
        InHand, Registered, Asleep, WakePending
  <2>5. ASSUME NEW lt \in Lthreads, WaitsFd(s, lt) PROVE LiveInv'
    BY <1>0, <2>5, QueueSame, Zenon
    DEF WaitsFd, Leaves, Sets, Steps, LiveInv, Held, OnStack, Queued, InHand,
        Registered, Asleep, WakePending
  <2>6. ASSUME NEW lt \in Lthreads, CondWaits(s, lt) PROVE LiveInv'
    BY <1>0, <2>6, QueueSame, Zenon
    DEF CondWaits, Leaves, Sets, Steps, SetsLt, LiveInv, Held, OnStack, Queued,
        InHand, Registered, Asleep, WakePending
  <2>7. ASSUME NEW lt \in Lthreads, NEW how \in {"exited", "returned"}, Finishes(s, lt, how)
        PROVE  LiveInv'
    BY <1>0, <2>7, QueueSame, Zenon
    DEF Finishes, Leaves, Sets, Steps, SetsLt, LiveInv, Held, OnStack, Queued,
        InHand, Registered, Asleep, WakePending
  <2>8. ASSUME NEW lt \in Lthreads, Signals(s, lt) PROVE LiveInv'
    <3> SUFFICES ASSUME "sleep0" \notin Calls, NEW x \in Lthreads, life'[x] = "live"
                 PROVE  Held(x)'
      BY Zenon DEF LiveInv
    <3>1. Queued(x) => Queued(x)'
      BY <2>8, QueueSame, Zenon DEF Signals, Queued
    <3>2. InHand(x) => InHand(x)'
      BY <1>0, <2>8, NullAssumption, Zenon DEF Signals, Sets, InHand, PcInv
    <3>3. OnStack(x) => OnStack(x)'
      BY <2>8, Zenon DEF Signals, Sets, Steps, OnStack
    <3>4. Registered(x) => Registered(x)'
      BY <2>8, NullAssumption, Zenon DEF Signals, Sets, Registered, Asleep, WakePending
    <3> QED
      BY <1>0, <2>8, <3>1, <3>2, <3>3, <3>4, Zenon DEF Signals, LiveInv, Held
  <2>9. ASSUME NEW t \in Schedulers, NEW lt \in Lthreads, Wakes(s, t, lt)
        PROVE  LiveInv'
    <3> SUFFICES ASSUME "sleep0" \notin Calls, NEW x \in Lthreads, life'[x] = "live"
                 PROVE  Held(x)'
      BY Zenon DEF LiveInv
    <3>1. /\ Queued(x) => Queued(x)'
          /\ x = lt => Queued(x)' \/ needs_resched'[x]
          /\ needs_resched[x] => needs_resched'[x]
      BY <2>9, QueueSame, Zenon DEF Wakes, Pushed, Marks, Pushes, SetsLt, Queued, Adds
    <3>2. (InHand(x) => InHand(x)') /\ (OnStack(x) => OnStack(x)')
      BY <2>9, Zenon DEF Wakes, Steps, Sets, InHand, OnStack
    <3>3. Registered(x) => Registered(x)' \/ x = lt
      BY <2>9, Zenon DEF Wakes, Sets, Registered, Asleep, WakePending
    <3> QED
      BY <1>0, <2>9, <3>1, <3>2, <3>3, Zenon DEF Wakes, LiveInv, Held
  <2> QED
    BY <1>3, <2>1, <2>2, <2>3, <2>4, <2>5, <2>6, <2>7, <2>8, <2>9, Zenon DEF
       UserEffect
<1>4. CASE OtherEffect
  <2>1. ASSUME NEW lt \in Lthreads, Descheds(lt) PROVE LiveInv'
    <3> SUFFICES ASSUME "sleep0" \notin Calls, NEW x \in Lthreads, life'[x] = "live"
                 PROVE  Held(x)'
      BY Zenon DEF LiveInv
    <3>1. Queued(x) => Queued(x)'
      BY <2>1, QueueSame, Zenon DEF Descheds, Queued
    <3>2. InHand(x) => InHand(x)'
      BY <1>0, <2>1, NullAssumption, Zenon DEF Descheds, InHand, PcInv
    <3>3. OnStack(x) => OnStack(x)'
      BY <2>1, Zenon DEF Descheds, OnStack
    <3>4. Registered(x) => Registered(x)'
      BY <2>1, NullAssumption, Zenon DEF Descheds, Registered, Asleep, WakePending
    <3> QED
      BY <1>0, <2>1, <3>1, <3>2, <3>3, <3>4, Zenon DEF Descheds, LiveInv, Held
  <2>2. ASSUME NEW t \in Schedulers, NEW lt \in Lthreads, Arrives(t, lt)
        PROVE  LiveInv'
    BY <1>0, <2>2, QueueSame, NullAssumption, Zenon
    DEF Arrives, Pushed, Marks, Pushes, Sets, SetsLt, LiveInv, Held, OnStack,
        Queued, InHand, Registered, Asleep, WakePending, Adds
  <2>3. CASE Ends
    BY <1>0, <2>3, QueueSame, Zenon
    DEF Ends, LiveInv, Held, OnStack, Queued, InHand, Registered, Asleep,
        WakePending
  <2> QED
    BY <1>4, <2>1, <2>2, <2>3, Zenon DEF OtherEffect
<1> QED
  BY <1>1, <1>2, <1>3, <1>4, Zenon DEF Effect, LoopEffect
=============================================================================
