------------------------- MODULE LthreadSchedProofs -------------------------
(***************************************************************************)
(* The theorems about LthreadSched: in a program without timed condition   *)
(* waits IInv is an inductive invariant, and the safety properties of the  *)
(* scheduler pool follow from it, for any number of schedulers and any set *)
(* of lthreads.                                                            *)
(*                                                                         *)
(* The first two lemmas complete the induction step with the parts of IInv *)
(* that count the lthreads that wait for the poller: the number of pending *)
(* events, and the agreement that all work is done.                        *)
(***************************************************************************)
EXTENDS LthreadSchedSteps, LthreadSchedKept, FiniteSetTheorems

\* Every step keeps the count of outstanding events right, and some scheduler
\* awake while it is not zero: wait_fd leaves its own scheduler awake, and Block
\* begins a deep sleep only when it reads a zero.
LEMMA PollerStep ==
  ASSUME IInv, Effect
  PROVE  PollerInv'
<1>0. PollerInv /\ RunInv
  BY Zenon DEF IInv
<1>1. ASSUME NEW s \in Schedulers, WorkEffect(s) PROVE PollerInv'
  <2>1. CASE NoneExpired(s)
    BY <1>0, <2>1, Zenon
    DEF NoneExpired, Sets, Steps, PollerInv, PendingIsCounted, Awake
  <2>2. ASSUME NEW lt \in Lthreads, Expired(s, lt) PROVE PollerInv'
    BY <1>0, <2>2, Zenon DEF Expired, Sets, Steps, PollerInv, PendingIsCounted, Awake
  <2>3. ASSUME NEW t \in Schedulers, NEW lt \in Lthreads, Takes(s, t, lt)
        PROVE  PollerInv'
    BY <1>0, <2>3, Zenon
    DEF Takes, Sets, Searching, Locked, PollerInv, PendingIsCounted, Awake
  <2>4. ASSUME NEW label \in {"steal", "pop_blocking", "block"}, Searches(s, label)
        PROVE  PollerInv'
    BY <1>0, <2>4, Zenon
    DEF Searches, Sets, Searching, PollerInv, PendingIsCounted, Awake
  <2>5. CASE PassAlone(s, "wake_neighbor", "adopt")
    BY <1>0, <2>5, Zenon
    DEF PassAlone, PassFrame, Sets, Steps, PollerInv, PendingIsCounted, Awake
  <2>6. CASE PassAlone(s, "exit_wake", "done")
    BY <1>0, <2>6, Zenon
    DEF PassAlone, PassFrame, Sets, Steps, PollerInv, PendingIsCounted, Awake
  <2>7. ASSUME NEW t \in Schedulers, PassWake(s, t, "wake_neighbor", "adopt")
        PROVE  PollerInv'
    BY <1>0, <2>7, Zenon
    DEF PassWake, PassFrame, Sets, Steps, Locked, PollerInv, PendingIsCounted,
        Awake
  <2>8. ASSUME NEW t \in Schedulers, PassWake(s, t, "exit_wake", "done")
        PROVE  PollerInv'
    BY <1>0, <2>8, Zenon
    DEF PassWake, PassFrame, Sets, Steps, Locked, PollerInv, PendingIsCounted,
        Awake
  <2>9. ASSUME NEW lt \in Lthreads, Adopts(s, lt) PROVE PollerInv'
    BY <1>0, <2>9, Zenon DEF Adopts, Sets, Steps, PollerInv, PendingIsCounted, Awake
  <2>10. ASSUME NEW lt \in Lthreads, Resumes(s, lt) PROVE PollerInv'
    BY <1>0, <2>10, Zenon DEF Resumes, Sets, Steps, PollerInv, PendingIsCounted, Awake
  <2>11. ASSUME NEW lt \in Lthreads, TailPlain(s, lt) PROVE PollerInv'
    BY <1>0, <2>11, Zenon
    DEF TailPlain, TailFrame, Sets, Steps, PollerInv, PendingIsCounted, Awake
  <2>12. ASSUME NEW lt \in Lthreads, TailPush(s, lt) PROVE PollerInv'
    BY <1>0, <2>12, Zenon
    DEF TailPush, TailFrame, Sets, Steps, PollerInv, PendingIsCounted, Awake
  <2> QED
    BY <1>1, <2>1, <2>2, <2>3, <2>4, <2>5, <2>6, <2>7, <2>8, <2>9, <2>10,
       <2>11, <2>12, Zenon DEF WorkEffect, Passes
<1>2. ASSUME NEW s \in Schedulers, BlockingEffect(s) PROVE PollerInv'
  <2>1. CASE GoesRound(s)
    BY <1>0, <2>1, Zenon
    DEF GoesRound, BlockFrame, Sets, Steps, PollerInv, PendingIsCounted, Awake
  <2>2. ASSUME NEW label \in {"begin_deep_sleep", "timed_wait"}, Commits(s, label)
        PROVE  PollerInv'
    BY <1>0, <2>2, Zenon
    DEF Commits, BlockFrame, Sets, Steps, PollerInv, PendingIsCounted, Awake
  <2>3. CASE FallsAsleep(s)
    BY <1>0, <2>3, Zenon
    DEF FallsAsleep, Sets, Steps, PollerInv, PendingIsCounted, Awake
  <2>4. CASE LastAsleep(s)
    BY <1>0, <2>4, Zenon
    DEF LastAsleep, Sets, Steps, PollerInv, PendingIsCounted, Awake
  <2>5. ASSUME NEW from \in {"deep_wait", "timed_wait"}, Returns(s, from)
        PROVE  PollerInv'
    BY <1>0, <2>5, Zenon DEF Returns, Sets, Steps, PollerInv, PendingIsCounted, Awake
  <2> QED
    BY <1>2, <2>1, <2>2, <2>3, <2>4, <2>5, Zenon DEF BlockingEffect
<1>3. ASSUME NEW s \in Schedulers, UserEffect(s) PROVE PollerInv'
  <2>1. ASSUME NEW lt \in Lthreads, Creates(s, lt) PROVE PollerInv'
    BY <1>0, <2>1, Zenon DEF Creates, Sets, PollerInv, PendingIsCounted, Awake
  <2>2. ASSUME NEW lt \in Lthreads, Yields(s, lt) PROVE PollerInv'
    BY <1>0, <2>2, Zenon
    DEF Yields, Leaves, Sets, Steps, PollerInv, PendingIsCounted, Awake
  <2>3. ASSUME NEW lt \in Lthreads, Sleeps(s, lt) PROVE PollerInv'
    BY <1>0, <2>3, Zenon
    DEF Sleeps, Leaves, Sets, Steps, PollerInv, PendingIsCounted, Awake
  <2>4. ASSUME NEW lt \in Lthreads, Sleeps0(s, lt) PROVE PollerInv'
    BY <1>0, <2>4, Zenon
    DEF Sleeps0, Leaves, Sets, Steps, PollerInv, PendingIsCounted, Awake
  <2>5. ASSUME NEW lt \in Lthreads, WaitsFd(s, lt) PROVE PollerInv'
    <3>1. lt \notin waiting
      BY <1>0, <2>5, Zenon DEF WaitsFd, Leaves, Steps, RunInv, Registered
    <3>2. /\ IsFiniteSet(waiting \cup {lt})
          /\ Cardinality(waiting \cup {lt}) = Cardinality(waiting) + 1
          /\ Cardinality(waiting) \in Nat
      BY <1>0, <3>1, FS_AddElement, FS_CardinalityType, Zenon DEF PollerInv
    <3>3. PendingIsCounted'
      BY <1>0, <2>5, <3>2 DEF WaitsFd, Leaves, PollerInv, PendingIsCounted
    <3> QED
      BY <1>0, <2>5, <3>2, <3>3 DEF WaitsFd, Leaves, Sets, Steps, PollerInv, Awake
  <2>6. ASSUME NEW lt \in Lthreads, CondWaits(s, lt) PROVE PollerInv'
    BY <1>0, <2>6, Zenon
    DEF CondWaits, Leaves, Sets, Steps, PollerInv, PendingIsCounted, Awake
  <2>7. ASSUME NEW lt \in Lthreads, NEW how \in {"exited", "returned"}, Finishes(s, lt, how)
        PROVE  PollerInv'
    BY <1>0, <2>7, Zenon
    DEF Finishes, Leaves, Sets, Steps, PollerInv, PendingIsCounted, Awake
  <2>8. ASSUME NEW lt \in Lthreads, Signals(s, lt) PROVE PollerInv'
    BY <1>0, <2>8, Zenon DEF Signals, Sets, Steps, PollerInv, PendingIsCounted, Awake
  <2>9. ASSUME NEW t \in Schedulers, NEW lt \in Lthreads, Wakes(s, t, lt)
        PROVE  PollerInv'
    BY <1>0, <2>9, Zenon
    DEF Wakes, Pushed, Sets, Steps, Locked, PollerInv, PendingIsCounted, Awake
  <2> QED
    BY <1>3, <2>1, <2>2, <2>3, <2>4, <2>5, <2>6, <2>7, <2>8, <2>9, Zenon DEF
       UserEffect
<1>4. CASE OtherEffect
  <2>1. ASSUME NEW lt \in Lthreads, Descheds(lt) PROVE PollerInv'
    <3>1. /\ IsFiniteSet(waiting \ {lt})
          /\ Cardinality(waiting \ {lt}) = Cardinality(waiting) - 1
          /\ Cardinality(waiting \ {lt}) \in Nat /\ Cardinality(waiting) \in Nat
      BY <1>0, <2>1, FS_RemoveElement, FS_CardinalityType, Zenon DEF Descheds, PollerInv
    <3>2. lt # NULL
      BY NullAssumption, Zenon
    <3> QED
      BY <1>0, <2>1, <3>1, <3>2 DEF Descheds, PollerInv, PendingIsCounted, Awake
  <2>2. ASSUME NEW t \in Schedulers, NEW lt \in Lthreads, Arrives(t, lt)
        PROVE  PollerInv'
    BY <1>0, <2>2, Zenon
    DEF Arrives, Pushed, Sets, Locked, PollerInv, PendingIsCounted, Awake
  <2>3. CASE Ends
    <3>1. Cardinality(waiting) \in Nat
      BY <1>0, FS_CardinalityType, Zenon DEF PollerInv
    <3> QED
      BY <1>0, <2>3, <3>1 DEF Ends, PollerInv, PendingIsCounted, Awake
  <2> QED
    BY <1>4, <2>1, <2>2, <2>3, Zenon DEF OtherEffect
<1> QED
  BY <1>1, <1>2, <1>3, <1>4, Zenon DEF Effect, LoopEffect

\* When the last scheduler awake leaves its loop the pool is idle, and nothing
\* starts work in it again.
LEMMA DoneStep ==
  ASSUME IInv, Effect
  PROVE  DoneMeansDone'
<1>0. TypeOK /\ PcInv /\ PollerInv /\ BlockInv /\ DoneMeansDone
  BY Zenon DEF IInv
<1>1. ASSUME NEW s \in Schedulers, WorkEffect(s) PROVE DoneMeansDone'
  <2>1. CASE NoneExpired(s)
    BY <1>0, <2>1, Zenon
    DEF NoneExpired, Sets, Steps, DoneMeansDone, sched_isdone, PcInv
  <2>2. ASSUME NEW lt \in Lthreads, Expired(s, lt) PROVE DoneMeansDone'
    BY <1>0, <2>2, Zenon DEF Expired, Sets, Steps, DoneMeansDone, sched_isdone
  <2>3. ASSUME NEW t \in Schedulers, NEW lt \in Lthreads, Takes(s, t, lt)
        PROVE  DoneMeansDone'
    BY <1>0, <2>3, Zenon
    DEF Takes, Sets, Searching, Locked, DoneMeansDone, sched_isdone, Removes
  <2>4. ASSUME NEW label \in {"steal", "pop_blocking", "block"}, Searches(s, label)
        PROVE  DoneMeansDone'
    BY <1>0, <2>4, Zenon
    DEF Searches, Sets, Searching, DoneMeansDone, sched_isdone, PcInv
  <2>5. CASE PassAlone(s, "wake_neighbor", "adopt")
    BY <1>0, <2>5, Zenon
    DEF PassAlone, PassFrame, Sets, Steps, DoneMeansDone, sched_isdone, PcInv
  <2>6. CASE PassAlone(s, "exit_wake", "done")
    BY <1>0, <2>6, Zenon
    DEF PassAlone, PassFrame, Sets, Steps, DoneMeansDone, sched_isdone
  <2>7. ASSUME NEW t \in Schedulers, PassWake(s, t, "wake_neighbor", "adopt")
        PROVE  DoneMeansDone'
    BY <1>0, <2>7, Zenon
    DEF PassWake, PassFrame, Sets, Steps, Locked, DoneMeansDone, sched_isdone,
        PcInv
  <2>8. ASSUME NEW t \in Schedulers, PassWake(s, t, "exit_wake", "done")
        PROVE  DoneMeansDone'
    BY <1>0, <2>8, Zenon
    DEF PassWake, PassFrame, Sets, Steps, Locked, DoneMeansDone, sched_isdone
  <2>9. ASSUME NEW lt \in Lthreads, Adopts(s, lt) PROVE DoneMeansDone'
    BY <1>0, <2>9, NullAssumption, Zenon
    DEF Adopts, Sets, Steps, DoneMeansDone, sched_isdone, PcInv
  <2>10. ASSUME NEW lt \in Lthreads, Resumes(s, lt) PROVE DoneMeansDone'
    BY <1>0, <2>10, NullAssumption, Zenon
    DEF Resumes, Sets, Steps, DoneMeansDone, sched_isdone, PcInv
  <2>11. ASSUME NEW lt \in Lthreads, TailPlain(s, lt) PROVE DoneMeansDone'
    BY <1>0, <2>11, NullAssumption, Zenon
    DEF TailPlain, TailFrame, Sets, Steps, DoneMeansDone, sched_isdone
  <2>12. ASSUME NEW lt \in Lthreads, TailPush(s, lt) PROVE DoneMeansDone'
    BY <1>0, <2>12, NullAssumption, Zenon
    DEF TailPush, TailFrame, Sets, Steps, DoneMeansDone, sched_isdone
  <2> QED
    BY <1>1, <2>1, <2>2, <2>3, <2>4, <2>5, <2>6, <2>7, <2>8, <2>9, <2>10,
       <2>11, <2>12, Zenon DEF WorkEffect, Passes
<1>2. ASSUME NEW s \in Schedulers, BlockingEffect(s) PROVE DoneMeansDone'
  <2>1. CASE GoesRound(s)
    BY <1>0, <2>1, Zenon
    DEF GoesRound, BlockFrame, Sets, Steps, DoneMeansDone, sched_isdone
  <2>2. ASSUME NEW label \in {"begin_deep_sleep", "timed_wait"}, Commits(s, label)
        PROVE  DoneMeansDone'
    BY <1>0, <2>2, Zenon
    DEF Commits, BlockFrame, Sets, Steps, DoneMeansDone, sched_isdone
  <2>3. CASE FallsAsleep(s)
    BY <1>0, <2>3, Zenon DEF FallsAsleep, Sets, Steps, DoneMeansDone, sched_isdone
  <2>4. CASE LastAsleep(s)
    <3>1. \A t \in Schedulers : ~Awake(t)
      BY <1>0, <2>4, Zenon DEF LastAsleep, Steps, PcInv, Awake
    <3>2. num_pending_events = 0
      BY <1>0, <3>1, Zenon DEF PollerInv
    <3>3. Cardinality(waiting) \in Nat /\ (Cardinality(waiting) = 0 <=> waiting = {})
      BY <1>0, FS_CardinalityType, FS_EmptySet, Zenon DEF PollerInv
    <3>4. waiting = {} /\ poller_pc \in {"poll", "done"}
      BY <1>0, <3>2, <3>3 DEF PollerInv, PendingIsCounted, TypeOK
    <3>5. \A t \in Schedulers :
            \/ pc[t] \in {"begin_deep_sleep", "deep_wait"} /\ ~signaled[t]
            \/ pc[t] \in Over
      BY <1>0, <2>4, Zenon DEF LastAsleep, Steps, PcInv, Over
    <3>6. \A t \in Schedulers :
            sched_isdone(t) /\ current_lthread[t] = NULL /\ result[t] = NULL
      BY <1>0, <3>5, Zenon DEF BlockInv, PcInv, DoneMeansDone, Over
    <3> QED
      BY <2>4, <3>2, <3>4, <3>6, Zenon DEF LastAsleep, DoneMeansDone, sched_isdone
  <2>5. ASSUME NEW from \in {"deep_wait", "timed_wait"}, Returns(s, from)
        PROVE  DoneMeansDone'
    BY <1>0, <2>5, Zenon DEF Returns, Sets, Steps, DoneMeansDone, sched_isdone
  <2> QED
    BY <1>2, <2>1, <2>2, <2>3, <2>4, <2>5, Zenon DEF BlockingEffect
<1>3. ASSUME NEW s \in Schedulers, UserEffect(s) PROVE DoneMeansDone'
  <2>1. ASSUME NEW lt \in Lthreads, Creates(s, lt) PROVE DoneMeansDone'
    BY <1>0, <2>1, Zenon DEF Creates, Sets, DoneMeansDone, sched_isdone, PcInv
  <2>2. ASSUME NEW lt \in Lthreads, Yields(s, lt) PROVE DoneMeansDone'
    BY <1>0, <2>2, NullAssumption, Zenon
    DEF Yields, Leaves, Sets, Steps, DoneMeansDone, sched_isdone
  <2>3. ASSUME NEW lt \in Lthreads, Sleeps(s, lt) PROVE DoneMeansDone'
    BY <1>0, <2>3, NullAssumption, Zenon
    DEF Sleeps, Leaves, Sets, Steps, DoneMeansDone, sched_isdone
  <2>4. ASSUME NEW lt \in Lthreads, Sleeps0(s, lt) PROVE DoneMeansDone'
    BY <1>0, <2>4, NullAssumption, Zenon
    DEF Sleeps0, Leaves, Sets, Steps, DoneMeansDone, sched_isdone
  <2>5. ASSUME NEW lt \in Lthreads, WaitsFd(s, lt) PROVE DoneMeansDone'
    BY <1>0, <2>5, NullAssumption, Zenon
    DEF WaitsFd, Leaves, Sets, Steps, DoneMeansDone, sched_isdone
  <2>6. ASSUME NEW lt \in Lthreads, CondWaits(s, lt) PROVE DoneMeansDone'
    BY <1>0, <2>6, NullAssumption, Zenon
    DEF CondWaits, Leaves, Sets, Steps, DoneMeansDone, sched_isdone
  <2>7. ASSUME NEW lt \in Lthreads, NEW how \in {"exited", "returned"}, Finishes(s, lt, how)
        PROVE  DoneMeansDone'
    BY <1>0, <2>7, NullAssumption, Zenon
    DEF Finishes, Leaves, Sets, Steps, DoneMeansDone, sched_isdone
  <2>8. ASSUME NEW lt \in Lthreads, Signals(s, lt) PROVE DoneMeansDone'
    BY <1>0, <2>8, Zenon DEF Signals, Sets, Steps, DoneMeansDone, sched_isdone, PcInv
  <2>9. ASSUME NEW t \in Schedulers, NEW lt \in Lthreads, Wakes(s, t, lt)
        PROVE  DoneMeansDone'
    BY <1>0, <2>9, NullAssumption, Zenon
    DEF Wakes, Pushed, Marks, Pushes, Sets, Steps, Locked, DoneMeansDone,
        sched_isdone, PcInv
  <2> QED
    BY <1>3, <2>1, <2>2, <2>3, <2>4, <2>5, <2>6, <2>7, <2>8, <2>9, Zenon DEF
       UserEffect
<1>4. CASE OtherEffect
  <2>1. ASSUME NEW lt \in Lthreads, Descheds(lt) PROVE DoneMeansDone'
    BY <1>0, <2>1, Zenon DEF Descheds, DoneMeansDone, sched_isdone
  <2>2. ASSUME NEW t \in Schedulers, NEW lt \in Lthreads, Arrives(t, lt)
        PROVE  DoneMeansDone'
    BY <1>0, <2>2, NullAssumption, Zenon
    DEF Arrives, Pushed, Marks, Pushes, Sets, Locked, DoneMeansDone, sched_isdone
  <2>3. CASE Ends
    BY <1>0, <2>3, Zenon DEF Ends, DoneMeansDone, sched_isdone
  <2> QED
    BY <1>4, <2>1, <2>2, <2>3, Zenon DEF OtherEffect
<1> QED
  BY <1>1, <1>2, <1>3, <1>4, Zenon DEF Effect, LoopEffect

\* lthread_run() calls _lthread_run_sched() in a state that satisfies IInv.
LEMMA InitIInv == Init => IInv
<1> SUFFICES ASSUME Init PROVE IInv
  BY Zenon
<1> USE DEF Init
<1>1. 0 \in Schedulers
  BY NAssumption DEF Schedulers
<1>2. TypeOK
  BY <1>1, MainAssumption
  DEF TypeOK, RunPcs, LtOrNull, BlockStates, ClockReadings
<1>3. /\ Queue(0) = {Main}
      /\ \A t \in Schedulers : t # 0 => Queue(t) = {}
      /\ \A t \in Schedulers : Distinct(ready[t])
  BY <1>1 DEF Queue, Distinct
<1>4. PcInv
  BY Zenon DEF PcInv
<1>5. PollerInv
  BY FS_EmptySet DEF PollerInv, PendingIsCounted
<1>6. SchedInv /\ OnceInv
  BY <1>1, <1>3, MainAssumption, Zenon DEF SchedInv, OnceInv, OwnersAgree
<1>7. PlaceInv
  <2> SUFFICES ASSUME NEW lt \in Lthreads PROVE OnePlace(lt)
    BY Zenon DEF PlaceInv
  <2>1. ~InHand(lt) /\ ~Current(lt) /\ ~Registered(lt)
    BY NullAssumption, Zenon
    DEF InHand, Current, Registered, Asleep, WakePending
  <2>2. Queued(lt) => lt = Main
    BY <1>3, Zenon DEF Queued
  <2>3. ~needs_resched[lt] /\ (lt = Main => life[lt] = "live")
    BY Zenon
  <2>4. event_lt # lt
    BY NullAssumption, Zenon
  <2> HIDE DEF Init
  <2> QED
    BY <2>1, <2>2, <2>3, <2>4, Zenon DEF OnePlace, Registered
<1>8. RunInv /\ BlockInv /\ SleepInv
  BY Zenon DEF RunInv, BlockInv, SleepInv
<1>9. LiveInv
  <2>1. Queued(Main)
    BY <1>1, <1>3, Zenon DEF Queued
  <2> QED
    BY <2>1, Zenon DEF LiveInv, Held
<1>10. DoneMeansDone
  BY Zenon DEF DoneMeansDone
<1> QED
  BY <1>2, <1>4, <1>5, <1>6, <1>7, <1>8, <1>9, <1>10, Zenon DEF IInv

\* No step of a scheduler, of an lthread, of the poller or of lthread_run()
\* leaves IInv, in a program without timed condition waits.
LEMMA StepIInv == Untimed /\ IInv /\ [Next]_vars => IInv'
  BY StepEffect, TypeStep, PcStep, PollerStep, SchedStep, OnceStep, PlaceStep,
     RunStep, BlockStep, SleepStep, LiveStep, DoneStep, Zenon
  DEF IInv

\* The inductive invariant: in every reachable state of a program without timed
\* condition waits the flags that threads read
\* without the mutex they were written under say what they are read for, and
\* every lthread is in the one place those flags speak of.
THEOREM InductiveInvariant == Spec => [](Untimed => IInv)
<1>1. Init => (Untimed => IInv)
  BY InitIInv, Zenon
<1>2. (Untimed => IInv) /\ [Next]_vars => (Untimed => IInv)'
  BY StepIInv, Zenon DEF Untimed
<1> QED
  BY <1>1, <1>2, PTL DEF Spec

\* Every variable keeps the type of its C declaration, and num_pending_events never
\* goes below zero, in a program without timed condition waits.
THEOREM TypeCorrect == Spec => [](Untimed => TypeOK)
<1>1. IInv => TypeOK
  BY Zenon DEF IInv
<1> QED
  BY <1>1, InductiveInvariant, PTL

\* Two schedulers never hold one lthread, whatever stealing and wake-ups do: in a
\* program without timed condition waits, the scope of OneHolder, the assertions on
\* is_running in _lthread_resume() cannot fail.
THEOREM OneHolderHolds == Spec => []OneHolder
<1>1. (Untimed => IInv) => OneHolder
  <2> SUFFICES ASSUME Untimed, IInv PROVE OneHolder
    BY Zenon DEF OneHolder
  <2>0. /\ TypeOK /\ PcInv /\ SchedInv /\ OnceInv /\ PlaceInv
    BY Zenon DEF IInv
  <2>1. ASSUME NEW s \in Schedulers, NEW t \in Schedulers,
               NEW i \in 1 .. Len(ready[s]), NEW j \in 1 .. Len(ready[t]),
               ready[s][i] = ready[t][j]
        PROVE  s = t /\ i = j
    <3>1. ready[s][i] \in Queue(s) /\ ready[t][j] \in Queue(t)
      BY Zenon DEF Queue
    <3>2. s = t
      BY <2>0, <2>1, <3>1, Zenon DEF SchedInv
    <3> QED
      BY <2>0, <2>1, <3>2, Zenon DEF OnceInv, Distinct
  <2>2. ASSUME NEW t \in Schedulers PROVE Queue(t) \subseteq Lthreads
    BY <2>0 DEF Queue, TypeOK
  <2>3. ASSUME NEW s \in Schedulers, NEW t \in Schedulers
        PROVE  /\ result[s] \notin Queue(t) /\ current_lthread[s] \notin Queue(t)
               /\ result[s] # NULL => result[s] # current_lthread[t]
    <3>1. \A lt \in Lthreads :
            /\ lt \in Queue(t) => result[s] # lt /\ current_lthread[s] # lt
            /\ result[s] = lt => current_lthread[t] # lt
      BY <2>0, Zenon DEF PlaceInv, OnePlace, Queued, InHand, Current
    <3> QED
      BY <2>0, <2>2, <3>1, Zenon DEF TypeOK, LtOrNull
  <2>4. ASSUME NEW s \in Schedulers, NEW t \in Schedulers, s # t
        PROVE  /\ result[s] # NULL => result[s] # result[t]
               /\ current_lthread[s] # NULL => current_lthread[s] # current_lthread[t]
    BY <2>0, <2>4 DEF OnceInv, SchedInv, OwnersAgree
  <2> QED
    BY <2>1, <2>3, <2>4, Zenon DEF OneHolder
<1> QED
  BY <1>1, InductiveInvariant, PTL

\* Whoever appends to a ready queue or changes a sleep tree holds the mutex of
\* that scheduler, although lt->sched is read and written without one, in a program
\* without timed condition waits.
THEOREM LockedOwnerHolds == Spec => []LockedOwner
<1>1. (Untimed => IInv) => LockedOwner
  BY Zenon DEF IInv, SchedInv, LockedOwner
<1> QED
  BY <1>1, InductiveInvariant, PTL

\* No scheduler waits, with no signal on its way, while its queue or its sleep
\* tree holds an lthread: the block_state handshake loses no push, in a program
\* without timed condition waits.
THEOREM NoSleepOnWorkHolds == Spec => [](Untimed => NoSleepOnWork)
<1>1. IInv => NoSleepOnWork
  BY Zenon DEF IInv, BlockInv, NoSleepOnWork
<1> QED
  BY <1>1, InductiveInvariant, PTL

\* In a program without lthread_sleep(0) and without timed condition waits no live
\* lthread is ever forgotten.
THEOREM NothingLostHolds == Spec => []NothingLost
<1>1. (Untimed => IInv) => NothingLost
  <2> SUFFICES ASSUME IInv, "sleep0" \notin Calls, NEW lt \in Lthreads, life[lt] = "live"
               PROVE  Reachable(lt)
    BY Zenon DEF NothingLost, NoneForgotten
  <2>1. Held(lt)
    BY Zenon DEF IInv, LiveInv
  <2>2. needs_resched[lt] => Current(lt)
    BY Zenon DEF IInv, PlaceInv, OnePlace
  <2>3. OnStack(lt) => Current(lt)
    BY Zenon DEF OnStack, Current
  <2> QED
    BY <2>1, <2>2, <2>3, Zenon DEF Held, Registered, Reachable
<1> QED
  BY <1>1, InductiveInvariant, PTL

\* When one scheduler leaves its loop, no lthread is queued, asleep, in hand,
\* running or waited for anywhere: lthread_run() frees idle schedulers only, in a
\* program without timed condition waits.
THEOREM DoneMeansDoneHolds == Spec => [](Untimed => DoneMeansDone)
<1>1. IInv => DoneMeansDone
  BY Zenon DEF IInv
<1> QED
  BY <1>1, InductiveInvariant, PTL

\* An lthread that has exited or returned is named by nothing that would resume
\* it, so the memory that _lthread_free() releases is not used again, in a program
\* without timed condition waits.
THEOREM OverIsUnreachableHolds == Spec => []OverIsUnreachable
<1>1. (Untimed => IInv) => OverIsUnreachable
  <2> SUFFICES ASSUME IInv, NEW lt \in Lthreads,
                      life[lt] \in {"exited", "returned", "freed"}
               PROVE  /\ ~Queued(lt) /\ ~InHand(lt) /\ ~Asleep(lt)
                      /\ lt \notin blocked /\ lt \notin waiting /\ ~WakePending(lt)
                      /\ ~needs_resched[lt]
                      /\ life[lt] = "freed" => ~Current(lt)
    BY Zenon DEF OverIsUnreachable
  <2>1. ~Queued(lt) /\ ~InHand(lt) /\ ~Registered(lt) /\ ~needs_resched[lt]
    BY Zenon DEF IInv, PlaceInv, OnePlace
  <2>2. life[lt] = "freed" => ~Current(lt)
    BY NullAssumption, Zenon DEF IInv, RunInv, PcInv, Current
  <2> QED
    BY <2>1, <2>2, Zenon DEF Registered
<1> QED
  BY <1>1, InductiveInvariant, PTL

\* num_pending_events is the number of outstanding waits, in a program without
\* timed condition waits.
THEOREM PendingIsCountedHolds == Spec => [](Untimed => PendingIsCounted)
<1>1. IInv => PendingIsCounted
  BY Zenon DEF IInv, PollerInv
<1> QED
  BY <1>1, InductiveInvariant, PTL
=============================================================================
