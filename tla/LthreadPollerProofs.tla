-------------------------- MODULE LthreadPollerProofs -----------------------
(***************************************************************************)
(* The poller against any users: proofs, for every number of lthreads and  *)
(* descriptors and every width of fd_wait, of the properties that the runs *)
(* of LthreadSocket check.  They are about PollerSpec; LthreadSocketProofs *)
(* shows that the socket functions use the poller so.  The lemmas show     *)
(* that every step keeps one part of PollerInv, with one step per action.  *)
(***************************************************************************)
EXTENDS LthreadPollerInv, FiniteSetTheorems, TLAPS

\* A descriptor as fd_wait holds it.
LEMMA ModRange == \A w \in Fds \X Dirs : w[1] \in Nat /\ w[1] % Width \in 0 .. Width - 1
<1> SUFFICES ASSUME NEW w \in Fds \X Dirs
             PROVE  w[1] \in Nat /\ w[1] % Width \in 0 .. Width - 1
  BY Zenon
<1>1. w[1] \in Nat
  BY KernelAssumption, Zenon
<1>2. \A n \in Nat : n % Width \in 0 .. Width - 1
  BY PollerAssumption
<1> QED
  BY <1>1, <1>2, Zenon

\* Equal pairs have equal parts.
LEMMA SameTuple ==
  ASSUME NEW a, NEW b, NEW c, NEW d, <<a, b>> = <<c, d>>
  PROVE  a = c /\ b = d
  BY Zenon

\* The null pointer is no event.
LEMMA NoNull == NULL \notin Events
  BY PollerAssumption, Zenon DEF Events

\* The -1 that is stored into fd_wait when a wait is over fits its width.
LEMMA MinusOne == (-1) % Width \in 0 .. Width - 1
  BY PollerAssumption

\* What lthread_poller_poll takes from the kernel: an event for each filter of a
\* batch, with EV_EOF only where the peer has closed.
LEMMA PollEffect ==
  ASSUME Types, lthread_poller_poll
  PROVE  \E batch \in SUBSET filters : \E es \in SUBSET Events : \E e \in es :
           /\ filters' = filters \ batch
           /\ \A g \in es : g.filter \in batch /\ (g.eof => g.filter[1] \in hup)
           /\ \A f \in batch : \E g \in es : g.filter = f
           /\ \A g, h \in es : g.filter = h.filter => g = h
           /\ event' = e /\ events' = es \ {e}
           /\ ev' = "READ" /\ woken' = FALSE /\ poller_pc' = "desched"
<1>1. PICK batch \in Batches :
        LET es == {[filter |-> f, eof |-> f[1] \in hup] : f \in batch} IN
        filters' = filters \ batch /\ \E e \in es : Handle(e, es)
  BY Zenon DEF lthread_poller_poll
<1>2. batch \in SUBSET filters
  BY Zenon DEF Batches, Active
<1> DEFINE Ev(f) == [filter |-> f, eof |-> f[1] \in hup]
           es == {Ev(f) : f \in batch}
<1>3. \A f \in batch : /\ Ev(f) \in Events /\ Ev(f).filter = f
                       /\ Ev(f).eof => f[1] \in hup
  <2> SUFFICES ASSUME NEW f \in batch
               PROVE  Ev(f) \in Events /\ Ev(f).filter = f /\ (Ev(f).eof => f[1] \in hup)
    BY Zenon
  <2>1. f \in Fds \X Dirs
    BY <1>2, Zenon DEF Types
  <2>2. (f[1] \in hup) \in BOOLEAN
    OBVIOUS
  <2>3. Ev(f) \in Events
    BY <2>1, <2>2, Zenon DEF Events
  <2> QED
    BY <2>3, Zenon
<1>4. PICK e \in es : Handle(e, es)
  BY <1>1, Zenon
<1> HIDE DEF Ev
<1>5. es \in SUBSET Events
  BY <1>3, Zenon
<1>6. \A g \in es : g.filter \in batch /\ (g.eof => g.filter[1] \in hup)
  BY <1>3, Zenon
<1>7. \A f \in batch : \E g \in es : g.filter = f
  BY <1>3, Zenon
<1>8. \A g, h \in es : g.filter = h.filter => g = h
  BY <1>3, Zenon
<1>9. filters' = filters \ batch
  BY <1>1, Zenon
<1> HIDE DEF es
<1>10. /\ event' = e /\ events' = es \ {e}
       /\ ev' = "READ" /\ woken' = FALSE /\ poller_pc' = "desched"
  BY <1>4, Zenon DEF Handle
<1> QED
  BY <1>2, <1>4, <1>5, <1>6, <1>7, <1>8, <1>9, <1>10, Zenon

\* A step of PollerSpec is one of the kinds of AnyStep.
LEMMA Steps == [PollerNext]_Vars => AnyStep
  BY Zenon DEF PollerNext, AnyStep, Vars, pollerVars, Switched, Poller

\* Every step keeps the types.
LEMMA TypesStep ==
  ASSUME Types, ThreadOK, \A lt \in Lthreads : LtOK(lt), AnyStep
  PROVE  Types'
<1>0. hup \subseteq hup' /\ uses' = uses
  BY Zenon DEF AnyStep
<1> USE <1>0
<1>1. ASSUME NEW t \in Lthreads, Elsewhere(t) PROVE Types'
  BY <1>1 DEF Elsewhere, Quiet, threadVars, Outside, Types
<1>2. ASSUME NEW t \in Lthreads, BeginWait(t) PROVE Types'
  BY <1>2 DEF BeginWait, Quiet, threadVars, Types
<1>3. ASSUME NEW t \in Lthreads, EndWait(t) PROVE Types'
  BY <1>3, Zenon DEF EndWait, Quiet, threadVars, Types
<1>4. ASSUME NEW t \in Lthreads, add_waiting_lthread(t) PROVE Types'
  <2>0. arg[t] \in uses[t]
    BY <1>4, Zenon DEF add_waiting_lthread, LtOK
  <2>1. fd_wait' \in [Lthreads -> 0 .. Width - 1]
    <3>1. CASE UNCHANGED fd_wait
      BY <3>1, Zenon DEF Types
    <3>2. CASE fd_wait' = [fd_wait EXCEPT ![t] = arg[t][1] % Width]
      BY <3>2, <2>0, ModRange, Zenon DEF Types
    <3> QED
      BY <1>4, <3>1, <3>2, Zenon DEF add_waiting_lthread, Fail, ltVars
  <2> QED
    BY <1>4, <2>1 DEF add_waiting_lthread, Fail, ltVars, threadVars, Types, Bits, BIT
<1>5. ASSUME NEW t \in Lthreads, register_event(t) PROVE Types'
  BY <1>5 DEF register_event, threadVars, Types, LtOK, Parked
<1>6. ASSUME NEW t \in Lthreads, resume_load(t) PROVE Types'
  BY <1>6, Zenon DEF resume_load, threadVars, Types
<1>7. ASSUME NEW t \in Lthreads, resume_store(t) PROVE Types'
  BY <1>7, Zenon DEF resume_store, threadVars, Types
<1>8. ASSUME NEW t \in Lthreads, desched_event(t) PROVE Types'
  BY <1>8, MinusOne, Zenon DEF desched_event, Types
<1>9. CASE lthread_poller_poll
  <2>1. /\ filters' \subseteq filters /\ event' \in Events /\ events' \subseteq Events
        /\ ev' = "READ" /\ woken' = FALSE /\ poller_pc' = "desched"
    BY <1>9, PollEffect, Zenon
  <2> QED
    BY <1>9, <2>1, Zenon DEF lthread_poller_poll, ltVars, Types, Dirs
<1>10. CASE poller_done
  BY <1>10, Zenon DEF poller_done, ltVars, Types
<1>11. CASE desched_none
  BY <1>11, Zenon DEF desched_none, Handled, Handle, ltVars, Types, Dirs
<1>12. CASE handle_eof
  BY <1>12, Zenon DEF handle_eof, Types, ThreadOK, Handed, Bits
<1>13. CASE desched_push
  BY <1>13, Zenon DEF desched_push, Types, ThreadOK, Handed
<1>14. CASE handle_event_return
  BY <1>14, Zenon DEF handle_event_return, Handled, Handle, ltVars, Types, Dirs
<1>15. CASE lthread_poller_close
  BY <1>15, Zenon DEF lthread_poller_close, ltVars, threadVars, Types
<1>16. CASE UNCHANGED <<pollerVars, filters>>
  BY <1>16, Zenon DEF pollerVars, ltVars, threadVars, Types
<1> QED
  BY <1>1, <1>2, <1>3, <1>4, <1>5, <1>6, <1>7, <1>8, <1>9, <1>10, <1>11, <1>12,
     <1>13, <1>14, <1>15, <1>16, Zenon
  DEF AnyStep

\* Every step keeps what an lthread's place says of it.
LEMMA LtStep ==
  ASSUME Types, ThreadOK, \A lt \in Lthreads : LtOK(lt), AnyStep
  PROVE  (\A lt \in Lthreads : LtOK(lt))'
<1>0. hup \subseteq hup' /\ uses' = uses
  BY Zenon DEF AnyStep
<1> USE <1>0
<1>1. ASSUME NEW t \in Lthreads, Elsewhere(t) PROVE (\A lt \in Lthreads : LtOK(lt))'
  BY <1>1, Zenon DEF Elsewhere, Quiet, threadVars, Outside, LtOK, Types, Parked
<1>2. ASSUME NEW t \in Lthreads, BeginWait(t) PROVE (\A lt \in Lthreads : LtOK(lt))'
  BY <1>2, Zenon DEF BeginWait, Quiet, threadVars, LtOK, Types, Parked
<1>3. ASSUME NEW t \in Lthreads, EndWait(t) PROVE (\A lt \in Lthreads : LtOK(lt))'
  BY <1>3, Zenon DEF EndWait, Quiet, threadVars, LtOK, Types, Parked
<1>4. ASSUME NEW t \in Lthreads, add_waiting_lthread(t) PROVE (\A lt \in Lthreads : LtOK(lt))'
  BY <1>4 DEF add_waiting_lthread, Fail, ltVars, threadVars, LtOK, Types, Parked
<1>5. ASSUME NEW t \in Lthreads, register_event(t) PROVE (\A lt \in Lthreads : LtOK(lt))'
  BY <1>5, Zenon DEF register_event, threadVars, LtOK, Types, Parked
<1>6. ASSUME NEW t \in Lthreads, resume_load(t) PROVE (\A lt \in Lthreads : LtOK(lt))'
  BY <1>6, Zenon DEF resume_load, threadVars, LtOK, Types, Parked
<1>7. ASSUME NEW t \in Lthreads, resume_store(t) PROVE (\A lt \in Lthreads : LtOK(lt))'
  BY <1>7, Zenon DEF resume_store, threadVars, LtOK, Types, Parked
<1>8. ASSUME NEW t \in Lthreads, desched_event(t) PROVE (\A lt \in Lthreads : LtOK(lt))'
  BY <1>8, Zenon DEF desched_event, LtOK, Types, Parked
<1>9. CASE lthread_poller_poll
  BY <1>9, Zenon DEF lthread_poller_poll, ltVars, LtOK
<1>10. CASE poller_done
  BY <1>10, Zenon DEF poller_done, ltVars, LtOK
<1>11. CASE desched_none
  BY <1>11, Zenon DEF desched_none, ltVars, LtOK
<1>12. CASE handle_eof
  BY <1>12, Zenon DEF handle_eof, LtOK
<1>13. CASE desched_push
  BY <1>13 DEF desched_push, LtOK, Types, ThreadOK, Handed, Parked
<1>14. CASE handle_event_return
  BY <1>14, Zenon DEF handle_event_return, ltVars, LtOK
<1>15. CASE lthread_poller_close
  BY <1>15, Zenon DEF lthread_poller_close, ltVars, LtOK
<1>16. CASE UNCHANGED <<pollerVars, filters>>
  BY <1>16, Zenon DEF pollerVars, ltVars, LtOK
<1> QED
  BY <1>1, <1>2, <1>3, <1>4, <1>5, <1>6, <1>7, <1>8, <1>9, <1>10, <1>11, <1>12,
     <1>13, <1>14, <1>15, <1>16, Zenon
  DEF AnyStep

\* add_waiting_lthread fails an assertion or inserts the lthread under its key.
LEMMA AddEffect ==
  ASSUME Types, EofIsOwn, \A lt \in Lthreads : LtOK(lt),
         NEW t \in Lthreads, add_waiting_lthread(t)
  PROVE  /\ at[t] = "wait" /\ arg[t] \in uses[t] /\ arg[t] \in Fds \X Dirs
         /\ ~needs_resched[t] /\ loaded[t] = {}
         /\ AddFails(t) \/ Added(t)
<1>1. at[t] = "wait"
  BY Zenon DEF add_waiting_lthread
<1>2. arg[t] \in uses[t] /\ ~needs_resched[t] /\ loaded[t] = {}
  BY <1>1, Zenon DEF LtOK
<1>3. arg[t] \in Fds \X Dirs
  BY <1>2, Zenon DEF Types
<1>4. "FDEOF" \notin state[t] /\ state[t] \subseteq Bits
  BY <1>1, Zenon DEF EofIsOwn, Types, Parked
<1> DEFINE bits == state[t] \cup {BIT(arg[t][2])}
<1>5. ASSUME state[t] \cap {"WAIT_READ", "WAIT_WRITE"} = {}
      PROVE  /\ bits = {BIT(arg[t][2])}
             /\ fd_key(bits, arg[t][1]) = <<arg[t][1] % Width, arg[t][2]>>
  <2>1. bits = {BIT(arg[t][2])}
    BY <1>4, <1>5, Zenon DEF Bits
  <2>2. arg[t][2] \in {"READ", "WRITE"}
    BY <1>3, Zenon DEF Dirs
  <2> QED
    BY <2>1, <2>2, Zenon DEF fd_key, BIT
<1> QED
  BY <1>1, <1>2, <1>3, <1>5, Zenon DEF add_waiting_lthread, Fail, AddFails, Added

\* The key of a waiter.
LEMMA WaiterKey ==
  ASSUME Types, NEW lt \in waiting, LtOK(lt), WaiterOK(lt)
  PROVE  /\ arg[lt] \in uses[lt] /\ arg[lt] \in Fds \X Dirs
         /\ fd_key(state[lt], fd_wait[lt]) = <<arg[lt][1] % Width, arg[lt][2]>>
<1>1. arg[lt] \in uses[lt] /\ arg[lt] \in Fds \X Dirs
  BY Zenon DEF LtOK, WaiterOK, Types
<1>2. arg[lt][1] % Width \in 0 .. Width - 1
  BY <1>1, ModRange, Zenon
<1>3. (arg[lt][1] % Width) % Width = arg[lt][1] % Width
  BY <1>2, PollerAssumption
<1>4. arg[lt][2] \in {"READ", "WRITE"}
  BY <1>1, Zenon DEF Dirs
<1> QED
  BY <1>1, <1>3, <1>4, Zenon DEF fd_key, BIT, WaiterOK

\* Every step keeps the waiters as they were inserted.
LEMMA WaiterStep ==
  ASSUME Types, ThreadOK, EofIsOwn, \A lt \in Lthreads : LtOK(lt),
         \A lt \in waiting : WaiterOK(lt), AnyStep
  PROVE  (\A lt \in waiting : WaiterOK(lt))'
<1>0. hup \subseteq hup' /\ uses' = uses
  BY Zenon DEF AnyStep
<1> USE <1>0
<1>1. ASSUME NEW t \in Lthreads, Elsewhere(t) PROVE (\A lt \in waiting : WaiterOK(lt))'
  BY <1>1, Zenon DEF Elsewhere, Quiet, threadVars, Outside, WaiterOK, LtOK, Types, Parked
<1>2. ASSUME NEW t \in Lthreads, BeginWait(t) PROVE (\A lt \in waiting : WaiterOK(lt))'
  BY <1>2, Zenon DEF BeginWait, Quiet, threadVars, WaiterOK, LtOK, Types, Parked
<1>3. ASSUME NEW t \in Lthreads, EndWait(t) PROVE (\A lt \in waiting : WaiterOK(lt))'
  BY <1>3, Zenon DEF EndWait, Quiet, threadVars, WaiterOK, LtOK, Types, Parked
<1>4. ASSUME NEW t \in Lthreads, add_waiting_lthread(t) PROVE (\A lt \in waiting : WaiterOK(lt))'
  <2>1. /\ at[t] = "wait" /\ ~needs_resched[t] /\ (AddFails(t) \/ Added(t))
    BY <1>4, AddEffect, Zenon
  <2>2. CASE AddFails(t)
    BY <2>2, Zenon DEF AddFails, ltVars, WaiterOK
  <2>3. CASE Added(t)
    <3> SUFFICES ASSUME NEW lt \in waiting' PROVE WaiterOK(lt)'
      BY Zenon
    <3>1. lt \in Lthreads /\ (lt # t => lt \in waiting)
      BY <2>3, Zenon DEF Added, Types
    <3>2. CASE lt = t
      <4>1. at'[t] = "register" /\ ~needs_resched'[t]
        BY <2>1, <2>3, Zenon DEF Added, Types
      <4>3. state'[t] = {BIT(arg'[t][2])}
        BY <2>3, Zenon DEF Added, Types
      <4>2. fd_wait'[t] = arg'[t][1] % Width
        BY <2>3, Zenon DEF Added, Types
      <4> QED
        BY <3>2, <4>1, <4>2, <4>3, Zenon DEF WaiterOK, Parked
    <3>3. CASE lt # t
      <4>1. /\ at'[lt] = at[lt] /\ state'[lt] = state[lt] /\ fd_wait'[lt] = fd_wait[lt]
            /\ UNCHANGED <<needs_resched, arg, loaded>>
        BY <2>3, <3>1, <3>3, Zenon DEF Added, Types
      <4>2. WaiterOK(lt)
        BY <3>1, <3>3, Zenon
      <4> QED
        BY <4>1, <4>2, Zenon DEF WaiterOK
    <3> QED
      BY <3>2, <3>3, Zenon
  <2> QED
    BY <2>1, <2>2, <2>3, Zenon
<1>5. ASSUME NEW t \in Lthreads, register_event(t) PROVE (\A lt \in waiting : WaiterOK(lt))'
  BY <1>5, Zenon DEF register_event, threadVars, WaiterOK, LtOK, Types, Parked
<1>6. ASSUME NEW t \in Lthreads, resume_load(t) PROVE (\A lt \in waiting : WaiterOK(lt))'
  BY <1>6, Zenon DEF resume_load, threadVars, WaiterOK, LtOK, Types, Parked
<1>7. ASSUME NEW t \in Lthreads, resume_store(t) PROVE (\A lt \in waiting : WaiterOK(lt))'
  <2> SUFFICES ASSUME NEW lt \in waiting' PROVE WaiterOK(lt)'
    BY Zenon
  <2>1. lt \in waiting /\ lt \in Lthreads /\ WaiterOK(lt)
    BY <1>7, Zenon DEF resume_store, Types
  <2>2. CASE lt = t
    <3>1. at[t] = "tail" /\ state'[t] = state[t]
      BY <1>7, <2>1, <2>2, Zenon DEF resume_store, WaiterOK, Types
    <3>2. /\ at'[t] = "off" /\ ~needs_resched'[t]
          /\ UNCHANGED <<fd_wait, arg>>
      BY <1>7, <2>1, <2>2, Zenon DEF resume_store, WaiterOK, Types
    <3> QED
      BY <2>1, <2>2, <3>1, <3>2, Zenon DEF WaiterOK, Parked
  <2>3. CASE lt # t
    <3>1. /\ at'[lt] = at[lt] /\ state'[lt] = state[lt] /\ loaded'[lt] = loaded[lt]
          /\ needs_resched'[lt] = needs_resched[lt] /\ UNCHANGED <<fd_wait, arg>>
      BY <1>7, <2>1, <2>3, Zenon DEF resume_store, Types
    <3> QED
      BY <2>1, <3>1, Zenon DEF WaiterOK
  <2> QED
    BY <2>2, <2>3, Zenon
<1>8. ASSUME NEW t \in Lthreads, desched_event(t) PROVE (\A lt \in waiting : WaiterOK(lt))'
  BY <1>8, Zenon DEF desched_event, WaiterOK, LtOK, Types, Parked
<1>9. CASE lthread_poller_poll
  BY <1>9, Zenon DEF lthread_poller_poll, ltVars, WaiterOK
<1>10. CASE poller_done
  BY <1>10, Zenon DEF poller_done, ltVars, WaiterOK
<1>11. CASE desched_none
  BY <1>11, Zenon DEF desched_none, ltVars, WaiterOK
<1>12. CASE handle_eof
  BY <1>12, Zenon DEF handle_eof, WaiterOK, ThreadOK, Handed, Types
<1>13. CASE desched_push
  <2>1. event_lt \notin waiting
    BY <1>13, Zenon DEF desched_push, ThreadOK, Handed
  <2>2. \A lt \in waiting : at'[lt] = at[lt] /\ needs_resched'[lt] = needs_resched[lt]
    BY <1>13, <2>1, Zenon DEF desched_push, Types
  <2>3. UNCHANGED <<state, fd_wait, arg, loaded, waiting>>
    BY <1>13, Zenon DEF desched_push
  <2> QED
    BY <2>2, <2>3, Zenon DEF WaiterOK
<1>14. CASE handle_event_return
  BY <1>14, Zenon DEF handle_event_return, ltVars, WaiterOK
<1>15. CASE lthread_poller_close
  BY <1>15, Zenon DEF lthread_poller_close, ltVars, WaiterOK
<1>16. CASE UNCHANGED <<pollerVars, filters>>
  BY <1>16, Zenon DEF pollerVars, ltVars, WaiterOK
<1> QED
  BY <1>1, <1>2, <1>3, <1>4, <1>5, <1>6, <1>7, <1>8, <1>9, <1>10, <1>11, <1>12,
     <1>13, <1>14, <1>15, <1>16, Zenon
  DEF AnyStep

\* Every step keeps what the poller's thread is doing.
LEMMA ThreadStep ==
  ASSUME Types, ThreadOK, EofIsOwn, \A lt \in Lthreads : LtOK(lt),
         \A lt \in waiting : WaiterOK(lt), AnyStep
  PROVE  ThreadOK'
<1>0. hup \subseteq hup' /\ uses' = uses
  BY Zenon DEF AnyStep
<1> USE <1>0
<1>1. ASSUME NEW t \in Lthreads, Elsewhere(t) PROVE ThreadOK'
  BY <1>1, Zenon DEF Elsewhere, Quiet, threadVars, ThreadOK, Handed, Types, Parked
<1>2. ASSUME NEW t \in Lthreads, BeginWait(t) PROVE ThreadOK'
  BY <1>2, Zenon DEF BeginWait, Quiet, threadVars, ThreadOK, Handed, Types, Parked
<1>3. ASSUME NEW t \in Lthreads, EndWait(t) PROVE ThreadOK'
  BY <1>3, Zenon DEF EndWait, Quiet, threadVars, ThreadOK, Handed, Types, Parked
<1>4. ASSUME NEW t \in Lthreads, add_waiting_lthread(t) PROVE ThreadOK'
  <2>1. /\ at[t] = "wait" /\ arg[t] \in uses[t] /\ arg[t] \in Fds \X Dirs
        /\ ~needs_resched[t] /\ loaded[t] = {}
        /\ AddFails(t) \/ Added(t)
    BY <1>4, AddEffect, Zenon
  <2>2. CASE AddFails(t)
    BY <2>2, Zenon DEF AddFails, ltVars, threadVars, ThreadOK
  <2>3. CASE Added(t)
    BY <2>1, <2>3, Zenon DEF Added, threadVars, ThreadOK, Handed, Types, Parked
  <2> QED
    BY <2>1, <2>2, <2>3, Zenon
<1>5. ASSUME NEW t \in Lthreads, register_event(t) PROVE ThreadOK'
  BY <1>5, Zenon DEF register_event, threadVars, ThreadOK, Handed, Types, Parked
<1>6. ASSUME NEW t \in Lthreads, resume_load(t) PROVE ThreadOK'
  BY <1>6, Zenon DEF resume_load, threadVars, ThreadOK, Handed, Types, Parked
<1>7. ASSUME NEW t \in Lthreads, resume_store(t) PROVE ThreadOK'
  BY <1>7, Zenon DEF resume_store, threadVars, ThreadOK, Handed, Types, Parked
<1>8. ASSUME NEW t \in Lthreads, desched_event(t) PROVE ThreadOK'
  <2>1. t \in waiting /\ fd_key(state[t], fd_wait[t]) = <<event.filter[1] % Width, ev>>
    BY <1>8, Zenon DEF desched_event, Keyed
  <2>1a. LtOK(t) /\ WaiterOK(t)
    BY <2>1, Zenon
  <2>1b. fd_key(state[t], fd_wait[t]) = <<arg[t][1] % Width, arg[t][2]>>
    BY <2>1, <2>1a, WaiterKey, Zenon
  <2>1c. <<arg[t][1] % Width, arg[t][2]>> = <<event.filter[1] % Width, ev>>
    BY <2>1, <2>1b, Zenon
  <2>2. arg[t][1] % Width = event.filter[1] % Width
    BY <2>1c, SameTuple, Zenon
  <2>3. at[t] \in Parked /\ ~needs_resched[t]
    BY <2>1, Zenon DEF WaiterOK
  <2> QED
    BY <1>8, <2>1, <2>2, <2>3, PollerAssumption, Zenon DEF desched_event, ThreadOK, Handed, Types
<1>9. CASE lthread_poller_poll
  <2>1. event' \in Events /\ poller_pc' = "desched"
    BY <1>9, PollEffect, Zenon
  <2>2. poller_pc = "poll" /\ UNCHANGED <<ltVars, event_lt, waiting>>
    BY <1>9, Zenon DEF lthread_poller_poll
  <2> QED
    BY <2>1, <2>2, NoNull, Zenon DEF ThreadOK, Handed
<1>10. CASE poller_done
  BY <1>10, Zenon DEF poller_done, ltVars, ThreadOK, Handed, Types
<1>11. CASE desched_none
  BY <1>11, NoNull, Zenon DEF desched_none, Handled, Handle, ltVars, ThreadOK, Handed, Types
<1>12. CASE handle_eof
  BY <1>12, Zenon DEF handle_eof, ThreadOK, Handed, Types
<1>13. CASE desched_push
  BY <1>13, Zenon DEF desched_push, ThreadOK, Handed, Types
<1>14. CASE handle_event_return
  BY <1>14, NoNull, Zenon DEF handle_event_return, Handled, Handle, ltVars, ThreadOK, Handed, Types
<1>15. CASE lthread_poller_close
  BY <1>15, Zenon DEF lthread_poller_close, ltVars, threadVars, ThreadOK, Handed, Types
<1>16. CASE UNCHANGED <<pollerVars, filters>>
  BY <1>16, Zenon DEF pollerVars, ltVars, threadVars, ThreadOK, Handed, Types
<1> QED
  BY <1>1, <1>2, <1>3, <1>4, <1>5, <1>6, <1>7, <1>8, <1>9, <1>10, <1>11, <1>12,
     <1>13, <1>14, <1>15, <1>16, Zenon
  DEF AnyStep

\* Every step keeps the mark of the end of file with its wait.
LEMMA EofStep ==
  ASSUME Types, ThreadOK, EofIsOwn, EofKnown, \A lt \in Lthreads : LtOK(lt), AnyStep
  PROVE  EofIsOwn'
<1>0. hup \subseteq hup' /\ uses' = uses
  BY Zenon DEF AnyStep
<1> USE <1>0
<1>1. ASSUME NEW t \in Lthreads, Elsewhere(t) PROVE EofIsOwn'
  BY <1>1, Zenon DEF Elsewhere, Quiet, threadVars, Outside, EofIsOwn, Types, Parked
<1>2. ASSUME NEW t \in Lthreads, BeginWait(t) PROVE EofIsOwn'
  BY <1>2 DEF BeginWait, Quiet, threadVars, EofIsOwn, Types, Parked
<1>3. ASSUME NEW t \in Lthreads, EndWait(t) PROVE EofIsOwn'
  BY <1>3, Zenon DEF EndWait, Quiet, EofIsOwn, Types, Parked, LtOK
<1>4. ASSUME NEW t \in Lthreads, add_waiting_lthread(t) PROVE EofIsOwn'
  <2>1. /\ at[t] = "wait" /\ arg[t] \in uses[t] /\ arg[t] \in Fds \X Dirs
        /\ ~needs_resched[t] /\ loaded[t] = {}
        /\ AddFails(t) \/ Added(t)
    BY <1>4, AddEffect, Zenon
  <2>2. CASE AddFails(t)
    BY <2>2, Zenon DEF AddFails, ltVars, threadVars, EofIsOwn
  <2>3. CASE Added(t)
    BY <2>1, <2>3, Zenon DEF Added, threadVars, EofIsOwn, Types, Parked, BIT
  <2> QED
    BY <2>1, <2>2, <2>3, Zenon
<1>5. ASSUME NEW t \in Lthreads, register_event(t) PROVE EofIsOwn'
  BY <1>5, Zenon DEF register_event, threadVars, EofIsOwn, Types, Parked
<1>6. ASSUME NEW t \in Lthreads, resume_load(t) PROVE EofIsOwn'
  BY <1>6, Zenon DEF resume_load, threadVars, EofIsOwn, Types, Parked
<1>7. ASSUME NEW t \in Lthreads, resume_store(t) PROVE EofIsOwn'
  BY <1>7, Zenon DEF resume_store, threadVars, EofIsOwn, Types, Parked
<1>8. ASSUME NEW t \in Lthreads, desched_event(t) PROVE EofIsOwn'
  BY <1>8, Zenon DEF desched_event, EofIsOwn, Types, Parked
<1>9. CASE lthread_poller_poll
  BY <1>9, Zenon DEF lthread_poller_poll, ltVars, EofIsOwn
<1>10. CASE poller_done
  BY <1>10, Zenon DEF poller_done, ltVars, EofIsOwn
<1>11. CASE desched_none
  BY <1>11, Zenon DEF desched_none, ltVars, EofIsOwn
<1>12. CASE handle_eof
  BY <1>12, Zenon DEF handle_eof, EofIsOwn, ThreadOK, EofKnown, Handed, Types
<1>13. CASE desched_push
  BY <1>13, Zenon DEF desched_push, EofIsOwn, Types, ThreadOK, Handed, Parked
<1>14. CASE handle_event_return
  BY <1>14, Zenon DEF handle_event_return, ltVars, EofIsOwn
<1>15. CASE lthread_poller_close
  BY <1>15, Zenon DEF lthread_poller_close, ltVars, EofIsOwn
<1>16. CASE UNCHANGED <<pollerVars, filters>>
  BY <1>16, Zenon DEF pollerVars, ltVars, EofIsOwn
<1> QED
  BY <1>1, <1>2, <1>3, <1>4, <1>5, <1>6, <1>7, <1>8, <1>9, <1>10, <1>11, <1>12,
     <1>13, <1>14, <1>15, <1>16, Zenon
  DEF AnyStep

\* Every step keeps the events' marks true.
LEMMA EofKnownStep ==
  ASSUME Types, ThreadOK, EofIsOwn, EofKnown, \A lt \in Lthreads : LtOK(lt), AnyStep
  PROVE  EofKnown'
<1>0. hup \subseteq hup' /\ uses' = uses
  BY Zenon DEF AnyStep
<1> USE <1>0
<1>1. ASSUME NEW t \in Lthreads, Elsewhere(t) PROVE EofKnown'
  BY <1>1, Zenon DEF Elsewhere, Quiet, threadVars, EofKnown
<1>2. ASSUME NEW t \in Lthreads, BeginWait(t) PROVE EofKnown'
  BY <1>2, Zenon DEF BeginWait, Quiet, threadVars, EofKnown
<1>3. ASSUME NEW t \in Lthreads, EndWait(t) PROVE EofKnown'
  BY <1>3, Zenon DEF EndWait, Quiet, threadVars, EofKnown
<1>4. ASSUME NEW t \in Lthreads, add_waiting_lthread(t) PROVE EofKnown'
  <2>1. /\ at[t] = "wait" /\ arg[t] \in uses[t] /\ arg[t] \in Fds \X Dirs
        /\ ~needs_resched[t] /\ loaded[t] = {}
        /\ AddFails(t) \/ Added(t)
    BY <1>4, AddEffect, Zenon
  <2>2. CASE AddFails(t)
    BY <2>2, Zenon DEF AddFails, ltVars, threadVars, EofKnown
  <2>3. CASE Added(t)
    BY <2>1, <2>3, Zenon DEF Added, threadVars, EofKnown
  <2> QED
    BY <2>1, <2>2, <2>3, Zenon
<1>5. ASSUME NEW t \in Lthreads, register_event(t) PROVE EofKnown'
  BY <1>5, Zenon DEF register_event, threadVars, EofKnown
<1>6. ASSUME NEW t \in Lthreads, resume_load(t) PROVE EofKnown'
  BY <1>6, Zenon DEF resume_load, threadVars, EofKnown
<1>7. ASSUME NEW t \in Lthreads, resume_store(t) PROVE EofKnown'
  BY <1>7, Zenon DEF resume_store, threadVars, EofKnown
<1>8. ASSUME NEW t \in Lthreads, desched_event(t) PROVE EofKnown'
  BY <1>8, Zenon DEF desched_event, EofKnown
<1>9. CASE lthread_poller_poll
  <2>1. \E es \in SUBSET Events : /\ \A g \in es : g.eof => g.filter[1] \in hup
                                  /\ event' \in es /\ events' \subseteq es
    <3>1. PICK batch \in SUBSET filters, es \in SUBSET Events, e \in Events :
            /\ \A g \in es : g.filter \in batch /\ (g.eof => g.filter[1] \in hup)
            /\ e \in es /\ event' = e /\ events' = es \ {e}
      BY <1>9, PollEffect, Zenon
    <3> QED
      BY <3>1, Zenon
  <2> QED
    BY <2>1, Zenon DEF EofKnown
<1>10. CASE poller_done
  BY <1>10, Zenon DEF poller_done, ltVars, EofKnown
<1>11. CASE desched_none
  BY <1>11, Zenon DEF desched_none, Handled, Handle, ltVars, EofKnown
<1>12. CASE handle_eof
  BY <1>12, Zenon DEF handle_eof, EofKnown
<1>13. CASE desched_push
  BY <1>13, Zenon DEF desched_push, EofKnown
<1>14. CASE handle_event_return
  BY <1>14, Zenon DEF handle_event_return, Handled, Handle, ltVars, EofKnown
<1>15. CASE lthread_poller_close
  BY <1>15, Zenon DEF lthread_poller_close, ltVars, threadVars, EofKnown
<1>16. CASE UNCHANGED <<pollerVars, filters>>
  BY <1>16, Zenon DEF pollerVars, ltVars, threadVars, EofKnown
<1> QED
  BY <1>1, <1>2, <1>3, <1>4, <1>5, <1>6, <1>7, <1>8, <1>9, <1>10, <1>11, <1>12,
     <1>13, <1>14, <1>15, <1>16, Zenon
  DEF AnyStep

\* Every step keeps the keys apart.
LEMMA KeysStep ==
  ASSUME Types, EofIsOwn, KeysApart, \A lt \in Lthreads : LtOK(lt),
         \A lt \in waiting : WaiterOK(lt), AnyStep
  PROVE  KeysApart'
<1>0. hup \subseteq hup' /\ uses' = uses
  BY Zenon DEF AnyStep
<1> USE <1>0
<1>1. ASSUME NEW t \in Lthreads, Elsewhere(t) PROVE KeysApart'
  <2>1. \A lt \in waiting : arg'[lt] = arg[lt]
    BY <1>1, Zenon DEF Elsewhere, WaiterOK, Types, Parked
  <2>2. waiting' = waiting
    BY <1>1, Zenon DEF Elsewhere, Quiet
  <2> QED
    BY <2>1, <2>2 DEF KeysApart
<1>2. ASSUME NEW t \in Lthreads, BeginWait(t) PROVE KeysApart'
  <2>1. \A lt \in waiting : arg'[lt] = arg[lt]
    BY <1>2, Zenon DEF BeginWait, WaiterOK, Types, Parked
  <2>2. waiting' = waiting
    BY <1>2, Zenon DEF BeginWait, Quiet
  <2> QED
    BY <2>1, <2>2 DEF KeysApart
<1>3. ASSUME NEW t \in Lthreads, EndWait(t) PROVE KeysApart'
  <2>1. \A lt \in waiting : arg'[lt] = arg[lt]
    BY <1>3, Zenon DEF EndWait, WaiterOK, Types, Parked
  <2>2. waiting' = waiting
    BY <1>3, Zenon DEF EndWait, Quiet
  <2> QED
    BY <2>1, <2>2 DEF KeysApart
<1>4. ASSUME NEW t \in Lthreads, add_waiting_lthread(t) PROVE KeysApart'
  <2>1. /\ at[t] = "wait" /\ arg[t] \in Fds \X Dirs
        /\ AddFails(t) \/ Added(t)
    BY <1>4, AddEffect, Zenon
  <2>2. CASE AddFails(t)
    BY <2>2, Zenon DEF AddFails, ltVars, KeysApart
  <2>3. CASE Added(t)
    <3>1. \A lt \in waiting : ~(/\ arg[lt][1] % Width = arg[t][1] % Width
                                /\ arg[lt][2] = arg[t][2])
      <4> SUFFICES ASSUME NEW lt \in waiting, arg[lt][1] % Width = arg[t][1] % Width,
                          arg[lt][2] = arg[t][2]
                   PROVE  FALSE
        BY Zenon
      <4>1. LtOK(lt) /\ WaiterOK(lt)
        BY Zenon DEF Types
      <4>2. fd_key(state[lt], fd_wait[lt]) = <<arg[t][1] % Width, arg[t][2]>>
        BY <4>1, WaiterKey, Zenon
      <4> QED
        BY <2>3, <4>2, Zenon DEF Added, Keyed
    <3> QED
      BY <2>3, <3>1, Zenon DEF Added, KeysApart
  <2> QED
    BY <2>1, <2>2, <2>3, Zenon
<1>5. ASSUME NEW t \in Lthreads, register_event(t) PROVE KeysApart'
  BY <1>5, Zenon DEF register_event, threadVars, KeysApart
<1>6. ASSUME NEW t \in Lthreads, resume_load(t) PROVE KeysApart'
  BY <1>6, Zenon DEF resume_load, threadVars, KeysApart
<1>7. ASSUME NEW t \in Lthreads, resume_store(t) PROVE KeysApart'
  BY <1>7, Zenon DEF resume_store, threadVars, KeysApart
<1>8. ASSUME NEW t \in Lthreads, desched_event(t) PROVE KeysApart'
  BY <1>8, Zenon DEF desched_event, KeysApart
<1>9. CASE lthread_poller_poll
  BY <1>9, Zenon DEF lthread_poller_poll, Handle, ltVars, KeysApart
<1>10. CASE poller_done
  BY <1>10, Zenon DEF poller_done, ltVars, KeysApart
<1>11. CASE desched_none
  BY <1>11, Zenon DEF desched_none, Handled, Handle, ltVars, KeysApart
<1>12. CASE handle_eof
  BY <1>12, Zenon DEF handle_eof, KeysApart
<1>13. CASE desched_push
  BY <1>13, Zenon DEF desched_push, KeysApart
<1>14. CASE handle_event_return
  BY <1>14, Zenon DEF handle_event_return, Handled, Handle, ltVars, KeysApart
<1>15. CASE lthread_poller_close
  BY <1>15, Zenon DEF lthread_poller_close, ltVars, threadVars, KeysApart
<1>16. CASE UNCHANGED <<pollerVars, filters>>
  BY <1>16, Zenon DEF pollerVars, ltVars, threadVars, KeysApart
<1> QED
  BY <1>1, <1>2, <1>3, <1>4, <1>5, <1>6, <1>7, <1>8, <1>9, <1>10, <1>11, <1>12,
     <1>13, <1>14, <1>15, <1>16, Zenon
  DEF AnyStep

\* An event of the list that is for a waiter still is when the thread goes on to
\* the next event.
LEMMA HandleReaches ==
  ASSUME NEW lt \in waiting, events \subseteq Events, UNCHANGED arg,
         \E e \in events : Handle(e, events),
         NEW g \in events, g.filter[1] = arg[lt][1]
  PROVE  \E e \in events' \cup ({event'} \ {NULL}) : Reaches(e, lt)'
<1>1. PICK e \in events : Handle(e, events)
  BY Zenon
<1>2. g # NULL
  BY NoNull, Zenon
<1>3. CASE g = e
  BY <1>1, <1>2, <1>3, Zenon DEF Handle, Reaches
<1>4. CASE g # e
  BY <1>1, <1>4, Zenon DEF Handle, Reaches
<1> QED
  BY <1>3, <1>4, Zenon

\* Steps that leave the events alone and keep what waiters there are armed.
LEMMA ArmedKept ==
  ASSUME WaitIsArmed, UNCHANGED threadVars, filters \subseteq filters',
         \A lt \in waiting' : \/ /\ lt \in waiting /\ arg'[lt] = arg[lt]
                                 /\ at[lt] = "register" => at'[lt] = "register"
                              \/ at'[lt] = "register" \/ arg'[lt] \in filters'
  PROVE  WaitIsArmed'
<1> SUFFICES ASSUME NEW lt \in waiting', at'[lt] # "register", arg'[lt] \notin filters'
             PROVE  \E e \in events' \cup ({event'} \ {NULL}) : Reaches(e, lt)'
  BY Zenon DEF WaitIsArmed
<1>1. lt \in waiting /\ arg'[lt] = arg[lt] /\ at[lt] # "register"
  BY Zenon
<1>2. PICK e \in events \cup ({event} \ {NULL}) : Reaches(e, lt)
  BY <1>1, Zenon DEF WaitIsArmed
<1>3. UNCHANGED <<events, event, ev, poller_pc>>
  BY Zenon DEF threadVars
<1>4. Reaches(e, lt)'
  BY <1>1, <1>2, <1>3, Zenon DEF Reaches
<1> QED
  BY <1>2, <1>3, <1>4, Zenon

\* A waiter for the key that is looked up is found.
LEMMA Found ==
  ASSUME Types, \A lt \in Lthreads : LtOK(lt), \A lt \in waiting : WaiterOK(lt),
         NEW lt \in waiting, NEW fd, NEW e,
         arg[lt][1] % Width = fd % Width, arg[lt][2] = e
  PROVE  lt \in Keyed(<<fd % Width, e>>)
<1>1. LtOK(lt) /\ WaiterOK(lt)
  BY Zenon DEF Types
<1>2. fd_key(state[lt], fd_wait[lt]) = <<arg[lt][1] % Width, arg[lt][2]>>
  BY <1>1, WaiterKey, Zenon
<1> QED
  BY <1>2, Zenon DEF Keyed

\* Every step keeps the waiters armed.
LEMMA ArmedStep ==
  ASSUME Types, ThreadOK, EofIsOwn, KeysApart, WaitIsArmed,
         \A lt \in Lthreads : LtOK(lt), \A lt \in waiting : WaiterOK(lt), AnyStep
  PROVE  WaitIsArmed'
<1>0. hup \subseteq hup' /\ uses' = uses
  BY Zenon DEF AnyStep
<1> USE <1>0
<1>1. ASSUME NEW t \in Lthreads, Elsewhere(t) PROVE WaitIsArmed'
  <2>1. \A lt \in waiting : at'[lt] = at[lt] /\ arg'[lt] = arg[lt]
    BY <1>1, Zenon DEF Elsewhere, WaiterOK, Types, Parked
  <2>2. UNCHANGED <<threadVars, waiting, filters>>
    BY <1>1, Zenon DEF Elsewhere, Quiet
  <2> QED
    BY <2>1, <2>2, ArmedKept, Zenon
<1>2. ASSUME NEW t \in Lthreads, BeginWait(t) PROVE WaitIsArmed'
  <2>1. \A lt \in waiting : at'[lt] = at[lt] /\ arg'[lt] = arg[lt]
    BY <1>2, Zenon DEF BeginWait, WaiterOK, Types, Parked
  <2>2. UNCHANGED <<threadVars, waiting, filters>>
    BY <1>2, Zenon DEF BeginWait, Quiet
  <2> QED
    BY <2>1, <2>2, ArmedKept, Zenon
<1>3. ASSUME NEW t \in Lthreads, EndWait(t) PROVE WaitIsArmed'
  <2>1. \A lt \in waiting : at'[lt] = at[lt] /\ arg'[lt] = arg[lt]
    BY <1>3, Zenon DEF EndWait, WaiterOK, Types, Parked
  <2>2. UNCHANGED <<threadVars, waiting, filters>>
    BY <1>3, Zenon DEF EndWait, Quiet
  <2> QED
    BY <2>1, <2>2, ArmedKept, Zenon
<1>4. ASSUME NEW t \in Lthreads, add_waiting_lthread(t) PROVE WaitIsArmed'
  <2>1. AddFails(t) \/ Added(t)
    BY <1>4, AddEffect, Zenon
  <2>2. CASE AddFails(t)
    BY <2>2, ArmedKept, Zenon DEF AddFails, ltVars
  <2>3. CASE Added(t)
    <3>1. \A lt \in waiting' : (lt \in waiting /\ at'[lt] = at[lt]) \/ at'[lt] = "register"
      BY <2>3, Zenon DEF Added, Types
    <3>2. UNCHANGED <<threadVars, arg, filters>>
      BY <2>3, Zenon DEF Added
    <3> QED
      BY <3>1, <3>2, ArmedKept, Zenon
  <2> QED
    BY <2>1, <2>2, <2>3, Zenon
<1>5. ASSUME NEW t \in Lthreads, register_event(t) PROVE WaitIsArmed'
  <2>1. \A lt \in waiting : at'[lt] = at[lt] \/ arg[lt] \in filters'
    BY <1>5, Zenon DEF register_event, Types
  <2>2. UNCHANGED <<threadVars, waiting, arg>> /\ filters \subseteq filters'
    BY <1>5, Zenon DEF register_event
  <2> QED
    BY <2>1, <2>2, ArmedKept, Zenon
<1>6. ASSUME NEW t \in Lthreads, resume_load(t) PROVE WaitIsArmed'
  <2>1. \A lt \in waiting : at[lt] = "register" => at'[lt] = "register"
    BY <1>6, Zenon DEF resume_load, Types
  <2>2. UNCHANGED <<threadVars, waiting, arg, filters>>
    BY <1>6, Zenon DEF resume_load
  <2> QED
    BY <2>1, <2>2, ArmedKept, Zenon
<1>7. ASSUME NEW t \in Lthreads, resume_store(t) PROVE WaitIsArmed'
  <2>1. \A lt \in waiting : at[lt] = "register" => at'[lt] = "register"
    BY <1>7, Zenon DEF resume_store, Types
  <2>2. UNCHANGED <<threadVars, waiting, arg, filters>>
    BY <1>7, Zenon DEF resume_store
  <2> QED
    BY <2>1, <2>2, ArmedKept, Zenon
<1>8. ASSUME NEW t \in Lthreads, desched_event(t) PROVE WaitIsArmed'
  <2> SUFFICES ASSUME NEW lt \in waiting', at[lt] # "register", arg[lt] \notin filters
               PROVE  \E e \in events' \cup ({event'} \ {NULL}) : Reaches(e, lt)'
    BY <1>8, Zenon DEF desched_event, WaitIsArmed
  <2>1. lt \in waiting /\ lt # t /\ t \in waiting
    BY <1>8, Zenon DEF desched_event, Keyed
  <2>2. PICK e \in events \cup ({event} \ {NULL}) : Reaches(e, lt)
    BY <2>1, Zenon DEF WaitIsArmed
  <2>3. CASE e \in events
    BY <1>8, <2>2, <2>3, Zenon DEF desched_event, Reaches
  <2>4. CASE e \notin events
    <3>1. e = event /\ e.filter[1] = arg[lt][1]
      BY <2>2, <2>4, Zenon DEF Reaches
    <3>2. LtOK(t) /\ WaiterOK(t)
      BY <2>1, Zenon
    <3>3. fd_key(state[t], fd_wait[t]) = <<arg[t][1] % Width, arg[t][2]>>
      BY <2>1, <3>2, WaiterKey, Zenon
    <3>4. arg[t][1] % Width = event.filter[1] % Width /\ arg[t][2] = ev
      <4>1. fd_key(state[t], fd_wait[t]) = <<event.filter[1] % Width, ev>>
        BY <1>8, Zenon DEF desched_event, Keyed
      <4>2. <<arg[t][1] % Width, arg[t][2]>> = <<event.filter[1] % Width, ev>>
        BY <3>3, <4>1, Zenon
      <4> QED
        BY <4>2, SameTuple, Zenon
    <3>5. arg[lt][2] # ev
      BY <2>1, <3>1, <3>4, Zenon DEF KeysApart
    <3>6. ev = "READ" /\ arg[lt][2] = "WRITE"
      BY <1>8, <2>1, <2>2, <2>4, <3>5, WaiterKey, Zenon DEF desched_event, Reaches, Types, Dirs
    <3> QED
      BY <1>8, <2>2, <3>1, <3>6, Zenon DEF desched_event, Reaches
  <2> QED
    BY <2>3, <2>4, Zenon
<1>9. CASE lthread_poller_poll
  <2> SUFFICES ASSUME NEW lt \in waiting, at[lt] # "register", arg[lt] \notin filters'
               PROVE  \E e \in events' \cup ({event'} \ {NULL}) : Reaches(e, lt)'
    BY <1>9, Zenon DEF lthread_poller_poll, ltVars, WaitIsArmed
  <2>1. events = {} /\ event = NULL
    BY <1>9, Zenon DEF lthread_poller_poll, ThreadOK
  <2>2. arg[lt] \in filters
    BY <2>1, Zenon DEF WaitIsArmed
  <2>3. PICK g \in events' \cup {event'} : g.filter = arg[lt] /\ g \in Events
    BY <1>9, <2>2, PollEffect, Zenon
  <2>4. g # NULL
    BY <2>3, NoNull, Zenon
  <2>5. arg' = arg /\ ev' = "READ" /\ poller_pc' = "desched"
    BY <1>9, PollEffect, Zenon DEF lthread_poller_poll, ltVars
  <2>6. Reaches(g, lt)'
    BY <2>3, <2>5, Zenon DEF Reaches
  <2> QED
    BY <2>3, <2>4, <2>6, Zenon
<1>10. CASE poller_done
  BY <1>10, Zenon DEF poller_done, ltVars, WaitIsArmed, Reaches
<1>11. CASE desched_none
  <2>0. UNCHANGED <<at, arg, waiting, filters>> /\ Handled(woken)
    BY <1>11, Zenon DEF desched_none, ltVars
  <2> SUFFICES ASSUME NEW lt \in waiting, at[lt] # "register", arg[lt] \notin filters
               PROVE  \E e \in events' \cup ({event'} \ {NULL}) : Reaches(e, lt)'
    BY <2>0, Zenon DEF WaitIsArmed
  <2>1. PICK e \in events \cup ({event} \ {NULL}) : Reaches(e, lt)
    BY Zenon DEF WaitIsArmed
  <2>2. e \notin events => e = event /\ ev = "READ" /\ arg[lt][2] = "WRITE"
    <3> SUFFICES ASSUME e \notin events PROVE ev = "READ" /\ arg[lt][2] = "WRITE"
      BY <2>1, Zenon
    <3>1. e = event /\ e.filter[1] = arg[lt][1]
      BY <2>1, Zenon DEF Reaches
    <3>2. arg[lt][2] # ev
      BY <1>11, <3>1, Found, Zenon DEF desched_none
    <3>3. LtOK(lt) /\ WaiterOK(lt)
      BY Zenon DEF Types
    <3>4. arg[lt][2] \in Dirs
      BY <3>3, WaiterKey, Zenon
    <3> QED
      BY <2>1, <3>2, <3>4, Zenon DEF Reaches, Dirs
  <2>3. CASE ev = "READ"
    <3>1. ev' = "WRITE" /\ poller_pc' = "desched" /\ UNCHANGED <<event, events>>
      BY <2>0, <2>3, Zenon DEF Handled
    <3> QED
      BY <2>0, <2>1, <2>2, <2>3, <3>1, Zenon DEF Reaches
  <2>4. CASE ev = "WRITE" /\ UNCHANGED <<poller_pc, event, events, ev>>
    BY <2>0, <2>1, <2>2, <2>4, Zenon DEF Reaches
  <2>5. CASE ev = "WRITE" /\ (events = {} \/ \E x \in events : Handle(x, events))
    <3>1. e \in events /\ e.filter[1] = arg[lt][1]
      BY <1>11, <2>1, <2>2, <2>5, Zenon DEF Reaches
    <3> QED
      BY <2>0, <2>5, <3>1, HandleReaches, Zenon DEF Types
  <2> QED
    BY <2>0, <2>3, <2>4, <2>5, Zenon DEF Handled
<1>12. CASE handle_eof
  BY <1>12, Zenon DEF handle_eof, WaitIsArmed, Reaches
<1>13. CASE desched_push
  <2>1. \A lt \in waiting : at'[lt] = at[lt]
    BY <1>13, Zenon DEF desched_push, ThreadOK, Handed, Types
  <2>2. /\ poller_pc = "push_ready" /\ poller_pc' = "decrement"
        /\ UNCHANGED <<arg, event, events, ev, waiting, filters>>
    BY <1>13, Zenon DEF desched_push
  <2> QED
    BY <2>1, <2>2, Zenon DEF WaitIsArmed, Reaches
<1>14. CASE handle_event_return
  <2>0. UNCHANGED <<at, arg, waiting, filters>> /\ Handled(TRUE)
    BY <1>14, Zenon DEF handle_event_return, ltVars
  <2> SUFFICES ASSUME NEW lt \in waiting, at[lt] # "register", arg[lt] \notin filters
               PROVE  \E e \in events' \cup ({event'} \ {NULL}) : Reaches(e, lt)'
    BY <2>0, Zenon DEF WaitIsArmed
  <2>1. PICK e \in events \cup ({event} \ {NULL}) : Reaches(e, lt)
    BY Zenon DEF WaitIsArmed
  <2>2. e \notin events => e = event /\ ev = "READ" /\ arg[lt][2] = "WRITE"
    BY <1>14, <2>1, Zenon DEF Reaches, handle_event_return
  <2>3. CASE ev = "READ"
    <3>1. ev' = "WRITE" /\ poller_pc' = "desched" /\ UNCHANGED <<event, events>>
      BY <2>0, <2>3, Zenon DEF Handled
    <3> QED
      BY <2>0, <2>1, <2>2, <2>3, <3>1, Zenon DEF Reaches
  <2>4. CASE ev = "WRITE" /\ UNCHANGED <<poller_pc, event, events, ev>>
    BY <2>0, <2>1, <2>2, <2>4, Zenon DEF Reaches
  <2>5. CASE ev = "WRITE" /\ (events = {} \/ \E x \in events : Handle(x, events))
    <3>1. e \in events /\ e.filter[1] = arg[lt][1]
      BY <1>14, <2>1, <2>2, <2>5, Zenon DEF Reaches
    <3> QED
      BY <2>0, <2>5, <3>1, HandleReaches, Zenon DEF Types
  <2> QED
    BY <2>0, <2>3, <2>4, <2>5, Zenon DEF Handled
<1>15. CASE lthread_poller_close
  BY <1>15, Zenon DEF lthread_poller_close, ltVars, threadVars, WaitIsArmed, Reaches
<1>16. CASE UNCHANGED <<pollerVars, filters>>
  BY <1>16, Zenon DEF pollerVars, ltVars, threadVars, WaitIsArmed, Reaches
<1> QED
  BY <1>1, <1>2, <1>3, <1>4, <1>5, <1>6, <1>7, <1>8, <1>9, <1>10, <1>11, <1>12,
     <1>13, <1>14, <1>15, <1>16, Zenon
  DEF AnyStep

\* Steps that leave the events and the filters alone, and keep the waiters.
LEMMA Undisturbed ==
  ASSUME Meeting, UNCHANGED <<uses, threadVars, failed, filters>>,
         \A lt \in waiting : /\ lt \in waiting' /\ arg'[lt] = arg[lt]
                             /\ at[lt] # "register" => at'[lt] # "register",
         \A lt \in Lthreads : at'[lt] = "register" => at[lt] = "register" \/ lt \in waiting'
  PROVE  Meeting'
<1>1. \A f : Owned(f) => Owned(f)'
  BY Zenon DEF Owned
<1> QED
  BY <1>1, Zenon DEF threadVars, Meeting, Owners, Single, Halfway, Current

\* A filter that somebody waits for is one of the program's uses.
LEMMA OwnedUses ==
  ASSUME Types, \A lt \in Lthreads : LtOK(lt), \A lt \in waiting : WaiterOK(lt),
         NEW f, Owned(f)
  PROVE  \E o \in Lthreads : f \in uses[o]
<1>1. PICK lt \in waiting : arg[lt] = f
  BY Zenon DEF Owned
<1>2. LtOK(lt) /\ WaiterOK(lt) /\ lt \in Lthreads
  BY Zenon DEF Types
<1> QED
  BY <1>1, <1>2, WaiterKey, Zenon

\* Every step keeps events and waiters together, if each descriptor has one use.
LEMMA MeetingStep ==
  ASSUME OneWay, Types, ThreadOK, EofIsOwn, KeysApart, Meeting,
         \A lt \in Lthreads : LtOK(lt), \A lt \in waiting : WaiterOK(lt), AnyStep
  PROVE  Meeting'
<1>0. hup \subseteq hup' /\ uses' = uses
  BY Zenon DEF AnyStep
<1> USE <1>0
<1>1. ASSUME NEW t \in Lthreads, Elsewhere(t) PROVE Meeting'
  <2>1. \A lt \in waiting : at'[lt] = at[lt] /\ arg'[lt] = arg[lt]
    BY <1>1, Zenon DEF Elsewhere, WaiterOK, Types, Parked
  <2>2. UNCHANGED <<waiting, threadVars, failed, filters>>
    BY <1>1, Zenon DEF Elsewhere, Quiet
  <2>3. \A lt \in Lthreads : at'[lt] = "register" => at[lt] = "register"
    BY <1>1, Zenon DEF Elsewhere, Types, Outside
  <2> QED
    BY <2>1, <2>2, <2>3, Undisturbed, Zenon
<1>2. ASSUME NEW t \in Lthreads, BeginWait(t) PROVE Meeting'
  <2>1. \A lt \in waiting : at'[lt] = at[lt] /\ arg'[lt] = arg[lt]
    BY <1>2, Zenon DEF BeginWait, WaiterOK, Types, Parked
  <2>2. UNCHANGED <<waiting, threadVars, failed, filters>>
    BY <1>2, Zenon DEF BeginWait, Quiet
  <2>3. \A lt \in Lthreads : at'[lt] = "register" => at[lt] = "register"
    BY <1>2, Zenon DEF BeginWait, Types, Outside
  <2> QED
    BY <2>1, <2>2, <2>3, Undisturbed, Zenon
<1>3. ASSUME NEW t \in Lthreads, EndWait(t) PROVE Meeting'
  <2>1. \A lt \in waiting : at'[lt] = at[lt] /\ arg'[lt] = arg[lt]
    BY <1>3, Zenon DEF EndWait, WaiterOK, Types, Parked
  <2>2. UNCHANGED <<waiting, threadVars, failed, filters>>
    BY <1>3, Zenon DEF EndWait, Quiet
  <2>3. \A lt \in Lthreads : at'[lt] = "register" => at[lt] = "register"
    BY <1>3, Zenon DEF EndWait, Types, Outside
  <2> QED
    BY <2>1, <2>2, <2>3, Undisturbed, Zenon
<1>4. ASSUME NEW t \in Lthreads, add_waiting_lthread(t) PROVE Meeting'
  <2>1. /\ at[t] = "wait" /\ arg[t] \in uses[t] /\ (AddFails(t) \/ Added(t))
    BY <1>4, AddEffect, Zenon
  <2>2. t \notin waiting
    BY <2>1, Zenon DEF WaiterOK, Parked
  <2>3. CASE AddFails(t)
    <3>1. failed' # "insert"
      <4> SUFFICES ASSUME NEW lt \in Keyed(<<arg[t][1] % Width, arg[t][2]>>) PROVE FALSE
        BY <2>3, Zenon DEF AddFails
      <4>1. lt \in waiting /\ LtOK(lt) /\ WaiterOK(lt)
        BY Zenon DEF Keyed, Types
      <4>2. arg[lt] \in uses[lt] /\ fd_key(state[lt], fd_wait[lt]) = <<arg[lt][1] % Width, arg[lt][2]>>
        BY <4>1, WaiterKey, Zenon
      <4>2a. fd_key(state[lt], fd_wait[lt]) = <<arg[t][1] % Width, arg[t][2]>>
        BY Zenon DEF Keyed
      <4>2b. <<arg[lt][1] % Width, arg[lt][2]>> = <<arg[t][1] % Width, arg[t][2]>>
        BY <4>2, <4>2a, Zenon
      <4>3. arg[lt][1] % Width = arg[t][1] % Width
        BY <4>2b, SameTuple, Zenon
      <4>3a. lt \in Lthreads
        BY <4>1, Zenon DEF Types
      <4> QED
        <5>1. lt = t
          BY <2>1, <4>2, <4>3, <4>3a, Zenon DEF OneWay
        <5> QED
          BY <2>2, <4>1, <5>1, Zenon
    <3> QED
      BY <2>3, <3>1, Zenon DEF AddFails, ltVars, threadVars, Meeting, Owners, Owned, Single, Halfway, Current
  <2>4. CASE Added(t)
    <3>1. \A lt \in waiting : at'[lt] = at[lt] /\ arg'[lt] = arg[lt] /\ lt \in waiting'
      BY <2>2, <2>4, Zenon DEF Added, Types
    <3>2. UNCHANGED <<threadVars, failed, filters>>
      BY <2>4, Zenon DEF Added
    <3>3. \A lt \in Lthreads : at'[lt] = "register" => at[lt] = "register" \/ lt \in waiting'
      BY <2>4, Zenon DEF Added, Types
    <3> QED
      BY <3>1, <3>2, <3>3, Undisturbed, Zenon
  <2> QED
    BY <2>1, <2>3, <2>4, Zenon
<1>5. ASSUME NEW t \in Lthreads, register_event(t) PROVE Meeting'
  <2>0. /\ at[t] = "register" /\ at' = [at EXCEPT ![t] = "switched"]
        /\ filters' = filters \cup {arg[t]}
        /\ UNCHANGED <<arg, threadVars, waiting, failed>>
    BY <1>5, Zenon DEF register_event
  <2>1. arg[t] \in uses[t]
    BY <2>0, Zenon DEF LtOK, Parked
  <2>2. \A f : Owned(f) => Owned(f)' /\ f # arg[t]
    <3> SUFFICES ASSUME NEW lt \in waiting, at[lt] # "register"
                 PROVE  at'[lt] # "register" /\ arg[lt] # arg[t]
      BY <2>0, Zenon DEF Owned
    <3>1. lt # t /\ lt \in Lthreads
      BY <2>0, Zenon DEF Types
    <3>2. arg[lt] \in uses[lt]
      BY <3>1, WaiterKey, Zenon
    <3> QED
      BY <2>0, <2>1, <3>1, <3>2, Zenon DEF OneWay, Types
  <2>3. Owned(arg[t])'
    BY <2>0, Zenon DEF Owned, Types, Meeting
  <2>4. Owners'
    BY <2>0, <2>2, <2>3, Zenon DEF threadVars, Meeting, Owners, Current
  <2>5. Single'
    BY <2>0, <2>2, Zenon DEF threadVars, Meeting, Owners, Single, Current
  <2>6. Halfway'
    BY <2>0, Zenon DEF threadVars, Meeting, Halfway, Current
  <2> QED
    BY <2>0, <2>4, <2>5, <2>6, Zenon DEF Meeting, Types
<1>6. ASSUME NEW t \in Lthreads, resume_load(t) PROVE Meeting'
  <2>1. \A lt \in waiting : (at[lt] # "register" => at'[lt] # "register") /\ arg'[lt] = arg[lt]
    BY <1>6, Zenon DEF resume_load, Types
  <2>2. UNCHANGED <<waiting, threadVars, failed, filters>>
    BY <1>6, Zenon DEF resume_load
  <2>3. \A lt \in Lthreads : at'[lt] = "register" => at[lt] = "register"
    BY <1>6, Zenon DEF resume_load, Types
  <2> QED
    BY <2>1, <2>2, <2>3, Undisturbed, Zenon
<1>7. ASSUME NEW t \in Lthreads, resume_store(t) PROVE Meeting'
  <2>1. \A lt \in waiting : (at[lt] # "register" => at'[lt] # "register") /\ arg'[lt] = arg[lt]
    BY <1>7, Zenon DEF resume_store, Types
  <2>2. UNCHANGED <<waiting, threadVars, failed, filters>>
    BY <1>7, Zenon DEF resume_store
  <2>3. \A lt \in Lthreads : at'[lt] = "register" => at[lt] = "register"
    BY <1>7, Zenon DEF resume_store, Types
  <2> QED
    BY <2>1, <2>2, <2>3, Undisturbed, Zenon
<1>8. ASSUME NEW t \in Lthreads, desched_event(t) PROVE Meeting'
  <2>1. /\ t \in waiting /\ waiting' = waiting \ {t} /\ poller_pc = "desched"
        /\ poller_pc' \in Handed
        /\ UNCHANGED <<at, arg, event, events, ev, woken, failed, filters>>
    BY <1>8, Zenon DEF desched_event, Keyed, Handed
  <2>2. LtOK(t) /\ WaiterOK(t)
    BY <2>1, Zenon
  <2>3. /\ fd_key(state[t], fd_wait[t]) = <<arg[t][1] % Width, arg[t][2]>>
        /\ arg[t] \in uses[t] /\ arg[t] \in Fds \X Dirs
    BY <2>1, <2>2, WaiterKey, Zenon
  <2>4. arg[t][1] % Width = event.filter[1] % Width /\ arg[t][2] = ev
    <3>1. fd_key(state[t], fd_wait[t]) = <<event.filter[1] % Width, ev>>
      BY <1>8, Zenon DEF desched_event, Keyed
    <3>2. <<arg[t][1] % Width, arg[t][2]>> = <<event.filter[1] % Width, ev>>
      BY <2>3, <3>1, Zenon
    <3> QED
      BY <3>2, SameTuple, Zenon
  <2>5. PICK o \in Lthreads : event.filter \in uses[o]
    BY <2>1, NoNull, Zenon DEF Meeting, Halfway, ThreadOK
  <2>6. o = t /\ event.filter = arg[t]
    BY <2>3, <2>4, <2>5, Zenon DEF OneWay
  <2>7. Current
    BY <2>1, <2>4, <2>6, Zenon DEF Current, Meeting, Halfway
  <2>8. at[t] # "register"
    <3>1. PICK lt \in waiting : arg[lt] = event.filter /\ at[lt] # "register"
      BY <2>7, Zenon DEF Meeting, Owners, Owned
    <3>2. arg[lt] \in uses[lt]
      BY <3>1, WaiterKey, Zenon DEF Types
    <3> QED
      BY <2>3, <2>6, <3>1, <3>2, Zenon DEF OneWay, Types
  <2>9. \A f : Owned(f) /\ f # event.filter => Owned(f)'
    BY <2>1, <2>6, Zenon DEF Owned
  <2>10. Owners'
    BY <2>1, <2>7, <2>9, Zenon DEF Meeting, Owners, Single, Current, Handed
  <2>11. Single'
    BY <2>1, Zenon DEF Meeting, Single, Current, Handed
  <2>12. Halfway'
    BY <2>1, <2>4, <2>5, <2>6, <2>7, Zenon DEF Meeting, Halfway, Current, Handed
  <2> QED
    BY <2>1, <2>8, <2>10, <2>11, <2>12, Zenon DEF Meeting
<1>9. CASE lthread_poller_poll
  <2>1. PICK batch \in SUBSET filters, es \in SUBSET Events, e \in Events :
          /\ e \in es
          /\ filters' = filters \ batch
          /\ \A g \in es : g.filter \in batch
          /\ \A g, h \in es : g.filter = h.filter => g = h
          /\ event' = e /\ events' = es \ {e}
          /\ ev' = "READ" /\ woken' = FALSE /\ poller_pc' = "desched"
    BY <1>9, PollEffect, Zenon
  <2>2. UNCHANGED <<at, arg, waiting, failed>>
    BY <1>9, Zenon DEF lthread_poller_poll, ltVars
  <2>3. \A f : Owned(f)' <=> Owned(f)
    BY <2>2, Zenon DEF Owned
  <2>4. Owners'
    BY <2>1, <2>3, Zenon DEF Meeting, Owners
  <2>5. Single'
    BY <2>1, Zenon DEF Single
  <2>6. Halfway'
    <3>1. Owned(event'.filter)
      BY <2>1, Zenon DEF Meeting, Owners
    <3>2. \E o \in Lthreads : event'.filter \in uses[o]
      BY <3>1, OwnedUses, Zenon
    <3> QED
      BY <2>1, <3>2, Zenon DEF Halfway, Handed
  <2> QED
    BY <2>2, <2>4, <2>5, <2>6, Zenon DEF Meeting
<1>10. CASE poller_done
  BY <1>10, Zenon DEF poller_done, ltVars, Meeting, Owners, Owned, Single, Halfway, Current, Handed
<1>11. CASE desched_none
  <2>1. UNCHANGED <<at, arg, waiting, filters>> /\ Handled(woken) /\ poller_pc = "desched"
    BY <1>11, Zenon DEF desched_none, ltVars
  <2>2. \A f : Owned(f)' <=> Owned(f)
    BY <2>1, Zenon DEF Owned
  <2>3. Current => event.filter[2] # ev
    <3> SUFFICES ASSUME Current, event.filter[2] = ev PROVE FALSE
      BY Zenon
    <3>1. PICK lt \in waiting : arg[lt] = event.filter
      BY Zenon DEF Meeting, Owners, Owned
    <3>2. lt \in Keyed(<<event.filter[1] % Width, ev>>)
      BY <3>1, Found, Zenon
    <3> QED
      BY <1>11, <3>2, Zenon DEF desched_none
  <2>4. CASE ev = "READ"
    <3>1. ev' = "WRITE" /\ woken' = woken /\ poller_pc' = "desched" /\ UNCHANGED <<event, events, failed>>
      BY <2>1, <2>4, Zenon DEF Handled
    <3>2. ~woken
      BY <2>4, Zenon DEF Meeting, Halfway
    <3>3. event \in Events
      BY <2>1, Zenon DEF ThreadOK, Types
    <3>4. event.filter[2] = "WRITE"
      BY <2>1, <2>3, <2>4, <3>2, <3>3, Zenon DEF Current, Events, Dirs
    <3> QED
      BY <2>1, <2>2, <3>1, <3>2, <3>4, Zenon DEF Meeting, Owners, Single, Halfway, Current, Handed
  <2>5. ASSUME ev = "WRITE" PROVE woken
    BY <2>1, <2>3, <2>5, Zenon DEF Meeting, Halfway, Current
  <2>3a. ev = "WRITE" => UNCHANGED failed
    BY <2>1, <2>5, Zenon DEF Handled
  <2>6. CASE ev = "WRITE" /\ \E e \in events : Handle(e, events)
    <3>1. PICK e \in events : Handle(e, events)
      BY <2>6, Zenon
    <3>2. /\ event' = e /\ events' = events \ {e} /\ ev' = "READ" /\ woken' = FALSE
          /\ poller_pc' = "desched"
      BY <3>1, Zenon DEF Handle
    <3>3. \E o \in Lthreads : e.filter \in uses[o]
      BY OwnedUses, Zenon DEF Meeting, Owners
    <3>4. Owners'
      BY <2>1, <2>2, <3>2, Zenon DEF Meeting, Owners
    <3>5. Single'
      BY <2>1, <3>2, Zenon DEF Meeting, Single
    <3>6. Halfway'
      BY <3>2, <3>3, Zenon DEF Halfway, Handed
    <3> QED
      BY <2>1, <2>3a, <2>6, <3>4, <3>5, <3>6, Zenon DEF Meeting
  <2>7. CASE ev = "WRITE" /\ events = {} /\ poller_pc' = "poll" /\ event' = NULL /\ ev' = "READ"
             /\ woken' = FALSE /\ UNCHANGED events
    BY <2>1, <2>2, <2>3a, <2>7, Zenon DEF Meeting, Owners, Single, Halfway, Current, Handed
  <2> QED
    BY <2>1, <2>4, <2>5, <2>6, <2>7, Zenon DEF Handled, Types, Dirs
<1>12. CASE handle_eof
  BY <1>12, Zenon DEF handle_eof, Meeting, Owners, Owned, Single, Halfway, Current, Handed
<1>13. CASE desched_push
  <2>1. \A lt \in waiting : at'[lt] = at[lt]
    BY <1>13, Zenon DEF desched_push, ThreadOK, Handed, Types
  <2>2. /\ poller_pc = "push_ready" /\ poller_pc' = "decrement"
        /\ UNCHANGED <<arg, event, events, ev, woken, waiting, filters, failed>>
    BY <1>13, Zenon DEF desched_push
  <2>3. \A lt \in Lthreads : at'[lt] = "register" => at[lt] = "register"
    BY <1>13, Zenon DEF desched_push, Types
  <2>4. \A f : Owned(f) => Owned(f)'
    BY <2>1, <2>2, Zenon DEF Owned
  <2> QED
    BY <2>2, <2>3, <2>4, Zenon DEF Meeting, Owners, Single, Halfway, Current, Handed
<1>14. CASE handle_event_return
  <2>1. UNCHANGED <<at, arg, waiting, filters>> /\ Handled(TRUE) /\ poller_pc = "decrement"
    BY <1>14, Zenon DEF handle_event_return, ltVars
  <2>2. \A f : Owned(f)' <=> Owned(f)
    BY <2>1, Zenon DEF Owned
  <2>3a. UNCHANGED failed
    BY <2>1, Zenon DEF Handled
  <2>4. CASE ev = "READ"
    <3>1. ev' = "WRITE" /\ woken' = TRUE /\ poller_pc' = "desched" /\ UNCHANGED <<event, events>>
      BY <2>1, <2>4, Zenon DEF Handled
    <3> QED
      BY <2>1, <2>2, <2>4, <2>3a, <3>1, Zenon DEF Meeting, Owners, Single, Halfway, Current, Handed
  <2>6. CASE ev = "WRITE" /\ \E e \in events : Handle(e, events)
    <3>1. PICK e \in events : Handle(e, events)
      BY <2>6, Zenon
    <3>2. /\ event' = e /\ events' = events \ {e} /\ ev' = "READ" /\ woken' = FALSE
          /\ poller_pc' = "desched"
      BY <3>1, Zenon DEF Handle
    <3>3. \E o \in Lthreads : e.filter \in uses[o]
      BY OwnedUses, Zenon DEF Meeting, Owners
    <3>4. Owners'
      BY <2>1, <2>2, <3>2, Zenon DEF Meeting, Owners
    <3>5. Single'
      BY <2>1, <3>2, Zenon DEF Meeting, Single
    <3>6. Halfway'
      BY <3>2, <3>3, Zenon DEF Halfway, Handed
    <3> QED
      BY <2>1, <2>3a, <2>6, <3>4, <3>5, <3>6, Zenon DEF Meeting
  <2>7. CASE ev = "WRITE" /\ events = {} /\ poller_pc' = "poll" /\ event' = NULL /\ ev' = "READ"
             /\ woken' = FALSE /\ UNCHANGED events
    BY <2>1, <2>2, <2>3a, <2>7, Zenon DEF Meeting, Owners, Single, Halfway, Current, Handed
  <2> QED
    BY <2>1, <2>4, <2>6, <2>7, Zenon DEF Handled
<1>15. CASE lthread_poller_close
  BY <1>15, Undisturbed, Zenon DEF lthread_poller_close, ltVars
<1>16. CASE UNCHANGED <<pollerVars, filters>>
  BY <1>16, Undisturbed, Zenon DEF pollerVars, ltVars
<1> QED
  BY <1>1, <1>2, <1>3, <1>4, <1>5, <1>6, <1>7, <1>8, <1>9, <1>10, <1>11, <1>12,
     <1>13, <1>14, <1>15, <1>16, Zenon
  DEF AnyStep

\* The tree of waiters is finite, so that it can be counted.
LEMMA FiniteWaiters ==
  ASSUME Types
  PROVE  IsFiniteSet(waiting) /\ Cardinality(waiting) \in Nat
<1>1. IsFiniteSet(waiting)
  BY PollerAssumption, FS_Subset, Zenon DEF Types
<1> QED
  BY <1>1, FS_CardinalityType, Zenon

\* Every step keeps num_pending_events right.
LEMMA CountStep ==
  ASSUME Types, ThreadOK, EofIsOwn, Counted, \A lt \in Lthreads : LtOK(lt),
         \A lt \in waiting : WaiterOK(lt), AnyStep
  PROVE  Counted'
<1>0. hup \subseteq hup' /\ uses' = uses
  BY Zenon DEF AnyStep
<1> USE <1>0
<1>1. ASSUME NEW t \in Lthreads, Elsewhere(t) PROVE Counted'
  BY <1>1, Zenon DEF Elsewhere, Quiet, threadVars, Counted
<1>2. ASSUME NEW t \in Lthreads, BeginWait(t) PROVE Counted'
  BY <1>2, Zenon DEF BeginWait, Quiet, threadVars, Counted
<1>3. ASSUME NEW t \in Lthreads, EndWait(t) PROVE Counted'
  BY <1>3, Zenon DEF EndWait, Quiet, threadVars, Counted
<1>4. ASSUME NEW t \in Lthreads, add_waiting_lthread(t) PROVE Counted'
  <2>1. at[t] = "wait" /\ (AddFails(t) \/ Added(t))
    BY <1>4, AddEffect, Zenon
  <2>2. CASE AddFails(t)
    BY <2>2, Zenon DEF AddFails, threadVars, Counted
  <2>3. CASE Added(t)
    <3>1. t \notin waiting
      BY <2>1, Zenon DEF WaiterOK, Parked
    <3>2. Cardinality(waiting \cup {t}) = Cardinality(waiting) + 1
      BY <3>1, FiniteWaiters, FS_AddElement, Zenon
    <3>3. /\ num_pending_events' = num_pending_events + 1 /\ event_lt' = event_lt
          /\ waiting' = waiting \cup {t}
      BY <2>3, Zenon DEF Added, threadVars
    <3> QED
      BY <3>2, <3>3, FiniteWaiters DEF Counted
  <2> QED
    BY <2>1, <2>2, <2>3, Zenon
<1>5. ASSUME NEW t \in Lthreads, register_event(t) PROVE Counted'
  BY <1>5, Zenon DEF register_event, threadVars, Counted
<1>6. ASSUME NEW t \in Lthreads, resume_load(t) PROVE Counted'
  BY <1>6, Zenon DEF resume_load, threadVars, Counted
<1>7. ASSUME NEW t \in Lthreads, resume_store(t) PROVE Counted'
  BY <1>7, Zenon DEF resume_store, threadVars, Counted
<1>8. ASSUME NEW t \in Lthreads, desched_event(t) PROVE Counted'
  <2>1. t \in waiting /\ waiting' = waiting \ {t} /\ event_lt = NULL /\ event_lt' = t
    BY <1>8, Zenon DEF desched_event, Keyed, ThreadOK, Handed
  <2>2. Cardinality(waiting \ {t}) = Cardinality(waiting) - 1
    BY <2>1, FiniteWaiters, FS_RemoveElement, Zenon
  <2>3. num_pending_events' = num_pending_events
    BY <1>8, Zenon DEF desched_event
  <2> QED
    BY <2>1, <2>2, <2>3, FiniteWaiters, PollerAssumption DEF Counted
<1>9. CASE lthread_poller_poll
  BY <1>9, Zenon DEF lthread_poller_poll, Handle, ltVars, Counted
<1>10. CASE poller_done
  BY <1>10, Zenon DEF poller_done, ltVars, Counted
<1>11. CASE desched_none
  BY <1>11, Zenon DEF desched_none, Handled, Handle, ltVars, Counted
<1>12. CASE handle_eof
  BY <1>12, Zenon DEF handle_eof, Counted
<1>13. CASE desched_push
  BY <1>13, Zenon DEF desched_push, Counted
<1>14. CASE handle_event_return
  <2>1. event_lt # NULL /\ event_lt' = NULL
    BY <1>14, Zenon DEF handle_event_return, ThreadOK, Handed
  <2>2. num_pending_events' = num_pending_events - 1 /\ waiting' = waiting
    BY <1>14, Zenon DEF handle_event_return
  <2> QED
    BY <2>1, <2>2, FiniteWaiters DEF Counted
<1>15. CASE lthread_poller_close
  BY <1>15, Zenon DEF lthread_poller_close, ltVars, threadVars, Counted
<1>16. CASE UNCHANGED <<pollerVars, filters>>
  BY <1>16, Zenon DEF pollerVars, ltVars, threadVars, Counted
<1> QED
  BY <1>1, <1>2, <1>3, <1>4, <1>5, <1>6, <1>7, <1>8, <1>9, <1>10, <1>11, <1>12,
     <1>13, <1>14, <1>15, <1>16, Zenon
  DEF AnyStep

\* PollerInv holds at the start.
LEMMA InitInv == PollerInit /\ filters = {} => PollerInv
<1> SUFFICES ASSUME PollerInit, filters = {} PROVE PollerInv
  BY Zenon
<1>1. Types
  <2>1. 0 \in 0 .. Width - 1
    BY PollerAssumption
  <2>2. fd_wait \in [Lthreads -> 0 .. Width - 1]
    BY <2>1, Zenon DEF PollerInit
  <2>3. /\ state \in [Lthreads -> SUBSET Bits] /\ loaded \in [Lthreads -> SUBSET Bits]
        /\ needs_resched \in [Lthreads -> BOOLEAN]
    BY Zenon DEF PollerInit
  <2>4. /\ at \in [Lthreads -> {"idle", "user", "wait", "register", "switched", "tail",
                                "off", "ready", "done"}]
        /\ arg \in [Lthreads -> (Fds \X Dirs) \cup {NULL}]
    BY Zenon DEF PollerInit
  <2> QED
    BY <2>2, <2>3, <2>4, Zenon DEF PollerInit, Types, Dirs
<1>2. ThreadOK /\ EofKnown /\ EofIsOwn
  BY Zenon DEF PollerInit, ThreadOK, EofKnown, EofIsOwn, Handed
<1>3. \A lt \in Lthreads : LtOK(lt)
  BY Zenon DEF PollerInit, LtOK, Parked
<1>4. (\A lt \in waiting : WaiterOK(lt)) /\ KeysApart /\ WaitIsArmed
  BY Zenon DEF PollerInit, KeysApart, WaitIsArmed
<1>5. Counted
  BY FS_EmptySet DEF PollerInit, Counted
<1>6. Meeting
  <2>1. Owners /\ Single
    BY Zenon DEF PollerInit, Owners, Single, Current
  <2>2. Halfway
    BY Zenon DEF PollerInit, Halfway, Handed, Current
  <2> QED
    BY <2>1, <2>2, Zenon DEF PollerInit, Meeting
<1> QED
  BY <1>1, <1>2, <1>3, <1>4, <1>5, <1>6, Zenon DEF PollerInv

\* Every step keeps PollerInv.
LEMMA InvStep == PollerInv /\ [PollerNext]_Vars => PollerInv'
<1> SUFFICES ASSUME PollerInv, [PollerNext]_Vars PROVE PollerInv'
  BY Zenon
<1>1. AnyStep
  BY Steps, Zenon
<1> USE <1>1
<1>2. /\ Types /\ ThreadOK /\ EofKnown /\ EofIsOwn /\ KeysApart /\ Counted /\ WaitIsArmed
      /\ \A lt \in Lthreads : LtOK(lt)
      /\ \A lt \in waiting : WaiterOK(lt)
      /\ OneWay => Meeting
  BY Zenon DEF PollerInv
<1>3. Types' /\ ThreadOK' /\ (\A lt \in Lthreads : LtOK(lt))'
  BY <1>2, TypesStep, ThreadStep, LtStep, Zenon
<1>4. (\A lt \in waiting : WaiterOK(lt))' /\ KeysApart' /\ Counted'
  BY <1>2, WaiterStep, KeysStep, CountStep, Zenon
<1>5. EofKnown' /\ EofIsOwn' /\ WaitIsArmed'
  BY <1>2, EofKnownStep, EofStep, ArmedStep, Zenon
<1>6. (OneWay => Meeting)'
  <2>1. uses' = uses
    BY Zenon DEF AnyStep
  <2>2. OneWay' <=> OneWay
    BY <2>1, Zenon DEF OneWay
  <2> QED
    BY <1>2, <2>2, MeetingStep, Zenon
<1> QED
  BY <1>3, <1>4, <1>5, <1>6, Zenon DEF PollerInv

\* PollerInv is an invariant of the poller, whatever its users do.
LEMMA PollerInvHolds == PollerSpec => []PollerInv
  BY InitInv, InvStep, PTL DEF PollerSpec, Vars

-----------------------------------------------------------------------------
(* Theorems *)

\* The variables of struct lthread, of struct lthread_poller and of the poller's
\* thread keep their types, however many lthreads and descriptors there are.
THEOREM PollerTypeCorrect == PollerSpec => []PollerTypeOK
<1>1. PollerInv => PollerTypeOK
  <2> SUFFICES ASSUME PollerInv PROVE PollerTypeOK
    BY Zenon
  <2>1. Types /\ Counted
    BY Zenon DEF PollerInv
  <2>2. num_pending_events \in Nat
    BY <2>1, FiniteWaiters DEF Counted
  <2> QED
    BY <2>1, <2>2, Zenon DEF Types, PollerTypeOK, Events
<1> QED
  BY <1>1, PollerInvHolds, PTL

\* poller->waiting is a search tree at every moment (lthread_poller.c, fd_key): a
\* waiter keeps the bits and the descriptor it was inserted with although
\* _lthread_resume() stores into lt->state without the poller's mutex, no two have
\* one key, and num_pending_events counts them.
THEOREM TreeStaysKeyed == PollerSpec => []TreeIsKeyed
<1>1. PollerInv => TreeIsKeyed
  <2> SUFFICES ASSUME PollerInv PROVE TreeIsKeyed
    BY Zenon
  <2>1. Types /\ Counted /\ KeysApart /\ (\A lt \in Lthreads : LtOK(lt))
        /\ (\A lt \in waiting : WaiterOK(lt))
    BY Zenon DEF PollerInv
  <2>2. \A lt \in waiting :
          fd_key(state[lt], fd_wait[lt]) = <<arg[lt][1] % Width, arg[lt][2]>>
    BY <2>1, WaiterKey, Zenon DEF Types
  <2>3. \A lt, other \in waiting :
          fd_key(state[lt], fd_wait[lt]) = fd_key(state[other], fd_wait[other])
          => lt = other
    <3> SUFFICES ASSUME NEW lt \in waiting, NEW other \in waiting,
                        fd_key(state[lt], fd_wait[lt]) = fd_key(state[other], fd_wait[other])
                 PROVE  lt = other
      BY Zenon
    <3>1. <<arg[lt][1] % Width, arg[lt][2]>> = <<arg[other][1] % Width, arg[other][2]>>
      BY <2>2, Zenon
    <3>2. arg[lt][1] % Width = arg[other][1] % Width /\ arg[lt][2] = arg[other][2]
      BY <3>1, SameTuple, Zenon
    <3> QED
      BY <2>1, <3>2, Zenon DEF KeysApart
  <2>4. \A lt \in waiting :
          /\ at[lt] \in Parked
          /\ state[lt] = {BIT(arg[lt][2])}
          /\ fd_wait[lt] = arg[lt][1] % Width
    BY <2>1, Zenon DEF WaiterOK
  <2> QED
    BY <2>1, <2>3, <2>4, Zenon DEF TreeIsKeyed, Counted
<1> QED
  BY <1>1, PollerInvHolds, PTL

\* No lthread waits in the tree for an event that cannot come: its one-shot filter
\* is armed, or the poller's thread has taken it and has still to look it up.
THEOREM NobodyWaitsForNothing == PollerSpec => []WaitIsArmed
<1>1. PollerInv => WaitIsArmed
  BY Zenon DEF PollerInv
<1> QED
  BY <1>1, PollerInvHolds, PTL

\* LT_ST_FDEOF is never left over from another wait, nor set on an lthread whose
\* descriptor (or one with the same fd_wait) has no closed peer.
THEOREM EofMarksItsWait == PollerSpec => []EofIsOwn
<1>1. PollerInv => EofIsOwn
  BY Zenon DEF PollerInv
<1> QED
  BY <1>1, PollerInvHolds, PTL

\* The assertions on RB_INSERT and on lt_read and lt_write hold in every program
\* that uses each descriptor from one lthread and in one direction.
THEOREM OneUseMeets == PollerSpec => []EventsMeetWaiters
<1>1. PollerInv => EventsMeetWaiters
  BY Zenon DEF PollerInv, Meeting, EventsMeetWaiters
<1> QED
  BY <1>1, PollerInvHolds, PTL
=============================================================================
