------------------------ MODULE LthreadSocketProofs -------------------------
(***************************************************************************)
(* The socket functions, for every number of lthreads, every program they  *)
(* run and every size of buffers and batches: they use the poller in the   *)
(* way PollerSpec allows, so that what is proved of the poller with any    *)
(* users holds of them; they count the bytes they move, and lose no        *)
(* descriptor but a 0 that accept() gives.                                 *)
(***************************************************************************)
EXTENDS LthreadSocketCalls, LthreadPollerProofs

-----------------------------------------------------------------------------
(* Every step of a program is one that PollerSpec allows, and keeps SocketInv *)

\* A step of the poller or of a scheduler moves only lthreads that wait in the poller, and
\* no lthread into or out of a call.
LEMMA AwayStep ==
  ASSUME Placed, (\E lt \in Lthreads : Switched(lt)) \/ Poller \/ lthread_poller_close
  PROVE  Placed' /\ \A x \in Lthreads : Idle(x)' <=> Idle(x)
<1>1. ASSUME NEW lt \in Lthreads, Switched(lt)
      PROVE  \/ at' = at
             \/ /\ at[lt] \in {"wait", "register", "switched", "tail"}
                /\ \E p \in Parked \cup {"ready"} : at' = [at EXCEPT ![lt] = p]
  BY <1>1, Zenon DEF Switched, add_waiting_lthread, Fail, ltVars, register_event, resume_load,
              resume_store, Parked
<1>2. ASSUME Poller
      PROVE  at' = at \/ (at[event_lt] = "off" /\ at' = [at EXCEPT ![event_lt] = "ready"])
  <2>1. CASE desched_push
    BY <2>1, Zenon DEF desched_push
  <2>2. CASE ~desched_push
    BY <1>2, <2>2, Zenon DEF Poller, lthread_poller_poll, poller_done, desched_none, desched_event,
                      handle_eof, handle_event_return, ltVars
  <2> QED
    BY <2>1, <2>2, Zenon
<1>3. ASSUME lthread_poller_close PROVE at' = at
  BY <1>3, Zenon DEF lthread_poller_close, ltVars
<1>4. CASE at' = at
  BY <1>4, Zenon DEF Idle, Placed
<1>5. ASSUME NEW lt, NEW p \in Parked \cup {"ready"},
             at[lt] \notin {"idle", "done"}, at' = [at EXCEPT ![lt] = p]
      PROVE  Placed' /\ \A x \in Lthreads : Idle(x)' <=> Idle(x)
  <2>1. Placed'
    BY <1>5, Zenon DEF Placed, Parked
  <2>2. \A x \in Lthreads : at'[x] = IF x = lt THEN p ELSE at[x]
    BY <1>5, Zenon DEF Placed
  <2> QED
    BY <1>5, <2>1, <2>2, Zenon DEF Idle, Parked
<1> QED
  BY <1>1, <1>2, <1>3, <1>4, <1>5, Zenon

\* The poller and the schedulers leave the sockets alone, but for the filters.
LEMMA PollerFrame ==
  ASSUME (\E lt \in Lthreads : Switched(lt)) \/ Poller \/ lthread_poller_close
  PROVE  UNCHANGED sockVars
<1>1. ASSUME NEW lt \in Lthreads, Switched(lt) PROVE UNCHANGED sockVars
  BY <1>1, Zenon DEF Switched, add_waiting_lthread, register_event, resume_load, resume_store
<1>2. CASE Poller
  BY <1>2, Zenon DEF Poller, lthread_poller_poll, poller_done, desched_none, desched_event,
              handle_eof, desched_push, handle_event_return
<1>3. CASE lthread_poller_close
  BY <1>3, Zenon DEF lthread_poller_close
<1> QED
  BY <1>1, <1>2, <1>3, Zenon

\* The kernel's sockets, when the peer changes them.
LEMMA PeerTypes ==
  ASSUME SockTypes, Peer PROVE SockTypes' /\ hup \subseteq hup' /\ filters' = filters
<1>1. PICK f \in Fds : PeerSends(f) \/ PeerReads(f) \/ PeerCloses(f) \/ PeerAnswers(f)
  BY Zenon DEF Peer
<1>2. CASE PeerSends(f)
  BY <1>2 DEF PeerSends, SockTypes
<1>3. CASE PeerReads(f)
  <2>1. PICK n \in room[f] + 1 .. Capacity[f] : room' = [room EXCEPT ![f] = n]
    BY <1>3, Zenon DEF PeerReads
  <2>2. n \in Nat
    BY <2>1, KernelAssumption DEF SockTypes
  <2> QED
    BY <1>3, <2>1, <2>2, Zenon DEF PeerReads, SockTypes
<1>4. CASE PeerCloses(f)
  BY <1>4, Zenon DEF PeerCloses, SockTypes
<1>5. CASE PeerAnswers(f)
  BY <1>5, Zenon DEF PeerAnswers, SockTypes
<1> QED
  BY <1>1, <1>2, <1>3, <1>4, <1>5, Zenon

\* A step of Next is one of the kinds of Kinds.
LEMMA NextKinds ==
  ASSUME SocketInv, [Next]_vars PROVE Kinds
<1> USE DEF SocketInv
<1>2. CASE \E lt \in Lthreads : UserStep(lt)
  BY <1>2, Zenon DEF UserStep, User, Kinds, Acting
<1>3. CASE (\E lt \in Lthreads : SwitchStep(lt)) \/ PollerStep \/ CloseStep
  <2>1. /\ (\E lt \in Lthreads : Switched(lt)) \/ Poller \/ lthread_poller_close
        /\ UNCHANGED <<uses, callVars>>
    BY <1>3, Zenon DEF SwitchStep, PollerStep, CloseStep
  <2>2. UNCHANGED sockVars
    BY <2>1, PollerFrame, Zenon
  <2> QED
    BY <2>1, <2>2, AwayStep, SockSame, Zenon DEF Kinds, Away
<1>4. CASE PeerStep
  <2>1. SockTypes' /\ UNCHANGED <<pollerVars, callVars>>
    BY <1>4, PeerTypes, Zenon DEF PeerStep
  <2>2. at' = at /\ uses' = uses
    BY <2>1, Zenon DEF pollerVars, ltVars
  <2> QED
    BY <2>1, <2>2, Zenon DEF Kinds, Away, Idle, Placed
<1>5. CASE UNCHANGED vars
  <2>1. UNCHANGED callVars /\ UNCHANGED sockVars /\ at' = at /\ uses' = uses
    BY <1>5, Zenon DEF vars, pollerVars, ltVars
  <2> QED
    BY <2>1, SockSame, Zenon DEF Kinds, Away, Idle, Placed
<1> QED
  BY <1>2, <1>3, <1>4, <1>5, Zenon DEF Next, Over

\* A step of a socket function leaves its lthread in a known place.
LEMMA UserPlaced ==
  ASSUME Placed, NEW lt \in Lthreads, Acts(lt) \/ Call(lt) \/ Resume(lt) \/ Finish(lt)
  PROVE  Placed'
<1>1. at' = at \/ \E p \in {"idle", "user", "wait", "done"} : at' = [at EXCEPT ![lt] = p]
  BY Zenon DEF Acts, Return, WaitFd, Again, Call, Resume, Finish
<1> QED
  BY <1>1, Zenon DEF Placed

\* Every kind of step keeps SocketInv.
LEMMA CallsStep ==
  ASSUME SocketInv, Kinds
  PROVE  SocketInv'
<1>1. /\ Placed /\ SockTypes /\ CallTypes /\ UsesOK
      /\ \A lt \in Lthreads : CallOK(lt)
  BY Zenon DEF SocketInv
<1>2. PICK S : at \in [Lthreads -> S]
  BY <1>1, Zenon DEF Placed
<1>3. ASSUME NEW lt \in Lthreads, Data(lt) PROVE \A x \in Lthreads : CallOK(x)'
  BY <1>1, <1>3, Others, Zenon DEF Data
<1>4. ASSUME NEW lt \in Lthreads, Data(lt), uses' = uses, program' = program,
             at'[lt] \notin {"idle", "done"} => <<op'[lt], fd'[lt]>> \in program[lt]
      PROVE  UsesOK'
  <2>1. \A x \in Lthreads \ {lt} : at'[x] = at[x] /\ op'[x] = op[x] /\ fd'[x] = fd[x]
    BY <1>4, Zenon DEF Data, Kept
  <2>2. \A x \in Lthreads : Idle(x)' \/ <<op'[x], fd'[x]>> \in program[x]
    BY <1>1, <1>4, <2>1, Zenon DEF UsesOK, Idle
  <2> QED
    BY <1>1, <1>4, <2>2, Zenon DEF UsesOK
<1>5. ASSUME NEW lt \in Lthreads, Call(lt), uses' = uses
      PROVE  Placed' /\ Data(lt) /\ UsesOK'
  BY <1>1, <1>2, <1>4, <1>5, CallData, UserPlaced, Zenon
<1>6. ASSUME NEW lt \in Lthreads, Acting(lt) \/ Resume(lt) \/ Finish(lt), uses' = uses
      PROVE  Placed' /\ Data(lt) /\ UsesOK'
  <2>1. CASE Acting(lt) \/ Resume(lt)
    <3>1. at[lt] \in {"user", "ready"} /\ UNCHANGED asked
      BY <1>1, <2>1, ActingActs, Zenon DEF Acts, Resume, CallTypes
    <3>2. Before(lt)
      BY <1>1, <1>2, <3>1, Zenon DEF Before, Idle
    <3>3. Placed' /\ Data(lt)
      BY <1>1, <2>1, <3>2, ActingActs, UserPlaced, ActingData, ResumeData, Zenon DEF CallTypes
    <3>4. <<op'[lt], fd'[lt]>> \in program[lt] /\ program' = program
      BY <1>1, <3>1, Zenon DEF UsesOK, Idle, asked
    <3> QED
      BY <1>4, <1>6, <3>3, <3>4, Zenon
  <2>2. CASE Finish(lt)
    <3>1. Placed' /\ Data(lt)
      BY <1>1, <1>2, <2>2, UserPlaced, FinishData, Zenon
    <3>2. at'[lt] = "done" /\ program' = program
      BY <1>2, <2>2, Zenon DEF Finish, callVars, asked
    <3> QED
      BY <1>4, <1>6, <3>1, <3>2, Zenon
  <2> QED
    BY <1>6, <2>1, <2>2, Zenon
<1>7. ASSUME Away, SockTypes', uses' = uses
      PROVE  CallTypes' /\ UsesOK' /\ \A lt \in Lthreads : CallOK(lt)'
  <2>1. CallTypes'
    BY <1>1, <1>7, Zenon DEF Away, callVars, asked, fdVars, CallTypes
  <2>2. UsesOK'
    BY <1>1, <1>7, Zenon DEF Away, callVars, asked, UsesOK
  <2>3. ASSUME NEW lt \in Lthreads PROVE CallOK(lt)'
    <3>1. CallOK(lt) /\ (Idle(lt)' <=> Idle(lt))
      BY <1>1, <1>7, Zenon DEF Away
    <3>2. Handover(lt)' = Handover(lt)
      BY <1>7, Zenon DEF Away, callVars, asked, Handover
    <3>3. CountOK(lt)'
      BY <1>7, <3>1, Zenon DEF Away, callVars, asked, CallOK, CountOK, Tallied
    <3>4. MadeOK(lt)'
      BY <1>7, <3>1, <3>2, Zenon DEF Away, callVars, asked, fdVars, CallOK, MadeOK, Open
    <3> QED
      BY <3>3, <3>4, Zenon DEF CallOK
  <2> QED
    BY <2>1, <2>2, <2>3, Zenon
<1> QED
  BY <1>3, <1>5, <1>6, <1>7, Zenon DEF Kinds, Data, SocketInv

\* A call that waits, waits for what its program lets it use.
LEMMA PollerMayStep ==
  ASSUME SocketInv, [Next]_vars PROVE [PollerNext]_<<pollerVars, filters, hup>>
<1>1. /\ SockTypes /\ UsesOK /\ total \in [Lthreads -> Nat]
      /\ made \in [Lthreads -> SUBSET Nat]
  BY Zenon DEF SocketInv, CallTypes
<1>2. ASSUME NEW lt \in Lthreads, UserStep(lt) PROVE PollerNext
  <2>1. failed = "none" /\ uses' = uses
    BY <1>2, Zenon DEF UserStep
  <2>2. CASE Call(lt) \/ Finish(lt)
    <3>1. hup' = hup /\ Elsewhere(lt)
      BY <2>2, Zenon DEF Call, Finish, Elsewhere, Outside, sockVars
    <3> QED
      BY <2>1, <3>1, Zenon DEF PollerNext
  <2>3. CASE Resume(lt)
    <3>1. hup' = hup /\ EndWait(lt)
      BY <2>3, Zenon DEF Resume, EndWait, sockVars
    <3> QED
      BY <2>1, <3>1, Zenon DEF PollerNext
  <2>4. CASE Acting(lt)
    <3>1. Acts(lt)
      BY <1>1, <2>4, ActingActs, Zenon
    <3>2. hup' = hup /\ at[lt] = "user" /\ state' = state /\ Quiet
      BY <3>1, Zenon DEF Acts
    <3>3. CASE \E r \in Int : Return(lt, r)
      <4>1. Elsewhere(lt)
        BY <3>2, <3>3, Zenon DEF Return, Elsewhere, Outside
      <4> QED
        BY <2>1, <3>2, <4>1, Zenon DEF PollerNext
    <3>4. CASE WaitFd(lt, Waits(op[lt]))
      <4>1. <<op[lt], fd[lt]>> \in program[lt]
        BY <1>1, <3>2, Zenon DEF UsesOK, Idle
      <4>2. uses[lt] = {<<c[2], Waits(c[1])>> : c \in program[lt]}
        BY <1>1, Zenon DEF UsesOK
      <4>3. <<fd[lt], Waits(op[lt])>> \in uses[lt]
        BY <4>1, <4>2
      <4>4. BeginWait(lt)
        BY <3>2, <3>4, <4>3, Zenon DEF WaitFd, BeginWait
      <4> QED
        BY <2>1, <3>2, <4>4, Zenon DEF PollerNext
    <3>5. CASE Again
      <4>1. UNCHANGED <<pollerVars, filters>>
        BY <2>1, <3>2, <3>5, Zenon DEF Again, Quiet, pollerVars, ltVars
      <4> QED
        BY <2>1, <3>2, <4>1, Zenon DEF PollerNext
    <3> QED
      BY <3>1, <3>3, <3>4, <3>5, Zenon DEF Acts
  <2> QED
    BY <1>2, <2>2, <2>3, <2>4, Zenon DEF UserStep, User, Acting
<1>3. ASSUME (\E lt \in Lthreads : SwitchStep(lt)) \/ PollerStep \/ CloseStep
      PROVE  PollerNext
  <2>1. /\ failed = "none" /\ uses' = uses
        /\ (\E lt \in Lthreads : Switched(lt)) \/ Poller \/ lthread_poller_close
    BY <1>3, Zenon DEF SwitchStep, PollerStep, CloseStep
  <2>2. UNCHANGED sockVars
    BY <2>1, PollerFrame, Zenon
  <2>3. hup' = hup
    BY <2>2, Zenon DEF sockVars
  <2> QED
    BY <2>1, <2>3, Zenon DEF PollerNext
<1>4. ASSUME PeerStep PROVE PollerNext
  <2>1. failed = "none" /\ UNCHANGED pollerVars /\ hup \subseteq hup' /\ filters' = filters
    BY <1>1, <1>4, PeerTypes, Zenon DEF PeerStep
  <2> QED
    BY <2>1, Zenon DEF PollerNext, pollerVars
<1>5. ASSUME UNCHANGED vars PROVE UNCHANGED <<pollerVars, filters, hup>>
  BY <1>5, Zenon DEF vars, sockVars
<1> QED
  BY <1>2, <1>3, <1>4, <1>5, Zenon DEF Next, Over

\* SocketInv holds at the start, which is a start of the poller.
LEMMA SocketInit == Init => SocketInv /\ PollerInit /\ filters = {}
<1> SUFFICES ASSUME Init PROVE SocketInv /\ PollerInit /\ filters = {}
  BY Zenon
<1>1. PollerInit /\ filters = {} /\ Placed
  BY Zenon DEF Init, PollerInit, KernelInit, Placed
<1>2. program \in [Lthreads -> SUBSET (Functions \X Fds)]
  BY SocketAssumption, Zenon DEF Init
<1>3. CallTypes
  <2>1. (CHOOSE f \in Fds : TRUE) \in Fds
    BY SocketAssumption, Zenon
  <2>2. fd \in [Lthreads -> Fds]
    BY <2>1, Zenon DEF Init
  <2>3. op \in [Lthreads -> Functions] /\ iov \in [Lthreads -> Seq(Nat)]
    BY DEF Init, Functions
  <2>4. /\ calls \in [Lthreads -> Nat] /\ want \in [Lthreads -> Nat]
        /\ moved \in [Lthreads -> Nat] /\ total \in [Lthreads -> Nat]
        /\ made \in [Lthreads -> SUBSET Nat] /\ ret \in [Lthreads -> Int]
    BY DEF Init
  <2> QED
    BY <1>2, <2>2, <2>3, <2>4, Zenon DEF CallTypes
<1>4. SockTypes
  <2>1. recvq \in [Fds -> Nat] /\ room \in [Fds -> Nat]
    BY KernelAssumption, Zenon DEF Init
  <2>2. link \in [Fds -> {"none", "pending", "up", "failed"}] /\ hup = {}
    BY Zenon DEF Init, KernelInit
  <2> QED
    BY <2>1, <2>2, Zenon DEF SockTypes
<1>5. UsesOK
  BY Zenon DEF Init, UsesOK, Idle
<1>6. ASSUME NEW lt \in Lthreads PROVE CallOK(lt)
  <2>1. op[lt] = "recv" /\ ret[lt] = 0 /\ made[lt] = {} /\ moved[lt] = 0 /\ Idle(lt)
    BY Zenon DEF Init, Idle
  <2>2. moved[lt] = IF ret[lt] > 0 THEN ret[lt] ELSE 0
    BY <2>1
  <2> QED
    BY <2>1, <2>2, Zenon DEF CallOK, CountOK, Tallied, MadeOK, Open, Handover
<1> QED
  BY <1>1, <1>3, <1>4, <1>5, <1>6, Zenon DEF SocketInv

\* Every step keeps SocketInv.
LEMMA SocketStep == SocketInv /\ [Next]_vars => SocketInv'
  BY NextKinds, CallsStep, Zenon

\* SocketInv is an invariant of the socket functions.
LEMMA SocketInvHolds == Spec => []SocketInv
  BY SocketInit, SocketStep, PTL DEF Spec

-----------------------------------------------------------------------------
(* Theorems *)

\* The socket functions (lthread_socket.c and _lthread_wait_fd) use the poller as any
\* program may, whatever the calls, the peers and the order of events.
THEOREM SocketsArePollerUsers == Spec => PollerSpec
<1>1. Init => PollerInit /\ filters = {}
  BY SocketInit, Zenon
<1>2. SocketInv /\ [Next]_vars => [PollerNext]_<<pollerVars, filters, hup>>
  BY PollerMayStep, Zenon
<1> QED
  BY <1>1, <1>2, SocketInvHolds, PTL DEF Spec, PollerSpec

\* What recv, send, readline and writev answer is what the kernel has moved, and a
\* scatter write that does not fail has written all of its buffers, however the
\* kernel cuts it; it answers with their bytes, or with 0 if an empty one is left.
THEOREM BytesAreAccounted == Spec => []BytesAccounted
<1>1. SocketInv => BytesAccounted
  <2> SUFFICES ASSUME SocketInv, NEW lt \in Lthreads
               PROVE  /\ op[lt] = "writev" => moved[lt] + Bytes(iov[lt]) = want[lt]
                      /\ Idle(lt) => Tallied(lt)
    BY Zenon DEF BytesAccounted, Tallied
  <2> QED
    BY Zenon DEF SocketInv, CallOK, CountOK
<1> QED
  BY <1>1, SocketInvHolds, PTL

\* accept, socket and pipe leave no descriptor open but those they hand to their
\* caller, whichever of their system calls fails; but for the descriptor 0 that
\* accept takes for a failure.
THEOREM DescriptorsAreNotLeaked == Spec => []NoDescriptorLeak
<1>1. SocketInv => NoDescriptorLeak
  <2> SUFFICES ASSUME SocketInv, NEW lt \in Lthreads, Idle(lt)
               PROVE  Open(lt) \in Handover(lt)
    BY Zenon DEF NoDescriptorLeak, Open, Handover, New
  <2> QED
    BY Zenon DEF SocketInv, CallOK, MadeOK
<1> QED
  BY <1>1, SocketInvHolds, PTL

\* Every variable of the sockets, the poller and the calls keeps its type.
THEOREM SocketTypeCorrect == Spec => []TypeOK
<1>1. SocketInv /\ PollerInv /\ PollerTypeOK => TypeOK
  BY Zenon DEF SocketInv, PollerInv, Types, SockTypes, CallTypes, TypeOK, KernelTypeOK
<1> QED
  BY <1>1, SocketInvHolds, SocketsArePollerUsers, PollerInvHolds, PollerTypeCorrect, PTL

\* So what is proved of the poller holds while the socket functions use it.
THEOREM SocketsKeepThePoller ==
  Spec => [](TreeIsKeyed /\ WaitIsArmed /\ EofIsOwn /\ EventsMeetWaiters)
  BY SocketsArePollerUsers, TreeStaysKeyed, NobodyWaitsForNothing, EofMarksItsWait,
     OneUseMeets, PTL
=============================================================================
