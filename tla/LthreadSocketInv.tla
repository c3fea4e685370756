-------------------------- MODULE LthreadSocketInv --------------------------
(***************************************************************************)
(* The inductive invariant of the socket functions, SocketInv, and what    *)
(* their steps do, as the proofs take them.                                *)
(*                                                                         *)
(* SocketInv says what the loops of a call have counted, moved and made    *)
(* so far, and what is left of the buffers of a scatter write.  It says    *)
(* nothing of the poller: SocketsArePollerUsers brings in PollerInv.       *)
(***************************************************************************)
EXTENDS LthreadSocket

\* Where an lthread is.
Placed ==
  at \in [Lthreads -> {"idle", "user", "wait", "register", "switched", "tail", "off",
                       "ready", "done"}]

SockTypes ==
  /\ recvq \in [Fds -> Nat] /\ room \in [Fds -> Nat]
  /\ hup \subseteq Fds
  /\ link \in [Fds -> {"none", "pending", "up", "failed"}]

CallTypes ==
  /\ program \in [Lthreads -> SUBSET (Functions \X Fds)]
  /\ op \in [Lthreads -> Functions] /\ fd \in [Lthreads -> Fds]
  /\ calls \in [Lthreads -> Nat]
  /\ iov \in [Lthreads -> Seq(Nat)] /\ want \in [Lthreads -> Nat]
  /\ moved \in [Lthreads -> Nat] /\ total \in [Lthreads -> Nat]
  /\ made \in [Lthreads -> SUBSET Nat]
  /\ ret \in [Lthreads -> Int]

\* An lthread inside a call makes one that its program has.
UsesOK ==
  /\ uses = [lt \in Lthreads |-> {<<c[2], Waits(c[1])>> : c \in program[lt]}]
  /\ \A lt \in Lthreads : ~Idle(lt) => <<op[lt], fd[lt]>> \in program[lt]

\* The descriptors that a socket or a pipe may get, and those that a call which has
\* returned may have left open.
New(o) == IF o = "socket" THEN {{0}, {1}} ELSE {{0, 1}, {1, 2}}

Handover(lt) ==
  CASE op[lt] \in {"accept", "socket"} /\ ret[lt] >= 0 -> {{ret[lt]}}
    [] op[lt] = "pipe" /\ ret[lt] = 0 -> New("pipe")
    [] OTHER -> {{}}

Open(lt) == IF op[lt] = "accept" THEN made[lt] \ {0} ELSE made[lt]

Tallied(lt) ==
  /\ op[lt] \in {"recv", "send"} => moved[lt] = IF ret[lt] > 0 THEN ret[lt] ELSE 0
  /\ op[lt] = "readline" /\ ret[lt] > 0 => ret[lt] = moved[lt]
  /\ op[lt] = "writev" /\ ret[lt] >= 0 =>
       /\ moved[lt] = want[lt]
       /\ ret[lt] = moved[lt] \/ (ret[lt] = 0 /\ iov[lt] # <<>>)

\* What the loops have counted while a call lasts and what is left of a scatter
\* write; and which descriptors have been made.
CountOK(lt) ==
  /\ ~Idle(lt) /\ op[lt] \in {"recv", "send"} => moved[lt] = 0
  /\ ~Idle(lt) /\ op[lt] \in {"readline", "writev"} => total[lt] = moved[lt]
  /\ op[lt] = "writev" => moved[lt] + Bytes(iov[lt]) = want[lt]
  /\ ~Idle(lt) /\ op[lt] = "writev" => iov[lt] # <<>>
  /\ Idle(lt) => Tallied(lt)

MadeOK(lt) ==
  /\ op[lt] \notin {"accept", "socket", "pipe"} => made[lt] = {}
  /\ op[lt] = "accept" => made[lt] \subseteq {0, 1}
  /\ ~Idle(lt) /\ op[lt] \in {"socket", "pipe"} /\ total[lt] # 0 => made[lt] \in New(op[lt])
  /\ Idle(lt) => Open(lt) \in Handover(lt)

CallOK(lt) == CountOK(lt) /\ MadeOK(lt)

SocketInv ==
  /\ Placed /\ SockTypes /\ CallTypes /\ UsesOK
  /\ \A lt \in Lthreads : CallOK(lt)

-----------------------------------------------------------------------------
(* Steps *)

\* A system call and what follows it ends in a return, a wait, or the loop again.
Acts(lt) ==
  /\ at[lt] = "user"
  /\ \/ \E r \in Int : Return(lt, r)
     \/ WaitFd(lt, Waits(op[lt]))
     \/ Again
  /\ UNCHANGED <<state, hup, asked>> /\ Quiet

Acting(lt) ==
  \/ lthread_recv(lt) \/ lthread_send(lt) \/ lthread_readline(lt) \/ lthread_accept(lt)
  \/ lthread_socket(lt) \/ lthread_pipe(lt) \/ lthread_connect(lt) \/ lthread_writev(lt)

\* A step of lt leaves the calls of the others alone.
Kept(lt) ==
  \A x \in Lthreads \ {lt} :
    /\ at'[x] = at[x] /\ op'[x] = op[x] /\ fd'[x] = fd[x]
    /\ iov'[x] = iov[x] /\ want'[x] = want[x]
    /\ moved'[x] = moved[x] /\ total'[x] = total[x]
    /\ made'[x] = made[x] /\ ret'[x] = ret[x]

\* The bytes and descriptors of a step of lt, for each function.
Data(lt) == SockTypes' /\ CallTypes' /\ CallOK(lt)' /\ Kept(lt)

\* What the steps of all functions have in common.
Before(lt) ==
  Placed /\ SockTypes /\ CallTypes /\ CallOK(lt) /\ ~Idle(lt)

\* The steps of the schedulers, the poller and the peers: no call begins or ends.
Away ==
  /\ UNCHANGED callVars
  /\ \A x \in Lthreads : Idle(x)' <=> Idle(x)

\* One of three things happens.
Kinds ==
  \/ \E lt \in Lthreads : Call(lt) /\ UNCHANGED uses
  \/ \E lt \in Lthreads : (Acting(lt) \/ Resume(lt) \/ Finish(lt)) /\ UNCHANGED uses
  \/ Away /\ Placed' /\ SockTypes' /\ UNCHANGED uses

-----------------------------------------------------------------------------
\* The order on which induction over numbers rests.
Below == {ss \in Nat \X Nat : ss[1] < ss[2]}
=============================================================================
