---------------------------- MODULE LthreadSocket ----------------------------
(***************************************************************************)
(* lthread_socket.c on top of LthreadPoller: lthreads that call the socket *)
(* functions, whose loops try a system call, wait for the descriptor when  *)
(* it would block, and try again.  A system call and what the lthread does *)
(* with the answer up to the next one is a step.                           *)
(*                                                                         *)
(* "recv" stands for the four functions LTHREAD_RECV generates and "send"  *)
(* for the two of LTHREAD_SEND.  The timeouts have no variable: the code   *)
(* takes them and does not look at them.                                   *)
(***************************************************************************)
EXTENDS LthreadPoller, Sequences, FiniteSetsExt

CONSTANTS Programs,  \* the programs: the calls each lthread may make
          Iovs,      \* the lengths of the buffers lthread_writev is given
          LineMax,   \* the argument max of lthread_readline
          MaxCalls   \* bound: the calls each lthread makes

Functions == {"recv", "readline", "accept", "socket", "pipe", "send", "connect",
              "writev"}

\* The direction a function waits for, if it waits.
Waits(f) == IF f \in {"send", "connect", "writev"} THEN "WRITE" ELSE "READ"

ASSUME SocketAssumption ==
  /\ Fds # {}
  /\ Programs \subseteq [Lthreads -> SUBSET (Functions \X Fds)]
  /\ Iovs \subseteq Seq(Nat) /\ <<>> \notin Iovs
  /\ LineMax \in Nat \ {0} /\ MaxCalls \in [Lthreads -> Nat]

VARIABLES
  program,     \* the program that runs
  op, fd,      \* the call an lthread is in, or was in last
  calls,       \* the calls it has made
  iov,         \* writev: what is left of each buffer from iov_index on
  want,        \* writev: the bytes it was given
  moved,       \* the bytes the kernel has moved for the call
  total,       \* what the code has counted: total, or total_read
  made,        \* the descriptors the call has got from the kernel and not closed
  zero,        \* descriptor 0 is free: the process has no standard input
  ret          \* what the last call returned

asked == <<program, op, fd, calls, want>>
fdVars == <<made, zero>>
callVars == <<asked, iov, moved, total, fdVars, ret>>
vars == <<pollerVars, sockVars, filters, callVars>>

\* A descriptor that is to be connected starts so; the others have nothing to read
\* and no room, or, in a direction nobody waits for, all that their peer would give.
\* Descriptor 0 may be free, which only a program that makes descriptors can tell.
Init ==
  /\ program \in Programs
  /\ uses = [lt \in Lthreads |-> {<<c[2], Waits(c[1])>> : c \in program[lt]}]
  /\ at = [lt \in Lthreads |-> IF program[lt] = {} THEN "done" ELSE "idle"]
  /\ LET Used(f, e) == \E lt \in Lthreads : <<f, e>> \in uses[lt]
         Connects(f) == \E lt \in Lthreads : <<"connect", f>> \in program[lt]
     IN /\ recvq = [f \in Fds |-> IF Used(f, "READ") THEN 0 ELSE Capacity[f]]
        /\ room = [f \in Fds |-> IF Used(f, "WRITE") /\ ~Connects(f) THEN 0 ELSE Capacity[f]]
        /\ link = [f \in Fds |-> IF Connects(f) \/ ~(Used(f, "READ") \/ Used(f, "WRITE"))
                                  THEN "none" ELSE "up"]
  /\ KernelInit /\ PollerInit
  /\ op = [lt \in Lthreads |-> "recv"]
  /\ fd = [lt \in Lthreads |-> CHOOSE f \in Fds : TRUE]
  /\ calls = [lt \in Lthreads |-> 0]
  /\ iov = [lt \in Lthreads |-> <<>>]
  /\ want = [lt \in Lthreads |-> 0]
  /\ moved = [lt \in Lthreads |-> 0]
  /\ total = [lt \in Lthreads |-> 0]
  /\ made = [lt \in Lthreads |-> {}]
  /\ zero \in {z \in BOOLEAN :
                 z => \E lt \in Lthreads : \E c \in program[lt] :
                        c[1] \in {"accept", "socket", "pipe"}}
  /\ ret = [lt \in Lthreads |-> 0]

\* The bytes of the first i buffers, for each i, and of all.
Upto(lens) ==
  LET sum[i \in 0 .. Len(lens)] == IF i = 0 THEN 0 ELSE sum[i - 1] + lens[i] IN sum

Bytes(lens) == Upto(lens)[Len(lens)]

Calling(lt, o) == at[lt] = "user" /\ op[lt] = o

Return(lt, r) ==
  /\ at' = [at EXCEPT ![lt] = "idle"]
  /\ ret' = [ret EXCEPT ![lt] = r]
  /\ UNCHANGED arg

\* _lthread_wait_fd(fd, e), up to the poller's mutex.
WaitFd(lt, e) ==
  /\ at' = [at EXCEPT ![lt] = "wait"]
  /\ arg' = [arg EXCEPT ![lt] = <<fd[lt], e>>]
  /\ UNCHANGED ret

Again == UNCHANGED <<at, arg, ret>>

Call(lt) ==
  /\ at[lt] = "idle" /\ calls[lt] < MaxCalls[lt]
  /\ \E c \in program[lt] :
       /\ op' = [op EXCEPT ![lt] = c[1]]
       /\ fd' = [fd EXCEPT ![lt] = c[2]]
       /\ \E lens \in IF c[1] = "writev" THEN Iovs ELSE {<<>>} :
            /\ iov' = [iov EXCEPT ![lt] = lens]
            /\ want' = [want EXCEPT ![lt] = Bytes(lens)]
  /\ at' = [at EXCEPT ![lt] = "user"]
  /\ calls' = [calls EXCEPT ![lt] = @ + 1] /\ UNCHANGED program
  /\ moved' = [moved EXCEPT ![lt] = 0]
  /\ total' = [total EXCEPT ![lt] = 0]
  /\ made' = [made EXCEPT ![lt] = {}]
  /\ UNCHANGED <<state, arg, ret, zero, sockVars>> /\ Quiet

\* The lthread's function returns.
Finish(lt) ==
  /\ at[lt] = "idle"
  /\ at' = [at EXCEPT ![lt] = "done"]
  /\ UNCHANGED <<state, arg, callVars, sockVars>> /\ Quiet

\* Mutant: the mark of the end of file stays.
Resume_KeepsEof(lt) ==
  LET eof == "FDEOF" \in state[lt] IN
  /\ at[lt] = "ready"
  /\ UNCHANGED state
  /\ arg' = [arg EXCEPT ![lt] = NULL]
  /\ IF eof /\ op[lt] \in {"recv", "readline", "send"}
       THEN at' = [at EXCEPT ![lt] = "idle"] /\ ret' = [ret EXCEPT ![lt] = -1]
       ELSE at' = [at EXCEPT ![lt] = "user"] /\ UNCHANGED ret
  /\ UNCHANGED <<asked, iov, moved, total, fdVars, sockVars>> /\ Quiet

\* Mutant: an lthread is resumed that nobody has made ready.
Resume_Early(lt) ==
  LET eof == "FDEOF" \in state[lt] IN
  /\ at[lt] \in {"off", "ready"}
  /\ state' = [state EXCEPT ![lt] = @ \ {"FDEOF"}]
  /\ arg' = [arg EXCEPT ![lt] = NULL]
  /\ IF eof /\ op[lt] \in {"recv", "readline", "send"}
       THEN at' = [at EXCEPT ![lt] = "idle"] /\ ret' = [ret EXCEPT ![lt] = -1]
       ELSE at' = [at EXCEPT ![lt] = "user"] /\ UNCHANGED ret
  /\ UNCHANGED <<asked, iov, moved, total, fdVars, sockVars>> /\ Quiet

\* The lthread's next turn, and the end of _lthread_wait_fd(): at the end of file
\* recv and send give up, the others try again.
Resume(lt) ==
  LET eof == "FDEOF" \in state[lt] IN
  /\ at[lt] = "ready"
  /\ state' = [state EXCEPT ![lt] = @ \ {"FDEOF"}]
  /\ arg' = [arg EXCEPT ![lt] = NULL]
  /\ IF eof /\ op[lt] \in {"recv", "readline", "send"}
       THEN at' = [at EXCEPT ![lt] = "idle"] /\ ret' = [ret EXCEPT ![lt] = -1]
       ELSE at' = [at EXCEPT ![lt] = "user"] /\ UNCHANGED ret
  /\ UNCHANGED <<asked, iov, moved, total, fdVars, sockVars>> /\ Quiet

-----------------------------------------------------------------------------
(* The loops: one system call and what follows it *)

EAGAIN == -11

\* recv() takes n bytes, or answers that there is nothing (yet), or fails.
Taken(lt, n) ==
  /\ link[fd[lt]] = "up" /\ n \in 1 .. recvq[fd[lt]]
  /\ recvq' = [recvq EXCEPT ![fd[lt]] = @ - n]
  /\ UNCHANGED <<room, hup, link>>

Received(lt, n) == Taken(lt, n) /\ moved' = [moved EXCEPT ![lt] = @ + n]

NothingToReceive(lt, r) ==
  \/ r = EAGAIN /\ link[fd[lt]] = "up" /\ recvq[fd[lt]] = 0 /\ fd[lt] \notin hup
  \/ r = 0 /\ link[fd[lt]] = "up" /\ recvq[fd[lt]] = 0 /\ fd[lt] \in hup
  \/ r = -1 /\ (fd[lt] \in hup \/ link[fd[lt]] # "up")

\* send() and writev() take n bytes of the `most' offered, or fail.
Sent(lt, n, most) ==
  /\ link[fd[lt]] = "up" /\ fd[lt] \notin hup
  /\ n \in 1 .. room[fd[lt]] /\ n <= most
  /\ room' = [room EXCEPT ![fd[lt]] = @ - n]
  /\ moved' = [moved EXCEPT ![lt] = @ + n]
  /\ UNCHANGED <<recvq, hup, link>>

NothingSent(lt, r) ==
  \/ r = EAGAIN /\ link[fd[lt]] = "up" /\ room[fd[lt]] = 0 /\ fd[lt] \notin hup
  \/ r = -1 /\ (fd[lt] \in hup \/ link[fd[lt]] # "up")

\* LTHREAD_RECV, LTHREAD_SEND
lthread_recv(lt) ==
  /\ Calling(lt, "recv")
  /\ \/ \E n \in 1 .. Capacity[fd[lt]] : Received(lt, n) /\ Return(lt, n)
     \/ /\ \/ NothingToReceive(lt, EAGAIN) /\ WaitFd(lt, "READ")
           \/ \E r \in {0, -1} : NothingToReceive(lt, r) /\ Return(lt, r)
        /\ UNCHANGED <<moved, sockVars>>
  /\ UNCHANGED <<state, asked, iov, total, fdVars>> /\ Quiet

lthread_send(lt) ==
  /\ Calling(lt, "send")
  /\ \/ \E n \in 1 .. Capacity[fd[lt]] : Sent(lt, n, n) /\ Return(lt, n)
     \/ /\ \/ NothingSent(lt, EAGAIN) /\ WaitFd(lt, "WRITE")
           \/ NothingSent(lt, -1) /\ Return(lt, -1)
        /\ UNCHANGED <<moved, sockVars>>
  /\ UNCHANGED <<state, asked, iov, total, fdVars>> /\ Quiet

\* One byte at a time, until it is a newline or the buffer is full.  (A calloc()
\* that fails returns -1 at once; that is left out.)
lthread_readline(lt) ==
  /\ Calling(lt, "readline")
  /\ \/ /\ Received(lt, 1)
        /\ total' = [total EXCEPT ![lt] = @ + 1]
        /\ \/ Return(lt, total[lt] + 1)
           \/ total[lt] + 1 < LineMax /\ Again
     \/ /\ \/ NothingToReceive(lt, EAGAIN) /\ WaitFd(lt, "READ")
           \/ \E r \in {0, -1} : NothingToReceive(lt, r) /\ Return(lt, r)
        /\ UNCHANGED <<moved, total, sockVars>>
  /\ UNCHANGED <<state, asked, iov, fdVars>> /\ Quiet

\* The kernel gives the lowest descriptors that are free: 0, or some others, which
\* are told apart by nothing here.
Fresh(n) == IF zero THEN 0 .. n - 1 ELSE 1 .. n

\* accept(), and _lthread_unblock_fd() once it has given a descriptor above 0: the
\* loop goes round again with a descriptor 0, which stays open.
lthread_accept(lt) ==
  /\ Calling(lt, "accept")
  /\ \/ /\ 1 \notin made[lt] /\ Taken(lt, 1) /\ UNCHANGED moved
        /\ \/ made' = [made EXCEPT ![lt] = @ \cup Fresh(1)] /\ zero' = FALSE
           \/ UNCHANGED fdVars                            \* ECONNABORTED
        /\ Again
     \/ /\ 1 \notin made[lt]
        /\ \/ NothingToReceive(lt, EAGAIN) /\ WaitFd(lt, "READ")
           \/ recvq[fd[lt]] > 0 /\ WaitFd(lt, "READ")     \* EMFILE, ENFILE
           \/ NothingToReceive(lt, -1) /\ Return(lt, -1)
        /\ UNCHANGED <<fdVars, moved, sockVars>>
     \/ /\ 1 \in made[lt]
        /\ \/ Return(lt, 1) /\ UNCHANGED made
           \/ Return(lt, -1) /\ made' = [made EXCEPT ![lt] = @ \ {1}]
        /\ UNCHANGED <<zero, moved, sockVars>>
  /\ UNCHANGED <<state, asked, iov, total>> /\ Quiet

\* Mutant: a descriptor that cannot be set up stays open.
Make_Leaks(lt, o, n) ==
  /\ Calling(lt, o)
  /\ \/ Return(lt, -1) /\ UNCHANGED <<made, zero, total>>
     \/ /\ IF total[lt] = 0
             THEN made' = [made EXCEPT ![lt] = Fresh(n)] /\ zero' = FALSE
             ELSE UNCHANGED fdVars
        /\ total' = [total EXCEPT ![lt] = @ + 1]
        /\ IF total[lt] < 2
             THEN Again
             ELSE \E r \in IF o = "socket" THEN made[lt] ELSE {0} : Return(lt, r)
  /\ UNCHANGED <<state, asked, iov, moved, sockVars>> /\ Quiet

\* lthread_socket and lthread_pipe make n descriptors in the first of three system
\* calls, of which `total' counts those that have succeeded; when one fails, what
\* was made is closed.  A socket is returned, a pipe is left to the caller with a 0.
Make(lt, o, n) ==
  /\ Calling(lt, o)
  /\ \/ /\ Return(lt, -1) /\ made' = [made EXCEPT ![lt] = {}] /\ UNCHANGED total
        /\ zero' = (zero \/ 0 \in made[lt])
     \/ /\ IF total[lt] = 0
             THEN made' = [made EXCEPT ![lt] = Fresh(n)] /\ zero' = FALSE
             ELSE UNCHANGED fdVars
        /\ total' = [total EXCEPT ![lt] = @ + 1]
        /\ IF total[lt] < 2
             THEN Again
             ELSE \E r \in IF o = "socket" THEN made[lt] ELSE {0} : Return(lt, r)
  /\ UNCHANGED <<state, asked, iov, moved, sockVars>> /\ Quiet

lthread_socket(lt) == Make(lt, "socket", 1)
lthread_pipe(lt) == Make(lt, "pipe", 2)

\* connect() is tried again after the wait; EALREADY and EISCONN are errors.
lthread_connect(lt) ==
  /\ Calling(lt, "connect")
  /\ \/ /\ link[fd[lt]] = "none"
        /\ \/ link' = [link EXCEPT ![fd[lt]] = "up"] /\ Return(lt, 0)
           \/ link' = [link EXCEPT ![fd[lt]] = "pending"] /\ WaitFd(lt, "WRITE")
           \/ link' = [link EXCEPT ![fd[lt]] = "failed"] /\ Return(lt, -1)
     \/ link[fd[lt]] # "none" /\ Return(lt, -1) /\ UNCHANGED link
  /\ UNCHANGED <<state, asked, iov, moved, total, fdVars, recvq, room, hup>> /\ Quiet

\* Mutant: a buffer of which a part is written is not cut.
Skip_Uncut(lens, n) ==
  LET i == Min({j \in 0 .. Len(lens) : Upto(lens)[j] >= n})
      left == SubSeq(lens, i + 1, Len(lens))
  IN IF Upto(lens)[i] = n THEN left ELSE <<lens[i]>> \o left

\* The buffers that are left after n bytes: the first i are what it takes to hold
\* them, and of the last of these the end is left.
Skip(lens, n) ==
  LET i == Min({j \in 0 .. Len(lens) : Upto(lens)[j] >= n})
      left == SubSeq(lens, i + 1, Len(lens))
  IN IF Upto(lens)[i] = n THEN left ELSE <<Upto(lens)[i] - n>> \o left

lthread_writev(lt) ==
  /\ Calling(lt, "writev")
  /\ \/ \E n \in 1 .. Capacity[fd[lt]] :
          /\ Sent(lt, n, Bytes(iov[lt]))
          /\ total' = [total EXCEPT ![lt] = @ + n]
          /\ iov' = [iov EXCEPT ![lt] = Skip(@, n)]
          /\ IF iov'[lt] = <<>> THEN Return(lt, total'[lt]) ELSE Again
     \/ /\ \/ Bytes(iov[lt]) > 0 /\ NothingSent(lt, EAGAIN) /\ WaitFd(lt, "WRITE")
           \/ Bytes(iov[lt]) = 0 /\ Return(lt, 0)
           \/ NothingSent(lt, -1) /\ Return(lt, -1)
        /\ UNCHANGED <<iov, moved, total, sockVars>>
  /\ UNCHANGED <<state, asked, fdVars>> /\ Quiet

-----------------------------------------------------------------------------
User(lt) ==
  \/ Call(lt) \/ Finish(lt) \/ Resume(lt)
  \/ lthread_recv(lt) \/ lthread_send(lt) \/ lthread_readline(lt) \/ lthread_accept(lt)
  \/ lthread_socket(lt) \/ lthread_pipe(lt) \/ lthread_connect(lt) \/ lthread_writev(lt)

UserStep(lt) == failed = "none" /\ User(lt) /\ UNCHANGED uses
SwitchStep(lt) == failed = "none" /\ Switched(lt) /\ UNCHANGED <<uses, callVars>>
PollerStep == failed = "none" /\ Poller /\ UNCHANGED <<uses, callVars>>
PeerStep == failed = "none" /\ Peer /\ UNCHANGED <<pollerVars, callVars>>
CloseStep == failed = "none" /\ lthread_poller_close /\ UNCHANGED <<uses, callVars>>

\* The program is over: lthread_run has joined the poller, or an assertion failed.
Over == (poller_pc = "done" \/ failed # "none") /\ UNCHANGED vars

Next ==
  \/ \E lt \in Lthreads : UserStep(lt) \/ SwitchStep(lt)
  \/ PollerStep \/ PeerStep \/ CloseStep \/ Over

\* The poller's thread and the scheduler that switches an lthread out run; nothing
\* is assumed of the peers or of what the lthreads call.
Fairness == (\A lt \in Lthreads : WF_vars(SwitchStep(lt))) /\ WF_vars(PollerStep)

Spec == Init /\ [][Next]_vars
FairSpec == Spec /\ Fairness

-----------------------------------------------------------------------------
(* Properties *)

TypeOK ==
  /\ KernelTypeOK /\ PollerTypeOK
  /\ fd \in [Lthreads -> Fds] /\ calls \in [Lthreads -> Nat]
  /\ \A lt \in Lthreads : ret[lt] \in Int

Idle(lt) == at[lt] \in {"idle", "done"}

\* A call that answers with a number of bytes answers with the number the kernel
\* has moved for it, however often it was interrupted; a receive or a send that
\* answers with none has moved none.  lthread_writev() answers so only when it has
\* written all of its buffers, and on the way what is left in them is what has not
\* been moved.  With one exception, where the code is not writev(2): when an empty
\* buffer is left after the last byte it answers 0, whatever it has moved.
BytesAccounted ==
  \A lt \in Lthreads :
    /\ op[lt] = "writev" /\ calls[lt] > 0 => moved[lt] + Bytes(iov[lt]) = want[lt]
    /\ Idle(lt) =>
         /\ op[lt] \in {"recv", "send"} => moved[lt] = IF ret[lt] > 0 THEN ret[lt] ELSE 0
         /\ op[lt] = "readline" /\ ret[lt] > 0 => ret[lt] = moved[lt]
         /\ op[lt] = "writev" /\ ret[lt] >= 0 =>
              /\ moved[lt] = want[lt]
              /\ ret[lt] = moved[lt] \/ (ret[lt] = 0 /\ iov[lt] # <<>>)

\* A call leaves no descriptor open that it does not hand to its caller, whichever
\* of its system calls fails.  With one exception: lthread_accept() takes a
\* descriptor 0 for a failure, tries again and leaves it open.
NoDescriptorLeak ==
  \A lt \in Lthreads : Idle(lt) =>
    LET open == IF op[lt] = "accept" THEN made[lt] \ {0} ELSE made[lt] IN
    CASE op[lt] \in {"accept", "socket"} /\ ret[lt] >= 0 -> open = {ret[lt]}
      [] op[lt] = "pipe" /\ ret[lt] = 0 -> open \in {{0, 1}, {1, 2}}
      [] OTHER -> open = {}

\* An lthread that waits for a descriptor the kernel calls ready is made ready
\* (unless an assertion stops the program).
ReadyIsResumed ==
  \A lt \in Lthreads :
    at[lt] \in Parked /\ Able(arg[lt][1], arg[lt][2]) ~> at[lt] \notin Parked \/ failed # "none"
=============================================================================
