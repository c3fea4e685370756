------------------------- MODULE LthreadSocketCalls -------------------------
(***************************************************************************)
(* What the functions of lthread_socket.c do to the bytes and descriptors  *)
(* of a call, for every size of buffers and however the kernel cuts a      *)
(* transfer.  The bytes of a sequence of buffers are sums, and the lemmas  *)
(* about them use induction: a set of numbers that has a member has a      *)
(* least one.                                                              *)
(***************************************************************************)
EXTENDS LthreadSocketInv, WellFoundedInduction, TLAPS

-----------------------------------------------------------------------------
(* Induction over data, and the bytes of a sequence of buffers *)

\* A set of natural numbers that is not empty has a least.
LEMMA LeastNat ==
  ASSUME NEW T \in SUBSET Nat, T # {}
  PROVE  \E x \in T : \A y \in T : x <= y
<1>1. IsWellFoundedOn(Below, Nat)
  BY NatLessThanWellFounded, Zenon DEF OpToRel, Below
<1>2. PICK x \in T : \A y \in T : ~ (<<y, x>> \in Below)
  BY <1>1, WFMin, Zenon
<1>3. ASSUME NEW y \in T PROVE x <= y
  <2>1. x \in Nat /\ y \in Nat /\ <<y, x>> \notin Below
    BY <1>2, Zenon
  <2> QED
    BY <2>1 DEF Below
<1> QED
  BY <1>3, Zenon

\* Induction, over the set of the numbers for which a fact holds.
LEMMA InductiveSet ==
  ASSUME NEW S, 0 \in S, \A i \in Nat : i \in S => i + 1 \in S
  PROVE  Nat \subseteq S
<1>1. SUFFICES ASSUME Nat \ S # {} PROVE FALSE
  BY Zenon
<1>2. PICK x \in Nat \ S : \A y \in Nat \ S : x <= y
  BY <1>1, LeastNat, Zenon
<1>3. x # 0 /\ x - 1 \in Nat /\ (x - 1) + 1 = x
  BY <1>2
<1>4. x - 1 \in S
  BY <1>2, <1>3
<1> QED
  BY <1>2, <1>3, <1>4, Zenon

\* The recursive definition of Upto() has a solution, built one buffer at a time.
LEMMA UptoExists ==
  ASSUME NEW lens \in Seq(Nat)
  PROVE  \E f : f = [i \in 0 .. Len(lens) |-> IF i = 0 THEN 0 ELSE f[i - 1] + lens[i]]
<1> DEFINE n == Len(lens)
           Sums(f, m) == f = [i \in 0 .. m |-> IF i = 0 THEN 0 ELSE f[i - 1] + lens[i]]
           S == {m \in Nat : m <= n => \E f : Sums(f, m)}
<1>0. n \in Nat
  OBVIOUS
<1>1. 0 \in S
  <2>1. Sums([i \in 0 .. 0 |-> 0], 0)
    OBVIOUS
  <2> QED
    BY <2>1, Zenon
<1>2. ASSUME NEW m \in Nat, m \in S PROVE m + 1 \in S
  <2>1. SUFFICES ASSUME m + 1 <= n PROVE \E f : Sums(f, m + 1)
    OBVIOUS
  <2>2. PICK f : Sums(f, m)
    BY <1>0, <1>2, <2>1
  <2> DEFINE g == [i \in 0 .. m + 1 |-> IF i = m + 1 THEN f[m] + lens[m + 1] ELSE f[i]]
  <2>3. ASSUME NEW i \in 0 .. m + 1
        PROVE  g[i] = IF i = 0 THEN 0 ELSE g[i - 1] + lens[i]
    <3>1. CASE i = m + 1
      BY <3>1
    <3>2. CASE i # m + 1
      <4>1. i \in 0 .. m /\ g[i] = f[i]
        BY <3>2
      <4>2. f[i] = IF i = 0 THEN 0 ELSE f[i - 1] + lens[i]
        BY <2>2, <4>1, Zenon
      <4>3. i # 0 => i - 1 \in 0 .. m + 1 /\ g[i - 1] = f[i - 1]
        BY <3>2
      <4> QED
        BY <4>1, <4>2, <4>3, Zenon
    <3> QED
      BY <3>1, <3>2, Zenon
  <2>4. Sums(g, m + 1)
    BY <2>3, Zenon
  <2> QED
    BY <2>4, Zenon
<1>3. Nat \subseteq S
  BY <1>1, <1>2, InductiveSet, Zenon
<1> QED
  BY <1>0, <1>3

\* Upto(lens) is what its definition says, and natural.
LEMMA UptoDef ==
  ASSUME NEW lens \in Seq(Nat)
  PROVE  /\ Upto(lens)[0] = 0
         /\ \A i \in 1 .. Len(lens) : Upto(lens)[i] = Upto(lens)[i - 1] + lens[i]
         /\ \A i \in 0 .. Len(lens) : Upto(lens)[i] \in Nat
<1> DEFINE n == Len(lens)
           u == Upto(lens)
           S == {m \in Nat : m <= n => u[m] \in Nat}
<1>0. n \in Nat
  OBVIOUS
<1>1. u = [i \in 0 .. n |-> IF i = 0 THEN 0 ELSE u[i - 1] + lens[i]]
  BY UptoExists, Zenon DEF Upto
<1> HIDE DEF u
<1>2. u[0] = 0 /\ \A i \in 1 .. n : u[i] = u[i - 1] + lens[i]
  BY <1>0, <1>1
<1>3. 0 \in S
  BY <1>2
<1>4. ASSUME NEW m \in Nat, m \in S PROVE m + 1 \in S
  <2>1. SUFFICES ASSUME m + 1 <= n PROVE u[m + 1] \in Nat
    OBVIOUS
  <2>2. u[m] \in Nat /\ lens[m + 1] \in Nat /\ u[m + 1] = u[m] + lens[m + 1]
    BY <1>0, <1>2, <1>4, <2>1
  <2> QED
    BY <2>2
<1>5. Nat \subseteq S
  BY <1>3, <1>4, InductiveSet, Zenon
<1> QED
  BY <1>0, <1>2, <1>5 DEF u

\* A buffer in front adds its length.
LEMMA BytesOfCons ==
  ASSUME NEW lens \in Seq(Nat), NEW b \in Nat
  PROVE  /\ <<b>> \o lens \in Seq(Nat)
         /\ Bytes(<<b>> \o lens) = b + Bytes(lens)
<1> DEFINE more == <<b>> \o lens
           n == Len(lens)
           S == {m \in Nat : m <= n => Upto(more)[m + 1] = b + Upto(lens)[m]}
<1>1. more \in Seq(Nat) /\ Len(more) = n + 1 /\ n \in Nat
  OBVIOUS
<1>2. more[1] = b /\ \A i \in 1 .. n : more[i + 1] = lens[i]
  OBVIOUS
<1> HIDE DEF more
<1>3. Upto(more)[0] = 0 /\ \A i \in 1 .. n + 1 : Upto(more)[i] = Upto(more)[i - 1] + more[i]
  BY <1>1, UptoDef, Zenon
<1>4. /\ Upto(lens)[0] = 0
      /\ \A i \in 1 .. n : Upto(lens)[i] = Upto(lens)[i - 1] + lens[i]
      /\ \A i \in 0 .. n : Upto(lens)[i] \in Nat
  BY UptoDef, Zenon
<1>5. 0 \in S
  <2>1. 1 \in 1 .. n + 1 /\ 1 - 1 = 0
    BY <1>1
  <2>2. Upto(more)[1] = Upto(more)[0] + more[1]
    BY <1>3, <2>1, Zenon
  <2> QED
    BY <1>2, <1>3, <1>4, <2>2
<1>6. ASSUME NEW m \in Nat, m \in S PROVE m + 1 \in S
  <2>1. SUFFICES ASSUME m + 1 <= n
                 PROVE  Upto(more)[(m + 1) + 1] = b + Upto(lens)[m + 1]
    OBVIOUS
  <2>2. /\ (m + 1) + 1 \in 1 .. n + 1 /\ ((m + 1) + 1) - 1 = m + 1
        /\ m + 1 \in 1 .. n /\ (m + 1) - 1 = m /\ m \in 0 .. n
    BY <1>1, <2>1
  <2>3. Upto(more)[(m + 1) + 1] = Upto(more)[m + 1] + more[(m + 1) + 1]
    BY <1>3, <2>2, Zenon
  <2>4. Upto(lens)[m + 1] = Upto(lens)[m] + lens[m + 1] /\ more[(m + 1) + 1] = lens[m + 1]
    BY <1>2, <1>4, <2>2, Zenon
  <2>5. Upto(more)[m + 1] = b + Upto(lens)[m]
    BY <1>1, <1>6, <2>2
  <2>6. Upto(lens)[m] \in Nat /\ lens[m + 1] \in Nat
    BY <1>4, <2>2
  <2> QED
    BY <2>3, <2>4, <2>5, <2>6
<1>7. Nat \subseteq S
  BY <1>5, <1>6, InductiveSet, Zenon
<1>8. Upto(more)[n + 1] = b + Upto(lens)[n]
  BY <1>1, <1>7
<1> QED
  BY <1>1, <1>8, Zenon DEF Bytes, more

\* What is left from a buffer on is all but what comes before it.
LEMMA BytesOfRest ==
  ASSUME NEW lens \in Seq(Nat), NEW k \in 0 .. Len(lens)
  PROVE  /\ SubSeq(lens, k + 1, Len(lens)) \in Seq(Nat)
         /\ Bytes(SubSeq(lens, k + 1, Len(lens))) = Bytes(lens) - Upto(lens)[k]
<1> DEFINE n == Len(lens)
           less == SubSeq(lens, k + 1, n)
           S == {m \in Nat : m <= n - k => Upto(less)[m] = Upto(lens)[k + m] - Upto(lens)[k]}
<1>1. n \in Nat /\ k \in Nat /\ k <= n /\ n - k \in Nat
  OBVIOUS
<1>2. /\ less \in Seq(Nat) /\ Len(less) = n - k
      /\ \A i \in 1 .. n - k : less[i] = lens[k + i]
  <2>1. less \in Seq(Nat)
    OBVIOUS
  <2>2. Len(less) = n - k
    BY <1>1
  <2>3. ASSUME NEW i \in 1 .. n - k PROVE less[i] = lens[k + i]
    BY <1>1
  <2> QED
    BY <2>1, <2>2, <2>3, Zenon
<1> HIDE DEF less
<1>3. Upto(less)[0] = 0 /\ \A i \in 1 .. n - k : Upto(less)[i] = Upto(less)[i - 1] + less[i]
  BY <1>2, UptoDef, Zenon
<1>4. /\ Upto(lens)[0] = 0
      /\ \A i \in 1 .. n : Upto(lens)[i] = Upto(lens)[i - 1] + lens[i]
      /\ \A i \in 0 .. n : Upto(lens)[i] \in Nat
  BY UptoDef, Zenon
<1>5. 0 \in S
  <2>1. Upto(lens)[k] \in Nat /\ k + 0 = k
    BY <1>1, <1>4
  <2> QED
    BY <1>3, <2>1
<1>6. ASSUME NEW m \in Nat, m \in S PROVE m + 1 \in S
  <2>1. SUFFICES ASSUME m + 1 <= n - k
                 PROVE  Upto(less)[m + 1] = Upto(lens)[k + (m + 1)] - Upto(lens)[k]
    OBVIOUS
  <2>2. /\ m + 1 \in 1 .. n - k /\ (m + 1) - 1 = m
        /\ k + (m + 1) \in 1 .. n /\ (k + (m + 1)) - 1 = k + m
        /\ k + m \in 0 .. n /\ k \in 0 .. n
    BY <1>1, <2>1
  <2>3. Upto(less)[m + 1] = Upto(less)[m] + less[m + 1]
    BY <1>3, <2>2, Zenon
  <2>4. Upto(lens)[k + (m + 1)] = Upto(lens)[k + m] + lens[k + (m + 1)]
    BY <1>4, <2>2, Zenon
  <2>5. Upto(less)[m] = Upto(lens)[k + m] - Upto(lens)[k]
    BY <1>1, <1>6, <2>1
  <2>6. less[m + 1] = lens[k + (m + 1)]
    BY <1>2, <2>2, Zenon
  <2>7. Upto(lens)[k + m] \in Nat /\ Upto(lens)[k] \in Nat /\ lens[k + (m + 1)] \in Nat
    BY <1>4, <2>2
  <2> QED
    BY <2>3, <2>4, <2>5, <2>6, <2>7
<1>7. Nat \subseteq S
  BY <1>5, <1>6, InductiveSet, Zenon
<1>8. Upto(less)[n - k] = Upto(lens)[k + (n - k)] - Upto(lens)[k] /\ k + (n - k) = n
  BY <1>1, <1>7
<1> QED
  BY <1>2, <1>8, Zenon DEF Bytes, less

\* lthread_writev() keeps exactly the bytes that the kernel has not taken.
LEMMA SkipBytes ==
  ASSUME NEW lens \in Seq(Nat), NEW n \in Nat, n <= Bytes(lens)
  PROVE  /\ Skip(lens, n) \in Seq(Nat)
         /\ Bytes(Skip(lens, n)) = Bytes(lens) - n
<1> DEFINE Enough == {j \in 0 .. Len(lens) : Upto(lens)[j] >= n}
           i == Min(Enough)
           left == SubSeq(lens, i + 1, Len(lens))
<1>1. Len(lens) \in Enough /\ Enough \subseteq Nat
  BY DEF Bytes
<1>2. \E x \in Enough : \A y \in Enough : x <= y
  BY <1>1, LeastNat, Zenon
<1>3. i \in Enough
  BY <1>2, Zenon DEF Min
<1>4. i \in 0 .. Len(lens) /\ Upto(lens)[i] >= n
  BY <1>3, Zenon
<1> HIDE DEF i
<1>5. Upto(lens)[i] \in Nat /\ Bytes(lens) \in Nat
  BY <1>4, UptoDef DEF Bytes
<1>6. left \in Seq(Nat) /\ Bytes(left) = Bytes(lens) - Upto(lens)[i]
  BY <1>4, BytesOfRest, Zenon
<1> HIDE DEF left
<1>7. Skip(lens, n) = IF Upto(lens)[i] = n THEN left ELSE <<Upto(lens)[i] - n>> \o left
  BY Zenon DEF Skip, i, left
<1>8. CASE Upto(lens)[i] = n
  BY <1>6, <1>7, <1>8, Zenon
<1>9. CASE Upto(lens)[i] # n
  <2>1. Upto(lens)[i] - n \in Nat
    BY <1>4, <1>5
  <2>2. /\ <<Upto(lens)[i] - n>> \o left \in Seq(Nat)
        /\ Bytes(<<Upto(lens)[i] - n>> \o left) = (Upto(lens)[i] - n) + Bytes(left)
    BY <1>6, <2>1, BytesOfCons, Zenon
  <2> QED
    BY <1>5, <1>6, <1>7, <1>9, <2>2
<1> QED
  BY <1>8, <1>9, Zenon

\* No buffers hold no bytes; any buffers hold a natural number of them.
LEMMA NoBytes == Bytes(<<>>) = 0 /\ \A lens \in Seq(Nat) : Bytes(lens) \in Nat
<1>1. <<>> \in Seq(Nat) /\ Len(<<>>) = 0
  OBVIOUS
<1>2. \A lens \in Seq(Nat) : Len(lens) \in 0 .. Len(lens)
  OBVIOUS
<1> QED
  BY <1>1, <1>2, UptoDef, Zenon DEF Bytes

-----------------------------------------------------------------------------
(* What a step of an lthread outside the poller does, whatever it calls *)

\* The steps of recv (LTHREAD_RECV) end the call or wait to read.
LEMMA RecvActs ==
  ASSUME NEW lt \in Lthreads, lthread_recv(lt) PROVE Acts(lt)
<1>1. at[lt] = "user" /\ op[lt] = "recv" /\ UNCHANGED <<state, asked>> /\ Quiet
  BY Zenon DEF lthread_recv, Calling
<1>2. CASE \E n \in 1 .. Capacity[fd[lt]] : Received(lt, n) /\ Return(lt, n)
  BY <1>1, <1>2 DEF Acts, Received, Taken
<1>3. CASE NothingToReceive(lt, EAGAIN) /\ WaitFd(lt, "READ") /\ UNCHANGED sockVars
  BY <1>1, <1>3, Zenon DEF Acts, Waits, sockVars
<1>4. CASE (\E r \in {0, -1} : Return(lt, r)) /\ UNCHANGED sockVars
  BY <1>1, <1>4 DEF Acts, sockVars
<1> QED
  BY <1>2, <1>3, <1>4, Zenon DEF lthread_recv

\* The steps of send (LTHREAD_SEND) end the call or wait to write.
LEMMA SendActs ==
  ASSUME NEW lt \in Lthreads, lthread_send(lt) PROVE Acts(lt)
<1>1. at[lt] = "user" /\ op[lt] = "send" /\ UNCHANGED <<state, asked>> /\ Quiet
  BY Zenon DEF lthread_send, Calling
<1>2. CASE \E n \in 1 .. Capacity[fd[lt]] : Sent(lt, n, n) /\ Return(lt, n)
  BY <1>1, <1>2 DEF Acts, Sent
<1>3. CASE WaitFd(lt, "WRITE") /\ UNCHANGED sockVars
  BY <1>1, <1>3, Zenon DEF Acts, Waits, sockVars
<1>4. CASE Return(lt, -1) /\ UNCHANGED sockVars
  BY <1>1, <1>4 DEF Acts, sockVars
<1> QED
  BY <1>2, <1>3, <1>4, Zenon DEF lthread_send

\* The steps of lthread_readline end the call, go on, or wait to read.
LEMMA ReadlineActs ==
  ASSUME NEW lt \in Lthreads, total \in [Lthreads -> Nat], lthread_readline(lt) PROVE Acts(lt)
<1>1. at[lt] = "user" /\ op[lt] = "readline" /\ UNCHANGED <<state, asked>> /\ Quiet
  BY Zenon DEF lthread_readline, Calling
<1>2. CASE Received(lt, 1) /\ Return(lt, total[lt] + 1)
  BY <1>1, <1>2 DEF Acts, Received, Taken
<1>3. CASE Received(lt, 1) /\ Again
  BY <1>1, <1>3, Zenon DEF Acts, Received, Taken
<1>4. CASE WaitFd(lt, "READ") /\ UNCHANGED sockVars
  BY <1>1, <1>4, Zenon DEF Acts, Waits, sockVars
<1>5. CASE (\E r \in {0, -1} : Return(lt, r)) /\ UNCHANGED sockVars
  BY <1>1, <1>5 DEF Acts, sockVars
<1> QED
  BY <1>2, <1>3, <1>4, <1>5, Zenon DEF lthread_readline

\* The steps of lthread_accept end the call, go on, or wait to read.
LEMMA AcceptActs ==
  ASSUME NEW lt \in Lthreads, lthread_accept(lt) PROVE Acts(lt)
<1>1. at[lt] = "user" /\ op[lt] = "accept" /\ UNCHANGED <<state, asked>> /\ Quiet
  BY Zenon DEF lthread_accept, Calling
<1>2. CASE Taken(lt, 1) /\ Again
  BY <1>1, <1>2, Zenon DEF Acts, Taken
<1>3. CASE WaitFd(lt, "READ") /\ UNCHANGED sockVars
  BY <1>1, <1>3, Zenon DEF Acts, Waits, sockVars
<1>4. CASE (Return(lt, -1) \/ Return(lt, 1)) /\ UNCHANGED sockVars
  BY <1>1, <1>4 DEF Acts, sockVars
<1> QED
  BY <1>2, <1>3, <1>4, Zenon DEF lthread_accept

\* The steps of lthread_socket and lthread_pipe end the call or go on.
LEMMA MakeActs ==
  ASSUME NEW lt \in Lthreads, made \in [Lthreads -> SUBSET Nat],
         lthread_socket(lt) \/ lthread_pipe(lt)
  PROVE  Acts(lt)
<1>1. ASSUME NEW o, NEW n, Make(lt, o, n) PROVE Acts(lt)
  <2>1. at[lt] = "user" /\ UNCHANGED <<state, asked, sockVars>> /\ Quiet
    BY <1>1, Zenon DEF Make, Calling
  <2>2. Return(lt, -1) \/ Return(lt, 0) \/ (\E r \in made[lt] : Return(lt, r)) \/ Again
    BY <1>1, Zenon DEF Make
  <2>3. -1 \in Int /\ 0 \in Int /\ made[lt] \subseteq Int
    OBVIOUS
  <2> QED
    BY <2>1, <2>2, <2>3, Zenon DEF Acts, sockVars
<1> QED
  BY <1>1, Zenon DEF lthread_socket, lthread_pipe

\* The steps of lthread_connect end the call or wait to write.
LEMMA ConnectActs ==
  ASSUME NEW lt \in Lthreads, lthread_connect(lt) PROVE Acts(lt)
<1>1. at[lt] = "user" /\ op[lt] = "connect" /\ UNCHANGED <<state, hup, asked>> /\ Quiet
  BY Zenon DEF lthread_connect, Calling
<1>2. Return(lt, 0) \/ Return(lt, -1) \/ WaitFd(lt, "WRITE")
  BY Zenon DEF lthread_connect
<1> QED
  BY <1>1, <1>2 DEF Acts, Waits

\* The steps of lthread_writev end the call, go on, or wait to write.
LEMMA WritevActs ==
  ASSUME NEW lt \in Lthreads, total \in [Lthreads -> Nat], lthread_writev(lt) PROVE Acts(lt)
<1>1. at[lt] = "user" /\ op[lt] = "writev" /\ UNCHANGED <<state, asked>> /\ Quiet
  BY Zenon DEF lthread_writev, Calling
<1>2. CASE \E n \in 1 .. Capacity[fd[lt]] :
             /\ Sent(lt, n, Bytes(iov[lt]))
             /\ total' = [total EXCEPT ![lt] = @ + n]
             /\ IF iov'[lt] = <<>> THEN Return(lt, total'[lt]) ELSE Again
  <2>1. PICK n \in 1 .. Capacity[fd[lt]] :
             /\ Sent(lt, n, Bytes(iov[lt]))
             /\ total' = [total EXCEPT ![lt] = @ + n]
             /\ IF iov'[lt] = <<>> THEN Return(lt, total'[lt]) ELSE Again
    BY <1>2, Zenon
  <2>2. total'[lt] \in Int /\ hup' = hup
    BY <2>1 DEF Sent
  <2>3. Return(lt, total'[lt]) \/ Again
    BY <2>1, Zenon
  <2> QED
    BY <1>1, <2>2, <2>3, Zenon DEF Acts
<1>3. CASE WaitFd(lt, "WRITE") /\ UNCHANGED sockVars
  BY <1>1, <1>3, Zenon DEF Acts, Waits, sockVars
<1>4. CASE (Return(lt, 0) \/ Return(lt, -1)) /\ UNCHANGED sockVars
  BY <1>1, <1>4 DEF Acts, sockVars
<1> QED
  BY <1>2, <1>3, <1>4, Zenon DEF lthread_writev

\* So do the steps of every function.
LEMMA ActingActs ==
  ASSUME NEW lt \in Lthreads, total \in [Lthreads -> Nat], made \in [Lthreads -> SUBSET Nat],
         Acting(lt)
  PROVE  Acts(lt)
BY RecvActs, SendActs, ReadlineActs, AcceptActs, MakeActs, ConnectActs, WritevActs, Zenon
   DEF Acting

-----------------------------------------------------------------------------
(* The bytes and descriptors of a call *)

\* A step of one lthread says nothing new of the calls of another.
LEMMA Others ==
  ASSUME NEW lt \in Lthreads, Kept(lt), NEW x \in Lthreads \ {lt}, CallOK(x)
  PROVE  CallOK(x)'
<1>1. Idle(x)' <=> Idle(x)
  BY Zenon DEF Kept, Idle
<1>2. Handover(x)' = Handover(x)
  BY Zenon DEF Kept, Handover
<1>3. CountOK(x)'
  BY <1>1, Zenon DEF Kept, CallOK, CountOK, Tallied
<1>4. MadeOK(x)'
  BY <1>1, <1>2, Zenon DEF Kept, CallOK, MadeOK, Open
<1> QED
  BY <1>3, <1>4, Zenon DEF CallOK

\* A function that makes no descriptors has none to hand over.
LEMMA NothingMade ==
  ASSUME NEW lt \in Lthreads, op[lt] \notin {"accept", "socket", "pipe"}, op' = op,
         made[lt] = {}, made'[lt] = made[lt]
  PROVE  MadeOK(lt)'
BY Zenon DEF MadeOK, Open, Handover

\* A function that moves no bytes has none to count.
LEMMA NothingCounted ==
  ASSUME NEW lt \in Lthreads, op[lt] \in {"accept", "socket", "pipe", "connect"}, op' = op
  PROVE  CountOK(lt)'
BY Zenon DEF CountOK, Tallied

\* The descriptors that the kernel gives.
LEMMA FreshNew == Fresh(1) \in New("socket") /\ Fresh(2) \in New("pipe")
<1>1. 0 .. 1 - 1 = {0} /\ 1 .. 1 = {1} /\ 0 .. 2 - 1 = {0, 1} /\ 1 .. 2 = {1, 2}
  OBVIOUS
<1> QED
  BY <1>1, Zenon DEF Fresh, New

\* The answer of a step that returns, waits or goes round again.
LEMMA Outcome ==
  ASSUME NEW lt \in Lthreads, Acts(lt), NEW S, at \in [Lthreads -> S], ret \in [Lthreads -> Int]
  PROVE  /\ ret' \in [Lthreads -> Int]
         /\ \/ at'[lt] = "idle" /\ Return(lt, ret'[lt])
            \/ at'[lt] = "wait" /\ ret'[lt] = ret[lt]
            \/ at'[lt] = "user" /\ ret'[lt] = ret[lt]
         /\ \A x \in Lthreads \ {lt} : at'[x] = at[x] /\ ret'[x] = ret[x]
         /\ Idle(lt)' <=> at'[lt] = "idle"
<1>1. CASE \E r \in Int : Return(lt, r)
  BY <1>1, Zenon DEF Return, Idle
<1>2. CASE WaitFd(lt, Waits(op[lt]))
  BY <1>2, Zenon DEF WaitFd, Idle
<1>3. CASE Again
  BY <1>3, Zenon DEF Again, Idle, Acts
<1> QED
  BY <1>1, <1>2, <1>3, Zenon DEF Acts

\* What the steps of all functions have in common: the types of the calls, and that the
\* calls of other lthreads stay as they are.
LEMMA CommonStep ==
  ASSUME NEW lt \in Lthreads, Before(lt), Acts(lt),
         iov' \in [Lthreads -> Seq(Nat)], moved' \in [Lthreads -> Nat],
         total' \in [Lthreads -> Nat], made' \in [Lthreads -> SUBSET Nat],
         \A x \in Lthreads \ {lt} :
           /\ iov'[x] = iov[x] /\ moved'[x] = moved[x]
           /\ total'[x] = total[x] /\ made'[x] = made[x]
  PROVE  CallTypes' /\ Kept(lt)
<1>1. PICK S : at \in [Lthreads -> S]
  BY Zenon DEF Before, Placed
<1>2. ret \in [Lthreads -> Int]
  BY Zenon DEF Before, CallTypes
<1>3. /\ ret' \in [Lthreads -> Int]
      /\ \A x \in Lthreads \ {lt} : at'[x] = at[x] /\ ret'[x] = ret[x]
  BY <1>1, <1>2, Outcome, Zenon
<1>4. program' = program /\ op' = op /\ fd' = fd /\ calls' = calls /\ want' = want
  BY Zenon DEF Acts, asked
<1>5. CallTypes'
  BY <1>3, <1>4, Zenon DEF Before, CallTypes
<1> QED
  BY <1>3, <1>4, <1>5, Zenon DEF Kept

\* Receiving n bytes counts n bytes as moved for this call, and for no other.
LEMMA ReceivedData ==
  ASSUME NEW lt \in Lthreads, SockTypes, CallTypes, NEW n \in Nat, Received(lt, n)
  PROVE  /\ SockTypes'
         /\ moved' \in [Lthreads -> Nat] /\ moved'[lt] = moved[lt] + n
         /\ \A x \in Lthreads \ {lt} : moved'[x] = moved[x]
<1>1. n \in 1 .. recvq[fd[lt]] /\ fd[lt] \in Fds /\ recvq' = [recvq EXCEPT ![fd[lt]] = @ - n]
  BY Zenon DEF Received, Taken, CallTypes
<1>2. recvq' \in [Fds -> Nat]
  BY <1>1 DEF SockTypes
<1>3. SockTypes'
  BY <1>2, Zenon DEF SockTypes, Received, Taken
<1> QED
  BY <1>3 DEF Received, CallTypes

\* Sending n bytes counts n bytes as moved for this call, and for no other.
LEMMA SentData ==
  ASSUME NEW lt \in Lthreads, SockTypes, CallTypes, NEW n \in Nat, NEW most, Sent(lt, n, most)
  PROVE  /\ SockTypes'
         /\ moved' \in [Lthreads -> Nat] /\ moved'[lt] = moved[lt] + n
         /\ \A x \in Lthreads \ {lt} : moved'[x] = moved[x]
<1>1. n \in 1 .. room[fd[lt]] /\ fd[lt] \in Fds /\ room' = [room EXCEPT ![fd[lt]] = @ - n]
  BY Zenon DEF Sent, CallTypes
<1>2. room' \in [Fds -> Nat]
  BY <1>1 DEF SockTypes
<1>3. SockTypes'
  BY <1>2, Zenon DEF SockTypes, Sent
<1> QED
  BY <1>3 DEF Sent, CallTypes

\* Sockets that do not change keep their types.
LEMMA SockSame ==
  ASSUME SockTypes, UNCHANGED sockVars PROVE SockTypes'
BY Zenon DEF SockTypes, sockVars

\* recv and send: the one system call that moves bytes ends the call.
LEMMA RecvSendData ==
  ASSUME NEW lt \in Lthreads, Before(lt), lthread_recv(lt) \/ lthread_send(lt)
  PROVE  Data(lt)
<1>1. Acts(lt)
  BY RecvActs, SendActs, Zenon
<1>2. /\ SockTypes /\ CallTypes /\ CallOK(lt) /\ ~Idle(lt)
      /\ \E S : at \in [Lthreads -> S]
  BY Zenon DEF Before, Placed
<1>3. op[lt] \in {"recv", "send"} /\ iov' = iov /\ total' = total /\ made' = made /\ op' = op
  BY Zenon DEF lthread_recv, lthread_send, Calling, asked, fdVars
<1>4. moved[lt] = 0 /\ made[lt] = {}
  BY <1>2, <1>3, Zenon DEF CallOK, CountOK, MadeOK
<1>5. \/ \E n \in Nat : Return(lt, n) /\ (Received(lt, n) \/ Sent(lt, n, n))
      \/ /\ moved' = moved /\ UNCHANGED sockVars
         /\ \/ \E r \in {0, -1} : Return(lt, r)
            \/ \E e \in Dirs : WaitFd(lt, e)
  <2>1. CASE lthread_recv(lt)
    <3>1. \A n : Received(lt, n) => n \in Nat
      BY <1>2 DEF Received, Taken, SockTypes, CallTypes
    <3> QED
      BY <2>1, <3>1, Zenon DEF lthread_recv, Dirs
  <2>2. CASE lthread_send(lt)
    <3>1. \A n : Sent(lt, n, n) => n \in Nat
      BY <1>2 DEF Sent, SockTypes, CallTypes
    <3> QED
      BY <2>2, <3>1, Zenon DEF lthread_send, Dirs
  <2> QED
    BY <2>1, <2>2, Zenon
<1>6. /\ SockTypes' /\ moved' \in [Lthreads -> Nat]
      /\ \A x \in Lthreads \ {lt} : moved'[x] = moved[x]
  BY <1>2, <1>5, ReceivedData, SentData, SockSame, Zenon DEF CallTypes
<1>7. CallTypes' /\ Kept(lt)
  BY <1>1, <1>2, <1>3, <1>6, CommonStep, Zenon DEF CallTypes
<1>8. CountOK(lt)'
  <2>1. ASSUME NEW n \in Nat, Return(lt, n), Received(lt, n) \/ Sent(lt, n, n)
        PROVE  CountOK(lt)'
    <3>1. moved'[lt] = n
      BY <1>2, <1>4, <2>1, ReceivedData, SentData
    <3>2. at'[lt] = "idle" /\ ret'[lt] = n
      BY <1>2, <2>1, Zenon DEF Return, CallTypes
    <3>3. moved'[lt] = IF ret'[lt] > 0 THEN ret'[lt] ELSE 0
      BY <3>1, <3>2
    <3> QED
      BY <1>3, <3>2, <3>3, Zenon DEF CountOK, Tallied, Idle
  <2>2. ASSUME NEW r \in {0, -1}, Return(lt, r), moved' = moved
        PROVE  CountOK(lt)'
    <3>1. at'[lt] = "idle" /\ ret'[lt] = r
      BY <1>2, <2>2, Zenon DEF Return, CallTypes
    <3>2. moved'[lt] = IF ret'[lt] > 0 THEN ret'[lt] ELSE 0
      BY <1>4, <2>2, <3>1
    <3> QED
      BY <1>3, <3>1, <3>2, Zenon DEF CountOK, Tallied, Idle
  <2>3. ASSUME NEW e \in Dirs, WaitFd(lt, e), moved' = moved
        PROVE  CountOK(lt)'
    <3>1. at'[lt] = "wait"
      BY <1>2, <2>3, Zenon DEF WaitFd
    <3> QED
      BY <1>3, <1>4, <2>3, <3>1, Zenon DEF CountOK, Idle
  <2> QED
    BY <1>5, <2>1, <2>2, <2>3, Zenon
<1>9. MadeOK(lt)'
  BY <1>3, <1>4, NothingMade, Zenon
<1> QED
  BY <1>6, <1>7, <1>8, <1>9, Zenon DEF Data, CallOK

\* readline counts each byte that it has received.
LEMMA ReadlineData ==
  ASSUME NEW lt \in Lthreads, Before(lt), lthread_readline(lt)
  PROVE  Data(lt)
<1>1. /\ SockTypes /\ CallTypes /\ CallOK(lt) /\ ~Idle(lt)
      /\ \E S : at \in [Lthreads -> S]
  BY Zenon DEF Before, Placed
<1>2. Acts(lt)
  BY <1>1, ReadlineActs, Zenon DEF CallTypes
<1>3. op[lt] = "readline" /\ iov' = iov /\ made' = made /\ op' = op
  BY Zenon DEF lthread_readline, Calling, asked, fdVars
<1>4. total[lt] = moved[lt] /\ made[lt] = {} /\ moved[lt] \in Nat
  BY <1>1, <1>3, Zenon DEF CallOK, CountOK, MadeOK, CallTypes
<1>5. \/ /\ Received(lt, 1) /\ total' = [total EXCEPT ![lt] = @ + 1]
         /\ Return(lt, total[lt] + 1) \/ Again
      \/ /\ moved' = moved /\ total' = total /\ UNCHANGED sockVars
         /\ WaitFd(lt, "READ") \/ \E r \in {0, -1} : Return(lt, r)
  BY Zenon DEF lthread_readline
<1>6. /\ SockTypes' /\ moved' \in [Lthreads -> Nat] /\ total' \in [Lthreads -> Nat]
      /\ \A x \in Lthreads \ {lt} : moved'[x] = moved[x] /\ total'[x] = total[x]
  <2>1. CASE Received(lt, 1) /\ total' = [total EXCEPT ![lt] = @ + 1]
    <3>1. total \in [Lthreads -> Nat]
      BY <1>1, Zenon DEF CallTypes
    <3>2. /\ total' \in [Lthreads -> Nat]
          /\ \A x \in Lthreads \ {lt} : total'[x] = total[x]
      BY <2>1, <3>1
    <3> QED
      BY <1>1, <2>1, <3>2, ReceivedData, Zenon
  <2>2. CASE moved' = moved /\ total' = total /\ UNCHANGED sockVars
    BY <1>1, <2>2, SockSame, Zenon DEF CallTypes
  <2> QED
    BY <1>5, <2>1, <2>2, Zenon
<1>7. CallTypes' /\ Kept(lt)
  BY <1>1, <1>2, <1>3, <1>6, CommonStep, Zenon DEF CallTypes
<1>8. CountOK(lt)'
  <2>1. CASE /\ Received(lt, 1) /\ total' = [total EXCEPT ![lt] = @ + 1]
             /\ Return(lt, total[lt] + 1) \/ Again
    <3>1. moved'[lt] = moved[lt] + 1 /\ total'[lt] = moved[lt] + 1
      BY <1>1, <1>4, <2>1, ReceivedData, Zenon DEF CallTypes
    <3>2. Return(lt, total[lt] + 1) => at'[lt] = "idle" /\ ret'[lt] = moved[lt] + 1
      BY <1>1, <1>4, Zenon DEF Return, CallTypes
    <3>3. Again => at'[lt] = "user"
      BY <1>2, Zenon DEF Again, Acts
    <3> QED
      BY <1>3, <2>1, <3>1, <3>2, <3>3, Zenon DEF CountOK, Tallied, Idle
  <2>2. CASE WaitFd(lt, "READ") /\ moved' = moved /\ total' = total
    <3>1. at'[lt] = "wait"
      BY <1>1, <2>2, Zenon DEF WaitFd
    <3> QED
      BY <1>3, <1>4, <2>2, <3>1, Zenon DEF CountOK, Idle
  <2>3. ASSUME NEW r \in {0, -1}, Return(lt, r), moved' = moved, total' = total
        PROVE  CountOK(lt)'
    <3>1. at'[lt] = "idle" /\ ~(ret'[lt] > 0)
      BY <1>1, <2>3 DEF Return, CallTypes
    <3> QED
      BY <1>3, <3>1, Zenon DEF CountOK, Tallied, Idle
  <2> QED
    BY <1>5, <2>1, <2>2, <2>3, Zenon
<1>9. MadeOK(lt)'
  BY <1>3, <1>4, NothingMade, Zenon
<1> QED
  BY <1>6, <1>7, <1>8, <1>9, Zenon DEF Data, CallOK

\* accept closes a descriptor above 0 that it cannot set up, and returns it if it can.
LEMMA AcceptData ==
  ASSUME NEW lt \in Lthreads, Before(lt), lthread_accept(lt)
  PROVE  Data(lt)
<1>1. /\ SockTypes /\ CallTypes /\ CallOK(lt) /\ ~Idle(lt)
      /\ \E S : at \in [Lthreads -> S]
  BY Zenon DEF Before, Placed
<1>2. Acts(lt)
  BY AcceptActs, Zenon
<1>3. op[lt] = "accept" /\ iov' = iov /\ total' = total /\ op' = op
  BY Zenon DEF lthread_accept, Calling, asked
<1>4. \/ /\ Taken(lt, 1) /\ Again /\ moved' = moved
         /\ made' = [made EXCEPT ![lt] = @ \cup Fresh(1)] \/ made' = made
      \/ /\ WaitFd(lt, "READ") /\ made' = made /\ moved' = moved /\ UNCHANGED sockVars
      \/ /\ Return(lt, -1) /\ 1 \notin made[lt] /\ made' = made
         /\ moved' = moved /\ UNCHANGED sockVars
      \/ /\ Return(lt, 1) /\ 1 \in made[lt] /\ made' = made
         /\ moved' = moved /\ UNCHANGED sockVars
      \/ /\ Return(lt, -1) /\ made' = [made EXCEPT ![lt] = @ \ {1}]
         /\ moved' = moved /\ UNCHANGED sockVars
  BY Zenon DEF lthread_accept, fdVars
<1>0. made[lt] \subseteq {0, 1} /\ Fresh(1) \subseteq {0, 1} /\ {0, 1} \subseteq Nat
  <2>1. Fresh(1) \in {{0}, {1}}
    BY FreshNew, Zenon DEF New
  <2>2. {0, 1} \subseteq Nat
    OBVIOUS
  <2> QED
    BY <1>1, <1>3, <2>1, <2>2, Zenon DEF CallOK, MadeOK
<1>5. /\ moved' = moved /\ made' \in [Lthreads -> SUBSET Nat]
      /\ \A x \in Lthreads \ {lt} : made'[x] = made[x]
  <2>1. made \in [Lthreads -> SUBSET Nat]
    BY <1>1, Zenon DEF CallTypes
  <2>2. /\ moved' = moved
        /\ made' = made \/ \E k \in SUBSET Nat : made' = [made EXCEPT ![lt] = k]
    BY <1>4, <1>0, <2>1, Zenon
  <2> QED
    BY <2>1, <2>2, Zenon
<1>6. SockTypes'
  <2>1. CASE UNCHANGED sockVars
    BY <1>1, <2>1, SockSame, Zenon
  <2>2. CASE Taken(lt, 1)
    <3>1. 1 <= recvq[fd[lt]] /\ fd[lt] \in Fds /\ recvq' = [recvq EXCEPT ![fd[lt]] = @ - 1]
      BY <1>1, <2>2 DEF Taken, CallTypes, SockTypes
    <3>2. recvq' \in [Fds -> Nat]
      BY <1>1, <3>1 DEF SockTypes
    <3> QED
      BY <1>1, <2>2, <3>2, Zenon DEF SockTypes, Taken
  <2> QED
    BY <1>4, <2>1, <2>2, Zenon
<1>7. CallTypes' /\ Kept(lt)
  BY <1>1, <1>2, <1>3, <1>5, CommonStep, Zenon DEF CallTypes
<1>8. \/ at'[lt] \in {"user", "wait"} /\ made'[lt] \subseteq {0, 1}
      \/ at'[lt] = "idle" /\ ret'[lt] = -1 /\ made'[lt] \subseteq {0}
      \/ at'[lt] = "idle" /\ ret'[lt] = 1 /\ made'[lt] \subseteq {0, 1} /\ 1 \in made'[lt]
  <2>1. made \in [Lthreads -> SUBSET Nat] /\ ret \in [Lthreads -> Int]
    BY <1>1, Zenon DEF CallTypes
  <2>2. \A r : Return(lt, r) => at'[lt] = "idle" /\ ret'[lt] = r
    BY <1>1, <2>1, Zenon DEF Return
  <2>3. (Again => at'[lt] = "user") /\ (WaitFd(lt, "READ") => at'[lt] = "wait")
    BY <1>1, <1>2, Zenon DEF Again, WaitFd, Acts
  <2>4. \A k : made' = [made EXCEPT ![lt] = k] => made'[lt] = k
    BY <2>1, Zenon
  <2>5. CASE Again \/ WaitFd(lt, "READ")
    <3>1. \/ made' = made \/ made'[lt] = made[lt] \cup Fresh(1)
          \/ made'[lt] = made[lt] \ {1}
      BY <1>4, <2>4, Zenon
    <3> QED
      BY <1>0, <2>3, <2>5, <3>1, Zenon
  <2>6. CASE Return(lt, -1) /\ made' = made /\ 1 \notin made[lt]
    BY <1>0, <2>2, <2>6, Zenon
  <2>7. CASE Return(lt, 1) /\ made' = made /\ 1 \in made[lt]
    BY <1>0, <2>2, <2>7, Zenon
  <2>8. CASE Return(lt, -1) /\ made' = [made EXCEPT ![lt] = @ \ {1}]
    <3>1. made'[lt] = made[lt] \ {1}
      BY <2>4, <2>8, Zenon
    <3> QED
      BY <1>0, <2>2, <2>8, <3>1, Zenon
  <2> QED
    BY <1>4, <2>5, <2>6, <2>7, <2>8, Zenon
<1>9. MadeOK(lt)'
  <2>1. CASE at'[lt] \in {"user", "wait"} /\ made'[lt] \subseteq {0, 1}
    BY <1>3, <2>1, Zenon DEF MadeOK, Idle
  <2>2. CASE at'[lt] = "idle" /\ ret'[lt] = -1 /\ made'[lt] \subseteq {0}
    <3>1. ~(ret'[lt] >= 0) /\ made'[lt] \ {0} = {} /\ made'[lt] \subseteq {0, 1}
      BY <2>2
    <3> QED
      BY <1>3, <2>2, <3>1, Zenon DEF MadeOK, Open, Handover, Idle
  <2>3. CASE at'[lt] = "idle" /\ ret'[lt] = 1 /\ made'[lt] \subseteq {0, 1} /\ 1 \in made'[lt]
    <3>1. ret'[lt] >= 0 /\ made'[lt] \ {0} = {ret'[lt]}
      BY <2>3
    <3> QED
      BY <1>3, <2>3, <3>1, Zenon DEF MadeOK, Open, Handover, Idle
  <2> QED
    BY <1>8, <2>1, <2>2, <2>3, Zenon
<1>10. CountOK(lt)'
  BY <1>3, NothingCounted, Zenon
<1> QED
  BY <1>6, <1>7, <1>9, <1>10, Zenon DEF Data, CallOK

\* socket and pipe hand over what they have made, or close it.
LEMMA MakeData ==
  ASSUME NEW lt \in Lthreads, Before(lt), lthread_socket(lt) \/ lthread_pipe(lt)
  PROVE  Data(lt)
<1>1. /\ SockTypes /\ CallTypes /\ CallOK(lt) /\ ~Idle(lt)
      /\ \E S : at \in [Lthreads -> S]
  BY Zenon DEF Before, Placed
<1>2. /\ made \in [Lthreads -> SUBSET Nat] /\ total \in [Lthreads -> Nat]
      /\ ret \in [Lthreads -> Int]
  BY <1>1, Zenon DEF CallTypes
<1>3. Acts(lt)
  BY <1>2, MakeActs, Zenon
<1>4. ASSUME NEW o \in {"socket", "pipe"}, NEW n, Make(lt, o, n), Fresh(n) \in New(o)
      PROVE  Data(lt)
  <2>1. op[lt] = o /\ op' = op /\ iov' = iov /\ moved' = moved /\ UNCHANGED sockVars
    BY <1>4, Zenon DEF Make, Calling, asked
  <2>2. PICK k : k \in New(o) /\ (total[lt] # 0 => k = made[lt])
                 /\ (total[lt] = 0 => k = Fresh(n))
    BY <1>1, <1>4, <2>1, Zenon DEF CallOK, MadeOK
  <2>3. \/ Return(lt, -1) /\ made' = [made EXCEPT ![lt] = {}] /\ total' = total
        \/ /\ made' = [made EXCEPT ![lt] = k] \/ (made' = made /\ made[lt] = k)
           /\ total' = [total EXCEPT ![lt] = @ + 1]
           /\ Again \/ (\E r \in IF o = "socket" THEN made[lt] ELSE {0} :
                          Return(lt, r) /\ made[lt] = k)
    <3>1. ~(total[lt] < 2) => total[lt] # 0
      BY <1>2
    <3> QED
      BY <1>4, <2>2, <3>1, Zenon DEF Make, fdVars
  <2>4. k \in SUBSET Nat /\ {} \in SUBSET Nat
    BY <1>4, <2>2 DEF New
  <2>5. /\ made' \in [Lthreads -> SUBSET Nat]
        /\ \A x \in Lthreads \ {lt} : made'[x] = made[x]
    BY <1>2, <2>3, <2>4, Zenon
  <2>6. /\ total' \in [Lthreads -> Nat]
        /\ \A x \in Lthreads \ {lt} : total'[x] = total[x]
    <3>1. total' = total \/ total' = [total EXCEPT ![lt] = @ + 1]
      BY <2>3, Zenon
    <3> QED
      BY <1>2, <3>1
  <2>7. CallTypes' /\ Kept(lt) /\ SockTypes'
    BY <1>1, <1>3, <2>1, <2>5, <2>6, CommonStep, SockSame, Zenon DEF CallTypes
  <2>8. \/ at'[lt] = "idle" /\ ret'[lt] = -1 /\ made'[lt] = {}
        \/ /\ at'[lt] = "idle" /\ made'[lt] = k
           /\ ret'[lt] \in IF o = "socket" THEN k ELSE {0}
        \/ at'[lt] = "user" /\ made'[lt] = k
    BY <1>1, <1>2, <1>3, <2>3, Zenon DEF Return, Again, Acts
  <2>9. MadeOK(lt)'
    <3>1. CASE at'[lt] = "user" /\ made'[lt] = k
      BY <1>4, <2>1, <2>2, <3>1, Zenon DEF MadeOK, Idle
    <3>2. CASE at'[lt] = "idle" /\ ret'[lt] = -1 /\ made'[lt] = {}
      <4>1. ~(ret'[lt] >= 0) /\ ret'[lt] # 0
        BY <3>2
      <4> QED
        BY <1>4, <2>1, <3>2, <4>1, Zenon DEF MadeOK, Open, Handover, Idle
    <3>3. CASE at'[lt] = "idle" /\ made'[lt] = k /\ o = "socket" /\ ret'[lt] \in k
      <4>1. ret'[lt] >= 0 /\ k = {ret'[lt]}
        BY <2>2, <3>3 DEF New
      <4> QED
        BY <2>1, <3>3, <4>1, Zenon DEF MadeOK, Open, Handover, Idle
    <3>4. CASE at'[lt] = "idle" /\ made'[lt] = k /\ o = "pipe" /\ ret'[lt] = 0
      BY <2>1, <2>2, <3>4, Zenon DEF MadeOK, Open, Handover, Idle
    <3> QED
      BY <1>4, <2>8, <3>1, <3>2, <3>3, <3>4, Zenon
  <2>10. CountOK(lt)'
    BY <1>4, <2>1, NothingCounted, Zenon
  <2> QED
    BY <2>7, <2>9, <2>10, Zenon DEF Data, CallOK
<1> QED
  BY <1>4, FreshNew, Zenon DEF lthread_socket, lthread_pipe

\* lthread_connect moves no bytes and makes no descriptor.
LEMMA ConnectData ==
  ASSUME NEW lt \in Lthreads, Before(lt), lthread_connect(lt)
  PROVE  Data(lt)
<1>1. /\ SockTypes /\ CallTypes /\ CallOK(lt) /\ ~Idle(lt)
      /\ \E S : at \in [Lthreads -> S]
  BY Zenon DEF Before, Placed
<1>2. Acts(lt)
  BY ConnectActs, Zenon
<1>3. /\ op[lt] = "connect" /\ op' = op
      /\ iov' = iov /\ moved' = moved /\ total' = total /\ made' = made
  BY Zenon DEF lthread_connect, Calling, asked, fdVars
<1>4. made[lt] = {}
  BY <1>1, <1>3, Zenon DEF CallOK, MadeOK
<1>5. Return(lt, 0) \/ Return(lt, -1) \/ WaitFd(lt, "WRITE")
  BY Zenon DEF lthread_connect
<1>6. SockTypes'
  BY <1>1, Zenon DEF lthread_connect, SockTypes
<1>7. CallTypes' /\ Kept(lt)
  BY <1>1, <1>2, <1>3, CommonStep, Zenon DEF CallTypes
<1>8. CallOK(lt)'
  BY <1>3, <1>4, NothingMade, NothingCounted, Zenon DEF CallOK
<1> QED
  BY <1>6, <1>7, <1>8, Zenon DEF Data

\* writev: what is left in the buffers is what has not been moved, and it returns a
\* count when nothing is left.
LEMMA WritevData ==
  ASSUME NEW lt \in Lthreads, Before(lt), lthread_writev(lt)
  PROVE  Data(lt)
<1>1. /\ SockTypes /\ CallTypes /\ CallOK(lt) /\ ~Idle(lt)
      /\ \E S : at \in [Lthreads -> S]
  BY Zenon DEF Before, Placed
<1>2. /\ iov \in [Lthreads -> Seq(Nat)] /\ total \in [Lthreads -> Nat]
      /\ moved \in [Lthreads -> Nat] /\ made \in [Lthreads -> SUBSET Nat]
      /\ ret \in [Lthreads -> Int] /\ want \in [Lthreads -> Nat]
  BY <1>1, Zenon DEF CallTypes
<1>3. Acts(lt)
  BY <1>2, WritevActs, Zenon
<1>4. op[lt] = "writev" /\ op' = op /\ made' = made /\ want' = want
  BY Zenon DEF lthread_writev, Calling, asked, fdVars
<1>5. /\ total[lt] = moved[lt] /\ made[lt] = {} /\ iov[lt] # <<>>
      /\ moved[lt] + Bytes(iov[lt]) = want[lt]
  BY <1>1, <1>4, Zenon DEF CallOK, CountOK, MadeOK
<1>0. MadeOK(lt)'
  BY <1>4, <1>5, NothingMade, Zenon
<1>6. CASE \E n \in 1 .. Capacity[fd[lt]] :
             /\ Sent(lt, n, Bytes(iov[lt]))
             /\ total' = [total EXCEPT ![lt] = @ + n]
             /\ iov' = [iov EXCEPT ![lt] = Skip(@, n)]
             /\ IF iov'[lt] = <<>> THEN Return(lt, total'[lt]) ELSE Again
  <2>1. PICK n \in 1 .. Capacity[fd[lt]] :
             /\ Sent(lt, n, Bytes(iov[lt]))
             /\ total' = [total EXCEPT ![lt] = @ + n]
             /\ iov' = [iov EXCEPT ![lt] = Skip(@, n)]
             /\ IF iov'[lt] = <<>> THEN Return(lt, total'[lt]) ELSE Again
    BY <1>6, Zenon
  <2>2. n \in Nat /\ n <= Bytes(iov[lt])
    BY <1>1, <2>1 DEF Sent, SockTypes, CallTypes
  <2>3. Skip(iov[lt], n) \in Seq(Nat) /\ Bytes(Skip(iov[lt], n)) = Bytes(iov[lt]) - n
    BY <1>2, <2>2, SkipBytes, Zenon
  <2>4. /\ SockTypes'
        /\ moved' \in [Lthreads -> Nat] /\ moved'[lt] = moved[lt] + n
        /\ \A x \in Lthreads \ {lt} : moved'[x] = moved[x]
    BY <1>1, <2>1, <2>2, SentData, Zenon
  <2>5. /\ iov' \in [Lthreads -> Seq(Nat)] /\ iov'[lt] = Skip(iov[lt], n)
        /\ \A x \in Lthreads \ {lt} : iov'[x] = iov[x]
    BY <1>2, <2>1, <2>3, Zenon
  <2>6. /\ total' \in [Lthreads -> Nat] /\ total'[lt] = total[lt] + n
        /\ \A x \in Lthreads \ {lt} : total'[x] = total[x]
    BY <1>2, <2>1, <2>2
  <2>7. CallTypes' /\ Kept(lt)
    BY <1>2, <1>3, <1>4, <2>4, <2>5, <2>6, CommonStep, Zenon
  <2>8. moved'[lt] + Bytes(iov'[lt]) = want[lt]
    BY <1>2, <1>5, <2>2, <2>3, <2>4, <2>5, NoBytes
  <2>9. total'[lt] = moved'[lt]
    BY <1>5, <2>4, <2>6, Zenon
  <2>10. CASE iov'[lt] = <<>>
    <3>1. moved'[lt] = want[lt]
      BY <2>4, <2>8, <2>10, NoBytes
    <3>2. at'[lt] = "idle" /\ ret'[lt] = moved'[lt]
      BY <1>1, <1>2, <2>1, <2>9, <2>10, Zenon DEF Return
    <3> QED
      BY <1>4, <1>0, <2>4, <2>7, <2>8, <3>1, <3>2, Zenon
         DEF Data, CallOK, CountOK, Tallied, Idle
  <2>11. CASE iov'[lt] # <<>>
    <3>1. at'[lt] = "user"
      BY <1>3, <2>1, <2>11, Zenon DEF Again, Acts
    <3> QED
      BY <1>4, <1>0, <2>4, <2>7, <2>8, <2>9, <2>11, <3>1, Zenon
         DEF Data, CallOK, CountOK, Idle
  <2> QED
    BY <2>10, <2>11, Zenon
<1>7. CASE /\ WaitFd(lt, "WRITE") \/ (Return(lt, 0) /\ Bytes(iov[lt]) = 0) \/ Return(lt, -1)
           /\ iov' = iov /\ moved' = moved /\ total' = total /\ UNCHANGED sockVars
  <2>1. CallTypes' /\ Kept(lt) /\ SockTypes'
    BY <1>1, <1>2, <1>3, <1>4, <1>7, CommonStep, SockSame, Zenon
  <2>2. \/ at'[lt] = "wait"
        \/ at'[lt] = "idle" /\ ret'[lt] = 0 /\ Bytes(iov[lt]) = 0
        \/ at'[lt] = "idle" /\ ret'[lt] = -1
    BY <1>1, <1>2, <1>7, Zenon DEF WaitFd, Return
  <2>3. moved'[lt] + Bytes(iov'[lt]) = want'[lt] /\ total'[lt] = moved'[lt]
    BY <1>4, <1>5, <1>7, Zenon
  <2>4. at'[lt] = "idle" /\ ret'[lt] >= 0 =>
          ret'[lt] = 0 /\ moved'[lt] = want'[lt] /\ iov'[lt] # <<>>
    BY <1>2, <1>4, <1>5, <1>7, <2>2
  <2>5. CountOK(lt)'
    BY <1>4, <1>5, <1>7, <2>2, <2>3, <2>4, Zenon DEF CountOK, Tallied, Idle
  <2> QED
    BY <1>0, <2>1, <2>5, Zenon DEF Data, CallOK
<1> QED
  BY <1>6, <1>7, Zenon DEF lthread_writev

\* Every function keeps the account of its bytes and descriptors.
LEMMA ActingData ==
  ASSUME NEW lt \in Lthreads, Before(lt), Acting(lt) PROVE Data(lt)
BY RecvSendData, ReadlineData, AcceptData, MakeData, ConnectData, WritevData, Zenon DEF Acting

\* A new call starts with nothing moved and nothing made.
LEMMA CallData ==
  ASSUME NEW lt \in Lthreads, SockTypes, CallTypes, Call(lt), NEW S, at \in [Lthreads -> S]
  PROVE  Data(lt) /\ <<op'[lt], fd'[lt]>> \in program[lt] /\ program' = program
<1>1. PICK c \in program[lt] :
        /\ op' = [op EXCEPT ![lt] = c[1]]
        /\ fd' = [fd EXCEPT ![lt] = c[2]]
        /\ \E lens \in IF c[1] = "writev" THEN Iovs ELSE {<<>>} :
             /\ iov' = [iov EXCEPT ![lt] = lens]
             /\ want' = [want EXCEPT ![lt] = Bytes(lens)]
  BY Zenon DEF Call
<1>2. PICK lens \in Seq(Nat) :
        /\ iov' = [iov EXCEPT ![lt] = lens]
        /\ want' = [want EXCEPT ![lt] = Bytes(lens)]
        /\ c[1] = "writev" => lens # <<>>
  <2>1. Iovs \subseteq Seq(Nat) /\ <<>> \in Seq(Nat) /\ <<>> \notin Iovs
    BY SocketAssumption
  <2> QED
    BY <1>1, <2>1, Zenon
<1>3. c \in Functions \X Fds /\ c = <<c[1], c[2]>>
  BY DEF CallTypes
<1>4. /\ op'[lt] = c[1] /\ fd'[lt] = c[2] /\ iov'[lt] = lens /\ want'[lt] = Bytes(lens)
      /\ moved'[lt] = 0 /\ total'[lt] = 0 /\ made'[lt] = {} /\ at'[lt] = "user"
  BY <1>1, <1>2, Zenon DEF Call, CallTypes
<1>5. Bytes(lens) \in Nat
  BY NoBytes, Zenon
<1>6. CallTypes'
  <2>1. /\ program' = program /\ ret' = ret
        /\ calls' = [calls EXCEPT ![lt] = @ + 1]
        /\ moved' = [moved EXCEPT ![lt] = 0] /\ total' = [total EXCEPT ![lt] = 0]
        /\ made' = [made EXCEPT ![lt] = {}]
    BY Zenon DEF Call
  <2>2. /\ op' \in [Lthreads -> Functions] /\ fd' \in [Lthreads -> Fds]
        /\ iov' \in [Lthreads -> Seq(Nat)] /\ want' \in [Lthreads -> Nat]
    BY <1>1, <1>2, <1>3, <1>5, Zenon DEF CallTypes
  <2>3. /\ calls' \in [Lthreads -> Nat] /\ moved' \in [Lthreads -> Nat]
        /\ total' \in [Lthreads -> Nat]
    BY <2>1 DEF CallTypes
  <2>4. made' \in [Lthreads -> SUBSET Nat]
    BY <2>1 DEF CallTypes
  <2> QED
    BY <2>1, <2>2, <2>3, <2>4, Zenon DEF CallTypes
<1>7. Kept(lt)
  <2>1. \A x \in Lthreads \ {lt} :
          /\ op'[x] = op[x] /\ fd'[x] = fd[x] /\ iov'[x] = iov[x] /\ want'[x] = want[x]
    BY <1>1, <1>2, Zenon DEF CallTypes
  <2>2. \A x \in Lthreads \ {lt} :
          /\ at'[x] = at[x] /\ moved'[x] = moved[x] /\ total'[x] = total[x]
          /\ made'[x] = made[x] /\ ret'[x] = ret[x]
    BY Zenon DEF Call, CallTypes
  <2> QED
    BY <2>1, <2>2, Zenon DEF Kept
<1>8. CallOK(lt)'
  <2>1. CountOK(lt)'
    BY <1>2, <1>4, <1>5 DEF CountOK, Idle
  <2>2. MadeOK(lt)'
    BY <1>4, Zenon DEF MadeOK, Idle
  <2> QED
    BY <2>1, <2>2, Zenon DEF CallOK
<1>9. SockTypes' /\ program' = program
  BY SockSame, Zenon DEF Call
<1>10. <<op'[lt], fd'[lt]>> \in program[lt]
  BY <1>1, <1>3, <1>4, Zenon
<1> QED
  BY <1>6, <1>7, <1>8, <1>9, <1>10, Zenon DEF Data

\* recv and send give up at the end of file, before they have moved anything.
LEMMA ResumeData ==
  ASSUME NEW lt \in Lthreads, Before(lt), Resume(lt)
  PROVE  Data(lt)
<1>1. /\ SockTypes /\ CallTypes /\ CallOK(lt) /\ ~Idle(lt)
  BY Zenon DEF Before
<1>2. PICK S : at \in [Lthreads -> S]
  BY Zenon DEF Before, Placed
<1>3. ret \in [Lthreads -> Int]
  BY <1>1, Zenon DEF CallTypes
<1>4. UNCHANGED <<asked, iov, moved, total, fdVars, sockVars>>
  BY Zenon DEF Resume
<1>5. \/ /\ at' = [at EXCEPT ![lt] = "idle"] /\ ret' = [ret EXCEPT ![lt] = -1]
         /\ op[lt] \in {"recv", "readline", "send"}
      \/ at' = [at EXCEPT ![lt] = "user"] /\ ret' = ret
  BY Zenon DEF Resume
<1>6. /\ ret' \in [Lthreads -> Int]
      /\ \A x \in Lthreads \ {lt} : at'[x] = at[x] /\ ret'[x] = ret[x]
  BY <1>2, <1>3, <1>5
<1>7. CallTypes' /\ Kept(lt) /\ SockTypes'
  BY <1>1, <1>4, <1>6, SockSame, Zenon DEF CallTypes, Kept, asked, fdVars
<1>8. \/ at'[lt] = "idle" /\ ret'[lt] = -1 /\ op[lt] \in {"recv", "readline", "send"}
      \/ at'[lt] = "user"
  BY <1>2, <1>3, <1>5, Zenon
<1>9. CountOK(lt)'
  <2>1. CASE at'[lt] = "idle" /\ ret'[lt] = -1 /\ op[lt] \in {"recv", "readline", "send"}
    <3>1. ~(ret'[lt] > 0)
      BY <2>1
    <3> QED
      BY <1>1, <1>4, <2>1, <3>1, Zenon DEF CallOK, CountOK, Tallied, Idle, asked
  <2>2. CASE at'[lt] = "user"
    BY <1>1, <1>4, <2>2, Zenon DEF CallOK, CountOK, Idle, asked
  <2> QED
    BY <1>8, <2>1, <2>2, Zenon
<1>10. MadeOK(lt)'
  <2>1. CASE op[lt] \in {"recv", "readline", "send"}
    BY <1>1, <1>4, <2>1, NothingMade, Zenon DEF CallOK, MadeOK, asked, fdVars
  <2>2. CASE at'[lt] = "user"
    BY <1>1, <1>4, <2>2, Zenon DEF CallOK, MadeOK, Idle, asked, fdVars
  <2> QED
    BY <1>8, <2>1, <2>2, Zenon
<1> QED
  BY <1>7, <1>9, <1>10, Zenon DEF Data, CallOK

\* An lthread that makes no more calls leaves the account of its last one alone.
LEMMA FinishData ==
  ASSUME NEW lt \in Lthreads, SockTypes, CallTypes, CallOK(lt), Finish(lt),
         NEW S, at \in [Lthreads -> S]
  PROVE  Data(lt)
<1>1. UNCHANGED <<callVars, sockVars>> /\ at[lt] = "idle" /\ at' = [at EXCEPT ![lt] = "done"]
  BY Zenon DEF Finish
<1>2. CallTypes' /\ Kept(lt) /\ SockTypes'
  BY <1>1, SockSame, Zenon DEF CallTypes, Kept, callVars, asked, fdVars
<1>3. CallOK(lt)'
  <2>1. Idle(lt) /\ Idle(lt)'
    BY <1>1, Zenon DEF Idle
  <2>2. CountOK(lt)'
    BY <1>1, <2>1, Zenon DEF CallOK, CountOK, Tallied, callVars, asked
  <2>3. MadeOK(lt)'
    BY <1>1, <2>1, Zenon DEF CallOK, MadeOK, Open, Handover, callVars, asked, fdVars
  <2> QED
    BY <2>2, <2>3, Zenon DEF CallOK
<1> QED
  BY <1>2, <1>3, Zenon DEF Data
=============================================================================
