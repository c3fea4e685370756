-------------------------- MODULE LthreadCondProofs --------------------------
(***************************************************************************)
(* The theorems about LthreadCond, for any number of lthreads: mutual      *)
(* exclusion and the list of blocked lthreads with or without timeouts,    *)
(* and everything else about a condition whose waits have no timeout.      *)
(***************************************************************************)
EXTENDS LthreadCond, TLAPS

\* x is an element of the sequence q; no element of q is repeated.
In(q, x) == \E i \in 1 .. Len(q) : q[i] = x
Once(q) == \A i, j \in 1 .. Len(q) : q[i] = q[j] => i = j

\* Blocking one more lthread adds it to the end of the list.
LEMMA AppendOnce ==
  ASSUME NEW S, NEW q \in Seq(S), NEW x \in S, Once(q), ~In(q, x)
  PROVE  /\ Append(q, x) \in Seq(S)
         /\ Once(Append(q, x))
         /\ \A y \in S : In(Append(q, x), y) <=> In(q, y) \/ y = x
<1>1. /\ Append(q, x) \in Seq(S)
      /\ Len(Append(q, x)) = Len(q) + 1
      /\ \A i \in 1 .. Len(q) : Append(q, x)[i] = q[i]
      /\ Append(q, x)[Len(q) + 1] = x
      /\ Len(q) \in Nat
  OBVIOUS
<1>2. \A i \in 1 .. Len(q) + 1 : i \in 1 .. Len(q) \/ i = Len(q) + 1
  BY <1>1
<1>3. Once(Append(q, x))
  BY <1>1, <1>2, Zenon DEF Once, In
<1>4. \A y \in S : In(Append(q, x), y) <=> In(q, y) \/ y = x
  BY <1>1, <1>2 DEF In
<1> QED
  BY <1>1, <1>3, <1>4, Zenon

\* Unblocking the first lthread takes it off the list.
LEMMA TailOnce ==
  ASSUME NEW S, NEW q \in Seq(S), q # <<>>, Once(q)
  PROVE  /\ Tail(q) \in Seq(S) /\ Head(q) \in S /\ In(q, Head(q))
         /\ Once(Tail(q))
         /\ \A y \in S : In(Tail(q), y) <=> In(q, y) /\ y # Head(q)
<1>1. /\ Tail(q) \in Seq(S)
      /\ Len(q) \in Nat \ {0}
      /\ Len(Tail(q)) = Len(q) - 1
      /\ \A i \in 1 .. Len(q) - 1 : Tail(q)[i] = q[i + 1]
      /\ Head(q) = q[1] /\ Head(q) \in S
  OBVIOUS
<1>2. Once(Tail(q))
  BY <1>1 DEF Once
<1>3. ASSUME NEW y \in S PROVE In(Tail(q), y) <=> In(q, y) /\ y # Head(q)
  <2>1. ASSUME In(Tail(q), y) PROVE In(q, y) /\ y # Head(q)
    <3>1. PICK i \in 1 .. Len(q) - 1 : q[i + 1] = y
      BY <1>1, <2>1, Zenon DEF In
    <3>2. i + 1 \in 1 .. Len(q) /\ 1 \in 1 .. Len(q) /\ i + 1 # 1
      BY <1>1
    <3> QED
      BY <1>1, <3>1, <3>2, Zenon DEF Once, In
  <2>2. ASSUME In(q, y), y # Head(q) PROVE In(Tail(q), y)
    <3>1. PICK i \in 1 .. Len(q) : q[i] = y
      BY <2>2, Zenon DEF In
    <3>2. i # 1 /\ i - 1 \in 1 .. Len(q) - 1 /\ (i - 1) + 1 = i
      BY <1>1, <2>2, <3>1
    <3> QED
      BY <1>1, <3>1, <3>2, Zenon DEF In
  <2> QED
    BY <2>1, <2>2, Zenon
<1> QED
  BY <1>1, <1>2, <1>3 DEF In

\* TAILQ_FIRST and the rest of the list.
LEMMA FirstRest ==
  ASSUME TypeOK, Once(blocked_lthreads)
  PROVE  /\ first \in Lthreads \cup {NULL}
         /\ rest \in Seq(Lthreads) /\ Once(rest)
         /\ first = NULL <=> blocked_lthreads = <<>>
         /\ first = NULL => rest = <<>>
         /\ first # NULL => In(blocked_lthreads, first)
         /\ \A y \in Lthreads :
              In(rest, y) <=> In(blocked_lthreads, y) /\ y # first
<1>1. CASE blocked_lthreads = <<>>
  BY <1>1, CondNullAssumption DEF first, rest, Once, In
<1>2. CASE blocked_lthreads # <<>>
  <2>1. blocked_lthreads \in Seq(Lthreads)
    BY Zenon DEF TypeOK
  <2>2. first = Head(blocked_lthreads) /\ rest = Tail(blocked_lthreads)
    BY <1>2, Zenon DEF first, rest
  <2> QED
    BY <1>2, <2>1, <2>2, TailOnce, CondNullAssumption
<1> QED
  BY <1>1, <1>2, Zenon
-----------------------------------------------------------------------------
(* Mutual exclusion, with or without timeouts. *)

\* Only the lthread that owns the lock gives it away, and only the owner returns
\* from a call with success.
THEOREM MutualExclusionHolds == Spec => []MutualExclusion
<1> DEFINE Inv == DOMAIN at = Lthreads /\ MutualExclusion
<1>1. Init => Inv
  BY Zenon DEF Init, MutualExclusion
<1>2. Inv /\ [Next]_vars => Inv'
  <2> SUFFICES ASSUME Inv, [Next]_vars PROVE Inv'
    BY Zenon
  <2> USE DEF MutualExclusion
  <2>1. ASSUME NEW lt \in Lthreads, Proceed(lt) PROVE Inv'
    <3>1. UNCHANGED owner
      BY <2>1, Zenon DEF Proceed, sched_sleep, resume_tail, schedule_expired,
                  pop_ready, resume, cond_wait_return, condVars
    <3>2. \/ UNCHANGED at
          \/ at' = [at EXCEPT ![lt] = "switched"]
          \/ at' = [at EXCEPT ![lt] = "off"]
          \/ at' = [at EXCEPT ![lt] = "hand"]
          \/ at' = [at EXCEPT ![lt] = "relock"]
          \/ at' = [at EXCEPT ![lt] = "out"]
          \/ at' = [at EXCEPT ![lt] = "in"] /\ owner = lt
      BY <2>1, Zenon DEF Proceed, sched_sleep, resume_tail, schedule_expired,
                  pop_ready, resume, cond_wait_return
    <3> QED
      BY <3>1, <3>2, Zenon
  <2>2. ASSUME NEW lt \in Lthreads, GiveUp(lt) PROVE Inv'
    <3>1. /\ owner = lt
          /\ \/ at' = [at EXCEPT ![lt] = "sleep"]
             \/ at' = [at EXCEPT ![lt] = "out"]
      BY <2>2, Zenon DEF GiveUp, lthread_cond_wait, lthread_cond_unlock_signal
    <3> QED
      BY <3>1, Zenon
  <2>3. ASSUME NEW lt \in Lthreads, lthread_cond_lock(lt) PROVE Inv'
    <3>1. \/ owner = NULL /\ owner' = lt /\ at' = [at EXCEPT ![lt] = "in"]
          \/ UNCHANGED owner /\ at' = [at EXCEPT ![lt] = "sleep"]
      BY <2>3, Zenon DEF lthread_cond_lock
    <3> QED
      BY <3>1, CondNullAssumption, Zenon
  <2>4. ASSUME NEW lt \in Lthreads, lthread_yield(lt) PROVE Inv'
    BY <2>4, Zenon DEF lthread_yield, condVars
  <2>5. CASE UNCHANGED vars
    BY <2>5, Zenon DEF vars, condVars
  <2> QED
    BY <2>1, <2>2, <2>3, <2>4, <2>5, Zenon DEF Next
<1> QED
  BY <1>1, <1>2, PTL DEF Spec

-----------------------------------------------------------------------------
(* The condition without timeouts. *)

\* What the hand-over of the lock does to the structures of the schedulers: the
\* first blocked lthread is marked if it is on its stack and queued otherwise.
LEMMA SignalEffect ==
  ASSUME CondInv, cond_signal
  PROVE  /\ owner' = first
         /\ UNCHANGED <<sleeping, sleep_usecs, corrupt>>
         /\ \/ first = NULL /\ UNCHANGED <<ready, needs_resched>>
            \/ /\ first # NULL /\ at[first] = "off"
               /\ ready' = ready \cup {first}
               /\ UNCHANGED needs_resched
            \/ /\ first # NULL /\ at[first] # "off"
               /\ needs_resched' = [needs_resched EXCEPT ![first] = TRUE]
               /\ UNCHANGED ready
<1>1. owner' = first
  BY Zenon DEF cond_signal
<1>2. CASE first = NULL
  BY <1>1, <1>2, Zenon DEF cond_signal, schedVars
<1>3. CASE first # NULL
  <2>1. wakeup(first)
    BY <1>3, Zenon DEF cond_signal
  <2>2. Once(blocked_lthreads) /\ TypeOK
    BY DEF CondInv, BlockedIsListed, TypeOK, Once
  <2>3. first \in Lthreads /\ In(blocked_lthreads, first)
    BY <1>3, <2>2, FirstRest, Zenon
  <2>4. /\ ~sleep_usecs[first] /\ is_blocked[first] /\ first \notin ready
        /\ at[first] # "hand"
    BY <2>3, Zenon DEF CondInv, BlockedIsListed, In, WakeOwed
  <2>5. corrupt = FALSE
    BY Zenon DEF CondInv, TypeOK
  <2>6. UNCHANGED <<sleeping, sleep_usecs>> /\ push_ready(first)
    BY <2>1, <2>4, Zenon DEF wakeup
  <2>7. CASE at[first] = "off"
    <3>1. corrupt' = (first \in ready \/ at[first] = "hand")
      BY <2>6, <2>7, Zenon DEF push_ready
    <3>2. corrupt' = corrupt
      <4>1. (first \in ready \/ at[first] = "hand") = FALSE
        BY <2>4, <2>7, Zenon
      <4> QED
        BY <2>5, <3>1, <4>1, Zenon
    <3> QED
      BY <1>1, <1>3, <2>6, <2>7, <3>2, Zenon DEF push_ready
  <2>8. CASE at[first] # "off"
    BY <1>1, <1>3, <2>4, <2>6, <2>8, Zenon DEF push_ready
  <2> QED
    BY <2>7, <2>8, Zenon
<1> QED
  BY <1>2, <1>3, Zenon

\* BlockedIsListed in terms of the list alone.
LEMMA ListedOnce ==
  TypeOK => (BlockedIsListed <=> /\ Once(blocked_lthreads)
                                 /\ \A lt \in Lthreads :
                                      is_blocked[lt] <=> In(blocked_lthreads, lt))
<1>1. TypeOK => \A i \in 1 .. Len(blocked_lthreads) :
                   blocked_lthreads[i] \in Lthreads
  BY DEF TypeOK
<1> QED
  BY <1>1, Zenon DEF BlockedIsListed, Once, In

\* CondInv holds of a new condition.
LEMMA CondInitial == Init => CondInv
<1> SUFFICES ASSUME Init PROVE CondInv
  BY Zenon
<1> USE DEF Init
<1>1. TypeOK
  <2>1. owner \in Lthreads \cup {NULL} /\ blocked_lthreads \in Seq(Lthreads)
    OBVIOUS
  <2>2. /\ is_blocked \in [Lthreads -> BOOLEAN]
        /\ needs_resched \in [Lthreads -> BOOLEAN]
        /\ sleep_usecs \in [Lthreads -> BOOLEAN]
    BY Zenon
  <2>3. at \in [Lthreads -> Places] /\ call \in [Lthreads -> CondCalls]
    BY Zenon DEF Places, CondCalls
  <2>4. corrupt \in BOOLEAN /\ sleeping \in SUBSET Lthreads /\ ready \in SUBSET Lthreads
    BY Zenon
  <2> QED
    BY <2>1, <2>2, <2>3, <2>4, Zenon DEF TypeOK
<1>2. Len(blocked_lthreads) = 0 /\ 1 .. 0 = {}
  OBVIOUS
<1>3. BlockedIsListed
  BY <1>2, Zenon DEF BlockedIsListed
<1>4. NoStuckLocker
  BY <1>2 DEF NoStuckLocker
<1>5. WakeOwed
  BY Zenon DEF WakeOwed
<1>6. ASSUME NEW lt \in Lthreads
      PROVE  /\ ~sleep_usecs[lt] /\ call[lt] # "timed"
             /\ at[lt] = "out" /\ owner # lt
             /\ ~is_blocked[lt] /\ ~needs_resched[lt] /\ lt \notin ready
  BY CondNullAssumption, Zenon
<1>7. ~corrupt /\ sleeping = {}
  BY Zenon
<1> HIDE DEF Init
<1> QED
  BY <1>1, <1>3, <1>4, <1>5, <1>6, <1>7, Zenon DEF CondInv

\* The lthread's way from its place in the list to its return leaves CondInv.
LEMMA ProceedStep ==
  ASSUME CondInv, NEW lt \in Lthreads, Proceed(lt)
  PROVE  CondInv'
<1> USE DEF CondInv
<1>1. CASE sched_sleep(lt)
  BY <1>1 DEF sched_sleep, condVars, TypeOK, Places, BlockedIsListed,
              NoStuckLocker, WakeOwed
<1>2. CASE resume_tail(lt)
  BY <1>2 DEF resume_tail, condVars, TypeOK, Places, BlockedIsListed,
              NoStuckLocker, WakeOwed
<1>3. CASE schedule_expired(lt)
  BY <1>3, Zenon DEF schedule_expired
<1>4. CASE pop_ready(lt)
  BY <1>4 DEF pop_ready, condVars, TypeOK, Places, BlockedIsListed,
              NoStuckLocker, WakeOwed
<1>5. CASE resume(lt)
  BY <1>5 DEF resume, condVars, schedVars, TypeOK, Places, BlockedIsListed,
              NoStuckLocker, WakeOwed
<1>6. CASE cond_wait_return(lt)
  BY <1>6 DEF cond_wait_return, schedVars, TypeOK, Places, BlockedIsListed,
              NoStuckLocker, WakeOwed
<1> QED
  BY <1>1, <1>2, <1>3, <1>4, <1>5, <1>6, Zenon DEF Proceed

\* A call of lthread_cond_lock() leaves CondInv.
LEMMA LockStep ==
  ASSUME CondInv, NEW lt \in Lthreads, lthread_cond_lock(lt)
  PROVE  CondInv'
<1>1. CASE owner = NULL
  BY <1>1, CondNullAssumption
  DEF lthread_cond_lock, schedVars, CondInv, TypeOK, Places, CondCalls,
      BlockedIsListed, NoStuckLocker, WakeOwed
<1>2. CASE owner # NULL
  <2>0. /\ at[lt] = "out"
        /\ call' = [call EXCEPT ![lt] = "lock"]
        /\ blocked_lthreads' = Append(blocked_lthreads, lt)
        /\ is_blocked' = [is_blocked EXCEPT ![lt] = TRUE]
        /\ at' = [at EXCEPT ![lt] = "sleep"]
        /\ UNCHANGED <<owner, needs_resched, sleep_usecs, sleeping, ready, corrupt>>
    BY <1>2, Zenon DEF lthread_cond_lock, schedVars
  <2>1. /\ TypeOK /\ Once(blocked_lthreads)
        /\ \A x \in Lthreads : is_blocked[x] <=> In(blocked_lthreads, x)
        /\ ~is_blocked[lt]
    BY <2>0, ListedOnce, Zenon DEF CondInv
  <2>2. /\ blocked_lthreads' \in Seq(Lthreads)
        /\ Once(blocked_lthreads')
        /\ \A y \in Lthreads :
             In(blocked_lthreads', y) <=> In(blocked_lthreads, y) \/ y = lt
    BY <2>0, <2>1, AppendOnce, Zenon DEF TypeOK
  <2>3. TypeOK'
    BY <2>0, <2>1, <2>2, Zenon DEF TypeOK, Places, CondCalls
  <2>4. BlockedIsListed'
    <3>1. \A x \in Lthreads : is_blocked'[x] <=> In(blocked_lthreads', x)
      BY <2>0, <2>1, <2>2, Zenon DEF TypeOK
    <3> QED
      BY <2>2, <3>1 DEF BlockedIsListed, Once, In
  <2>5. NoStuckLocker' /\ WakeOwed'
    BY <1>2, <2>0, <2>1, Zenon DEF NoStuckLocker, WakeOwed, CondInv, TypeOK
  <2> QED
    BY <2>0, <2>1, <2>3, <2>4, <2>5, Zenon DEF CondInv, TypeOK
<1> QED
  BY <1>1, <1>2, Zenon

\* Giving the lock up, with or without waiting for a signal, leaves CondInv.  The
\* lthread that is handed the lock was blocked, so nobody had woken it.
LEMMA GiveUpStep ==
  ASSUME CondInv, ~Timeouts, NEW lt \in Lthreads, GiveUp(lt)
  PROVE  CondInv'
<1>1. /\ at[lt] = "in" /\ owner = lt /\ cond_signal
      /\ \/ /\ blocked_lthreads' = Append(rest, lt)
            /\ is_blocked' =
                 [x \in Lthreads |-> x = lt \/ (is_blocked[x] /\ x # first)]
            /\ at' = [at EXCEPT ![lt] = "sleep"]
            /\ call' = [call EXCEPT ![lt] = "wait"]
         \/ /\ blocked_lthreads' = rest
            /\ is_blocked' = [x \in Lthreads |-> is_blocked[x] /\ x # first]
            /\ at' = [at EXCEPT ![lt] = "out"]
            /\ UNCHANGED call
  BY Zenon DEF GiveUp, lthread_cond_wait, lthread_cond_unlock_signal
<1>2. /\ TypeOK /\ Once(blocked_lthreads) /\ lt # NULL
      /\ \A x \in Lthreads : is_blocked[x] <=> In(blocked_lthreads, x)
      /\ ~is_blocked[lt]
  BY <1>1, ListedOnce, CondNullAssumption, Zenon DEF CondInv
<1>3. /\ first \in Lthreads \cup {NULL}
      /\ rest \in Seq(Lthreads) /\ Once(rest)
      /\ first = NULL => rest = <<>>
      /\ first # NULL => is_blocked[first]
      /\ \A y \in Lthreads : In(rest, y) <=> is_blocked[y] /\ y # first
  BY <1>2, FirstRest, Zenon
<1>4. first # lt
  BY <1>2, <1>3, Zenon
<1>5. \A x \in Lthreads :
        x # lt => (is_blocked'[x] <=> is_blocked[x] /\ x # first)
  BY <1>1, Zenon
<1>6. /\ blocked_lthreads' \in Seq(Lthreads)
      /\ Once(blocked_lthreads')
      /\ \A y \in Lthreads : In(blocked_lthreads', y) <=> is_blocked'[y]
  <2>1. CASE blocked_lthreads' = rest /\ is_blocked' = [x \in Lthreads |-> is_blocked[x] /\ x # first]
    BY <1>3, <2>1, Zenon
  <2>2. CASE /\ blocked_lthreads' = Append(rest, lt)
             /\ is_blocked' = [x \in Lthreads |-> x = lt \/ (is_blocked[x] /\ x # first)]
    BY <1>2, <1>3, <2>2, AppendOnce, Zenon
  <2> QED
    BY <1>1, <2>1, <2>2, Zenon
<1>7. /\ owner' = first
      /\ UNCHANGED <<sleeping, sleep_usecs, corrupt>>
      /\ \/ first = NULL /\ UNCHANGED <<ready, needs_resched>>
         \/ /\ first # NULL /\ at[first] = "off"
            /\ ready' = ready \cup {first}
            /\ UNCHANGED needs_resched
         \/ /\ first # NULL /\ at[first] # "off"
            /\ needs_resched' = [needs_resched EXCEPT ![first] = TRUE]
            /\ UNCHANGED ready
  BY <1>1, SignalEffect, Zenon
<1>8. TypeOK'
  BY <1>1, <1>2, <1>3, <1>6, <1>7, Zenon DEF TypeOK, Places, CondCalls
<1>9. BlockedIsListed'
  BY <1>6, <1>8, Zenon DEF BlockedIsListed, Once, In, TypeOK
<1>10. NoStuckLocker'
  <2> SUFFICES ASSUME first = NULL
               PROVE  /\ Len(blocked_lthreads') <= 1
                      /\ \A i \in 1 .. Len(blocked_lthreads') :
                           call'[blocked_lthreads'[i]] # "lock"
    BY <1>7, Zenon DEF NoStuckLocker
  <2>1. rest = <<>>
    BY <1>3, Zenon
  <2>2. CASE blocked_lthreads' = rest
    BY <2>1, <2>2
  <2>3. CASE /\ blocked_lthreads' = Append(rest, lt)
             /\ call' = [call EXCEPT ![lt] = "wait"]
    <3>1. Len(blocked_lthreads') = 1 /\ blocked_lthreads'[1] = lt
      BY <2>1, <2>3
    <3>2. call'[lt] = "wait"
      BY <1>2, <2>3, Zenon DEF TypeOK
    <3> QED
      BY <3>1, <3>2
  <2> QED
    BY <1>1, <2>2, <2>3, Zenon
<1>11. /\ at'[lt] \in {"sleep", "out"} /\ (is_blocked'[lt] <=> at'[lt] = "sleep")
       /\ call'[lt] # "timed"
       /\ \A x \in Lthreads : x # lt => at'[x] = at[x] /\ call'[x] = call[x]
  <2>1. ~is_blocked[lt] /\ call[lt] # "timed"
    BY <1>2, Zenon DEF CondInv
  <2> QED
    BY <1>1, <1>2, <2>1, Zenon DEF TypeOK
<1>12. ASSUME NEW x \in Lthreads, x # first
       PROVE  /\ x \notin ready' /\ ~needs_resched'[x]
              /\ owner' # x
              /\ is_blocked'[x] <=> at'[x] \in {"sleep", "switched", "off"}
  <2>1. x \notin ready /\ ~needs_resched[x]
    BY <1>1, Zenon DEF CondInv, WakeOwed
  <2>2. x \notin ready' /\ ~needs_resched'[x]
    BY <1>2, <1>7, <1>12, <2>1, Zenon DEF TypeOK
  <2>3. x # lt => (is_blocked[x] <=> at[x] \in {"sleep", "switched", "off"})
    BY <1>1, Zenon DEF CondInv
  <2> QED
    BY <1>5, <1>7, <1>11, <1>12, <2>2, <2>3, Zenon
<1>13. ASSUME first # NULL
       PROVE  /\ at'[first] = at[first] /\ at[first] \in {"sleep", "switched", "off"}
              /\ ~is_blocked'[first] /\ owner' = first
              /\ first \in ready' <=> at[first] = "off"
              /\ needs_resched'[first] <=> at[first] # "off"
  <2>1. first \in Lthreads /\ is_blocked[first]
    BY <1>3, <1>13, Zenon
  <2>2. /\ at[first] \in {"sleep", "switched", "off"}
        /\ first \notin ready /\ ~needs_resched[first]
    BY <1>1, <1>4, <2>1, Zenon DEF CondInv, WakeOwed
  <2>3. /\ first \in ready' <=> at[first] = "off"
        /\ needs_resched'[first] <=> at[first] # "off"
    BY <1>2, <1>7, <1>13, <2>1, <2>2, Zenon DEF TypeOK
  <2> QED
    BY <1>4, <1>5, <1>7, <1>11, <2>1, <2>2, <2>3, Zenon
<1>14. WakeOwed'
  <2> SUFFICES ASSUME NEW x \in Lthreads
               PROVE  x \in ready' \/ needs_resched'[x]
                        <=> owner' = x /\ at'[x] \in {"sleep", "switched", "off"}
    BY Zenon DEF WakeOwed
  <2>1. CASE x # first
    BY <1>12, <2>1, Zenon
  <2>2. CASE x = first
    BY <1>13, <2>2, CondNullAssumption, Zenon
  <2> QED
    BY <2>1, <2>2, Zenon
<1>15. ASSUME NEW x \in Lthreads
       PROVE  /\ ~sleep_usecs'[x] /\ call'[x] # "timed"
              /\ at'[x] \in {"in", "hand", "relock"} => owner' = x
              /\ at'[x] = "out" => owner' # x
              /\ is_blocked'[x]
                   <=> at'[x] \in {"sleep", "switched", "off"} /\ owner' # x
              /\ needs_resched'[x] => at'[x] \in {"sleep", "switched"}
              /\ x \in ready' => at'[x] = "off"
  <2>1. ~sleep_usecs[x] /\ call[x] # "timed"
    BY Zenon DEF CondInv
  <2>2. ~sleep_usecs'[x] /\ call'[x] # "timed"
    BY <1>7, <1>11, <2>1, Zenon
  <2>3. CASE x # first
    <3>1. at'[x] \notin {"in", "hand", "relock"}
      <4>1. x # lt => at[x] \notin {"in", "hand", "relock"}
        BY <1>1, Zenon DEF CondInv
      <4> QED
        BY <1>11, <4>1, Zenon
    <3> QED
      BY <1>12, <2>2, <2>3, <3>1, Zenon
  <2>4. CASE x = first
    BY <1>13, <2>2, <2>4, CondNullAssumption, Zenon
  <2> QED
    BY <2>3, <2>4, Zenon
<1>16. ~corrupt' /\ sleeping' = {}
  BY <1>7, Zenon DEF CondInv
<1> QED
  BY <1>8, <1>9, <1>10, <1>14, <1>15, <1>16, Zenon DEF CondInv

\* No step of an lthread or of a scheduler leaves CondInv.
LEMMA CondStep == ~Timeouts /\ CondInv /\ [Next]_vars => CondInv'
<1> SUFFICES ASSUME ~Timeouts, CondInv, [Next]_vars PROVE CondInv'
  BY Zenon
<1>1. CASE UNCHANGED vars
  BY <1>1 DEF vars, condVars, schedVars, CondInv, TypeOK, BlockedIsListed,
              NoStuckLocker, WakeOwed
<1>2. ASSUME NEW lt \in Lthreads, lthread_yield(lt) PROVE CondInv'
  BY <1>2, Zenon DEF lthread_yield, CondInv
<1> QED
  BY <1>1, <1>2, ProceedStep, GiveUpStep, LockStep, Zenon DEF Next

\* A condition on which nobody waits with a timeout keeps CondInv, with any
\* number of lthreads and at every point where a hand-over may meet its receiver.
THEOREM UntimedInvariant == ~Timeouts /\ Spec => []CondInv
<1>1. Init => CondInv
  BY CondInitial, Zenon
<1>2. ~Timeouts /\ CondInv /\ [Next]_vars => CondInv'
  BY CondStep, Zenon
<1>3. CASE Timeouts
  BY <1>3, Zenon
<1>4. CASE ~Timeouts
  BY <1>1, <1>2, <1>4, PTL DEF Spec
<1> QED
  BY <1>3, <1>4, Zenon

\* Without timeouts no assertion of lthread_cond.c can fail.
THEOREM UntimedAssertionsHold == ~Timeouts /\ Spec => []AssertionsHold
<1>1. CondInv => AssertionsHold
  <2> SUFFICES ASSUME CondInv PROVE AssertionsHold
    BY Zenon
  <2>1. MutualExclusion
    BY Zenon DEF CondInv, MutualExclusion
  <2>2. ASSUME NEW lt \in Lthreads
        PROVE  /\ at[lt] = "out" => owner # lt
               /\ at[lt] \in {"out", "in"} => ~is_blocked[lt]
               /\ at[lt] = "relock" => owner = lt /\ ~is_blocked[lt]
    BY Zenon DEF CondInv
  <2>3. ASSUME NEW lt \in Lthreads, at[lt] = "relock"
        PROVE  is_blocked[lt] = (owner # lt)
    <3>1. (owner # lt) = FALSE /\ is_blocked[lt] = FALSE
      BY <2>2, <2>3, Zenon DEF CondInv, TypeOK
    <3> QED
      BY <3>1, Zenon
  <2>4. ASSUME NEW i \in 1 .. Len(blocked_lthreads)
        PROVE  is_blocked[blocked_lthreads[i]]
    BY DEF CondInv, BlockedIsListed, TypeOK
  <2> QED
    BY <2>1, <2>2, <2>3, <2>4, Zenon DEF AssertionsHold
<1> QED
  BY <1>1, UntimedInvariant, PTL

\* Without timeouts a hand-over always wakes the lthread that gets the lock.
THEOREM UntimedWakeOwed == ~Timeouts /\ Spec => []WakeOwed
<1>1. CondInv => WakeOwed
  BY Zenon DEF CondInv
<1> QED
  BY <1>1, UntimedInvariant, PTL

-----------------------------------------------------------------------------
(* The list of blocked lthreads, with or without timeouts. *)

\* A wait that times out takes its lthread off the list, wherever it stands.
LEMMA RemoveOnce ==
  ASSUME NEW S, NEW q \in Seq(S), Once(q), NEW i \in 1 .. Len(q)
  PROVE  /\ RemoveAt(q, i) \in Seq(S) /\ Len(RemoveAt(q, i)) = Len(q) - 1
         /\ Once(RemoveAt(q, i))
         /\ \A y \in S : In(RemoveAt(q, i), y) <=> In(q, y) /\ y # q[i]
<1> DEFINE r == RemoveAt(q, i)
<1>1. /\ Len(q) \in Nat \ {0} /\ i \in Nat \ {0} /\ i <= Len(q)
      /\ i - 1 \in 0 .. Len(q)
  OBVIOUS
<1>2. PICK a \in Seq(S) :
        /\ a = SubSeq(q, 1, i - 1) /\ Len(a) = i - 1
        /\ \A j \in 1 .. i - 1 : a[j] = q[j]
  <2>1. /\ SubSeq(q, 1, i - 1) \in Seq(S) /\ Len(SubSeq(q, 1, i - 1)) = i - 1
        /\ \A j \in 1 .. i - 1 : SubSeq(q, 1, i - 1)[j] = q[j]
    BY <1>1
  <2> QED
    BY <2>1, Zenon
<1>3. PICK b \in Seq(S) :
        /\ b = SubSeq(q, i + 1, Len(q)) /\ Len(b) = Len(q) - i
        /\ \A j \in 1 .. Len(q) - i : b[j] = q[i + j]
  <2>1. /\ SubSeq(q, i + 1, Len(q)) \in Seq(S)
        /\ Len(SubSeq(q, i + 1, Len(q))) = Len(q) - i
        /\ \A j \in 1 .. Len(q) - i : SubSeq(q, i + 1, Len(q))[j] = q[i + j]
    BY <1>1
  <2> QED
    BY <2>1, Zenon
<1>4. /\ r \in Seq(S) /\ Len(r) = Len(q) - 1
      /\ \A j \in 1 .. Len(q) - 1 : r[j] = IF j < i THEN q[j] ELSE q[j + 1]
  <2>1. r = a \o b
    BY <1>2, <1>3, Zenon DEF RemoveAt
  <2> HIDE DEF r
  <2>2. /\ r \in Seq(S) /\ Len(r) = Len(a) + Len(b)
        /\ \A j \in 1 .. Len(r) : r[j] = IF j <= Len(a) THEN a[j] ELSE b[j - Len(a)]
    BY <2>1
  <2>3. Len(r) = Len(q) - 1
    BY <1>1, <1>2, <1>3, <2>2
  <2>4. ASSUME NEW j \in 1 .. Len(q) - 1, j < i PROVE r[j] = q[j]
    BY <1>1, <1>2, <2>2, <2>3, <2>4
  <2>5. ASSUME NEW j \in 1 .. Len(q) - 1, ~(j < i) PROVE r[j] = q[j + 1]
    <3>1. j - (i - 1) \in 1 .. Len(q) - i /\ i + (j - (i - 1)) = j + 1 /\ ~(j <= i - 1)
      BY <1>1, <2>5
    <3>2. r[j] = b[j - (i - 1)]
      BY <1>2, <2>2, <2>3, <2>5, <3>1, Zenon
    <3> QED
      BY <1>3, <3>1, <3>2, Zenon
  <2> QED
    BY <2>2, <2>3, <2>4, <2>5, Zenon
<1> HIDE DEF r
<1>5. Once(r)
  <2> DEFINE p(j) == IF j < i THEN j ELSE j + 1
  <2>1. ASSUME NEW j \in 1 .. Len(q) - 1 PROVE p(j) \in 1 .. Len(q) /\ r[j] = q[p(j)]
    <3>1. r[j] = IF j < i THEN q[j] ELSE q[j + 1]
      BY <1>4, Zenon
    <3>2. CASE j < i
      BY <1>1, <3>1, <3>2
    <3>3. CASE ~(j < i)
      BY <1>1, <3>1, <3>3
    <3> QED
      BY <3>2, <3>3, Zenon
  <2>2. \A j, k \in 1 .. Len(q) - 1 : p(j) = p(k) => j = k
    BY <1>1
  <2> HIDE DEF p
  <2> QED
    BY <1>4, <2>1, <2>2 DEF Once
<1>6. ASSUME NEW y \in S PROVE In(r, y) <=> In(q, y) /\ y # q[i]
  <2>1. ASSUME NEW j \in 1 .. Len(q) - 1, r[j] = y PROVE In(q, y) /\ y # q[i]
    <3>1. CASE j < i
      BY <1>1, <1>4, <2>1, <3>1 DEF In, Once
    <3>2. CASE ~(j < i)
      <4>1. j + 1 \in 1 .. Len(q) /\ j + 1 # i /\ q[j + 1] = y
        BY <1>1, <1>4, <2>1, <3>2
      <4> QED
        BY <4>1, Zenon DEF In, Once
    <3> QED
      BY <3>1, <3>2, Zenon
  <2>2. ASSUME NEW j \in 1 .. Len(q), q[j] = y, y # q[i] PROVE In(r, y)
    <3>1. CASE j < i
      <4>1. j \in 1 .. Len(q) - 1
        BY <1>1, <2>2, <3>1
      <4>2. r[j] = y
        BY <1>4, <2>2, <3>1, <4>1, Zenon
      <4> QED
        BY <1>4, <4>1, <4>2, Zenon DEF In
    <3>2. CASE ~(j < i)
      <4>1. j - 1 \in 1 .. Len(q) - 1 /\ ~(j - 1 < i) /\ (j - 1) + 1 = j
        BY <1>1, <2>2, <3>2
      <4> QED
        BY <1>4, <2>2, <4>1, Zenon DEF In
    <3> QED
      BY <3>1, <3>2, Zenon
  <2> QED
    BY <1>4, <2>1, <2>2, Zenon DEF In
<1> QED
  BY <1>4, <1>5, <1>6, Zenon DEF r

\* What a wake-up leaves in the structures of the schedulers.
LEMMA PushTypes ==
  ASSUME TypeOK, NEW lt \in Lthreads, push_ready(lt)
  PROVE  /\ needs_resched' \in [Lthreads -> BOOLEAN]
         /\ ready' \in SUBSET Lthreads
         /\ corrupt' \in BOOLEAN
<1>1. (lt \in ready \/ at[lt] = "hand") \in BOOLEAN
  BY Zenon
<1> QED
  BY <1>1, Zenon DEF push_ready, TypeOK

\* What a release does to the owner and to the schedulers: the first of the list owns
\* the lock, and everything else it changes keeps its type.
LEMMA SignalTypes ==
  ASSUME TypeOK, first \in Lthreads \cup {NULL}, cond_signal
  PROVE  /\ owner' = first
         /\ needs_resched' \in [Lthreads -> BOOLEAN]
         /\ sleep_usecs' \in [Lthreads -> BOOLEAN]
         /\ sleeping' \in SUBSET Lthreads
         /\ ready' \in SUBSET Lthreads
         /\ corrupt' \in BOOLEAN
<1>1. CASE first = NULL
  BY <1>1, Zenon DEF cond_signal, schedVars, TypeOK
<1>2. CASE first # NULL
  <2>1. first \in Lthreads /\ wakeup(first)
    BY <1>2, Zenon DEF cond_signal
  <2>2. push_ready(first)
    BY <2>1, Zenon DEF wakeup
  <2>3. sleep_usecs' = sleep_usecs /\ sleeping' \in SUBSET Lthreads
    BY <2>1, Zenon DEF wakeup, TypeOK
  <2> QED
    BY <2>1, <2>2, <2>3, PushTypes, Zenon DEF cond_signal, TypeOK
<1> QED
  BY <1>1, <1>2, Zenon

\* The types, the list, and what a free lock says of it, are inductive together.
ListInv == TypeOK /\ BlockedIsListed /\ NoStuckLocker

\* Steps that leave the condition alone.
LEMMA ListSame ==
  ASSUME ListInv, TypeOK', UNCHANGED <<condVars, call>>
  PROVE  ListInv'
BY Zenon DEF ListInv, condVars, BlockedIsListed, NoStuckLocker

\* A step of the schedulers with an lthread, or the section after its sleep, keeps
\* ListInv: only a wait that gives up takes something off the list, and only itself.
LEMMA ListProceed ==
  ASSUME ListInv, NEW lt \in Lthreads, Proceed(lt)
  PROVE  ListInv'
<1>0. TypeOK
  BY Zenon DEF ListInv
<1>1. CASE sched_sleep(lt)
  <2>1. (call[lt] = "timed") \in BOOLEAN
    BY Zenon
  <2>2. sleep_usecs' \in [Lthreads -> BOOLEAN]
    BY <1>0, <1>1, <2>1, Zenon DEF sched_sleep, TypeOK
  <2>3. TypeOK'
    BY <1>0, <1>1, <2>2, Zenon DEF sched_sleep, condVars, TypeOK, Places
  <2> QED
    BY <1>1, <2>3, ListSame, Zenon DEF sched_sleep
<1>2. CASE resume_tail(lt)
  <2>1. TypeOK'
    BY <1>0, <1>2, Zenon DEF resume_tail, condVars, TypeOK, Places
  <2> QED
    BY <1>2, <2>1, ListSame, Zenon DEF resume_tail
<1>3. CASE schedule_expired(lt)
  <2>1. /\ needs_resched' \in [Lthreads -> BOOLEAN]
        /\ ready' \in SUBSET Lthreads
        /\ corrupt' \in BOOLEAN
    BY <1>0, <1>3, PushTypes, Zenon DEF schedule_expired, TypeOK
  <2>2. TypeOK'
    BY <1>0, <1>3, <2>1, Zenon DEF schedule_expired, condVars, TypeOK
  <2> QED
    BY <1>3, <2>2, ListSame, Zenon DEF schedule_expired
<1>4. CASE pop_ready(lt)
  <2>1. TypeOK'
    BY <1>0, <1>4, Zenon DEF pop_ready, condVars, TypeOK, Places
  <2> QED
    BY <1>4, <2>1, ListSame, Zenon DEF pop_ready
<1>5. CASE resume(lt)
  <2>1. TypeOK'
    BY <1>0, <1>5, Zenon DEF resume, condVars, schedVars, TypeOK, Places
  <2> QED
    BY <1>5, <2>1, ListSame, Zenon DEF resume
<1>6. CASE cond_wait_return(lt)
  <2>1. CASE owner = lt
    <3>1. TypeOK' /\ UNCHANGED <<condVars, call>>
      BY <1>0, <1>6, <2>1, Zenon DEF cond_wait_return, condVars, schedVars, TypeOK, Places
    <3> QED
      BY <3>1, ListSame, Zenon
  <2>2. CASE owner # lt
    <3>1. /\ is_blocked[lt] /\ blocked_lthreads' = Unlinked(lt)
          /\ is_blocked' = [is_blocked EXCEPT ![lt] = FALSE]
          /\ at' = [at EXCEPT ![lt] = "out"]
          /\ UNCHANGED <<owner, schedVars, call>>
      BY <1>6, <2>2, Zenon DEF cond_wait_return
    <3>2. /\ Once(blocked_lthreads) /\ blocked_lthreads \in Seq(Lthreads)
          /\ \A x \in Lthreads : is_blocked[x] <=> In(blocked_lthreads, x)
      BY <1>0, ListedOnce, Zenon DEF ListInv, TypeOK
    <3>3. PICK i \in 1 .. Len(blocked_lthreads) :
            blocked_lthreads[i] = lt /\ blocked_lthreads' = RemoveAt(blocked_lthreads, i)
      <4>1. \E i \in 1 .. Len(blocked_lthreads) : blocked_lthreads[i] = lt
        BY <3>1, <3>2, Zenon DEF In
      <4> QED
        BY <3>1, <4>1, Zenon DEF Unlinked
    <3>4. /\ blocked_lthreads' \in Seq(Lthreads) /\ Once(blocked_lthreads')
          /\ Len(blocked_lthreads') = Len(blocked_lthreads) - 1
          /\ \A y \in Lthreads :
               In(blocked_lthreads', y) <=> In(blocked_lthreads, y) /\ y # lt
      BY <3>2, <3>3, RemoveOnce, Zenon
    <3>5. TypeOK'
      BY <1>0, <3>1, <3>4, Zenon DEF TypeOK, schedVars, Places
    <3>6. BlockedIsListed'
      <4>1. \A y \in Lthreads : is_blocked'[y] <=> In(blocked_lthreads', y)
        BY <1>0, <3>1, <3>2, <3>4, Zenon DEF TypeOK
      <4> QED
        BY <3>4, <3>5, <4>1 DEF BlockedIsListed, Once, In, TypeOK
    <3>7. NoStuckLocker'
      <4> SUFFICES ASSUME owner = NULL
                   PROVE  /\ Len(blocked_lthreads') <= 1
                          /\ \A j \in 1 .. Len(blocked_lthreads') :
                               call[blocked_lthreads'[j]] # "lock"
        BY <3>1, Zenon DEF NoStuckLocker
      <4>1. Len(blocked_lthreads) <= 1 /\ Len(blocked_lthreads) \in Nat \ {0}
        BY <3>2, <3>3 DEF ListInv, NoStuckLocker
      <4>2. Len(blocked_lthreads') = 0
        BY <3>4, <4>1
      <4> QED
        BY <4>2
    <3> QED
      BY <3>5, <3>6, <3>7, Zenon DEF ListInv
  <2> QED
    BY <2>1, <2>2, Zenon
<1> QED
  BY <1>1, <1>2, <1>3, <1>4, <1>5, <1>6, Zenon DEF Proceed

\* lthread_cond_lock keeps ListInv: it takes a free lock or joins the list of an owned one.
LEMMA ListLock ==
  ASSUME ListInv, NEW lt \in Lthreads, lthread_cond_lock(lt)
  PROVE  ListInv'
<1>0. TypeOK /\ BlockedIsListed
  BY Zenon DEF ListInv
<1>1. CASE owner = NULL
  <2>1. /\ owner' = lt /\ lt # NULL
        /\ UNCHANGED <<blocked_lthreads, is_blocked, schedVars>>
        /\ call' = [call EXCEPT ![lt] = "lock"] /\ at' = [at EXCEPT ![lt] = "in"]
    BY <1>1, CondNullAssumption, Zenon DEF lthread_cond_lock
  <2>2. TypeOK'
    BY <1>0, <2>1, Zenon DEF TypeOK, schedVars, Places, CondCalls
  <2> QED
    BY <1>0, <2>1, <2>2, Zenon DEF ListInv, BlockedIsListed, NoStuckLocker
<1>2. CASE owner # NULL
  <2>1. /\ ~is_blocked[lt]
        /\ call' = [call EXCEPT ![lt] = "lock"]
        /\ blocked_lthreads' = Append(blocked_lthreads, lt)
        /\ is_blocked' = [is_blocked EXCEPT ![lt] = TRUE]
        /\ at' = [at EXCEPT ![lt] = "sleep"]
        /\ UNCHANGED <<owner, schedVars>>
    BY <1>2, Zenon DEF lthread_cond_lock
  <2>2. /\ Once(blocked_lthreads) /\ blocked_lthreads \in Seq(Lthreads)
        /\ \A x \in Lthreads : is_blocked[x] <=> In(blocked_lthreads, x)
    BY <1>0, ListedOnce, Zenon DEF TypeOK
  <2>3. /\ blocked_lthreads' \in Seq(Lthreads) /\ Once(blocked_lthreads')
        /\ \A y \in Lthreads :
             In(blocked_lthreads', y) <=> In(blocked_lthreads, y) \/ y = lt
    BY <2>1, <2>2, AppendOnce, Zenon
  <2>4. TypeOK'
    BY <1>0, <2>1, <2>3, Zenon DEF TypeOK, schedVars, Places, CondCalls
  <2>5. BlockedIsListed'
    <3>1. \A x \in Lthreads : is_blocked'[x] <=> In(blocked_lthreads', x)
      BY <1>0, <2>1, <2>2, <2>3, Zenon DEF TypeOK
    <3> QED
      BY <2>3, <3>1 DEF BlockedIsListed, Once, In
  <2> QED
    BY <1>2, <2>1, <2>4, <2>5, Zenon DEF ListInv, NoStuckLocker
<1> QED
  BY <1>1, <1>2, Zenon

\* lthread_cond_unlock_signal and lthread_cond_wait keep ListInv: the first of the list
\* is taken off it, unblocked and made the owner.
LEMMA ListGiveUp ==
  ASSUME ListInv, NEW lt \in Lthreads, GiveUp(lt)
  PROVE  ListInv'
<1>0. TypeOK /\ BlockedIsListed
  BY Zenon DEF ListInv
<1>1. /\ cond_signal
      /\ \/ /\ blocked_lthreads' = Append(rest, lt) /\ ~is_blocked[lt]
            /\ is_blocked' = [x \in Lthreads |-> x = lt \/ (is_blocked[x] /\ x # first)]
            /\ at' = [at EXCEPT ![lt] = "sleep"]
            /\ \E kind \in {"wait", "timed"} : call' = [call EXCEPT ![lt] = kind]
         \/ /\ blocked_lthreads' = rest
            /\ is_blocked' = [x \in Lthreads |-> is_blocked[x] /\ x # first]
            /\ at' = [at EXCEPT ![lt] = "out"]
            /\ UNCHANGED call
  BY Zenon DEF GiveUp, lthread_cond_wait, lthread_cond_unlock_signal
<1>2. /\ Once(blocked_lthreads) /\ blocked_lthreads \in Seq(Lthreads)
      /\ \A x \in Lthreads : is_blocked[x] <=> In(blocked_lthreads, x)
  BY <1>0, ListedOnce, Zenon DEF TypeOK
<1>3. /\ first \in Lthreads \cup {NULL}
      /\ rest \in Seq(Lthreads) /\ Once(rest)
      /\ first = NULL => rest = <<>>
      /\ \A y \in Lthreads : In(rest, y) <=> is_blocked[y] /\ y # first
  BY <1>0, <1>2, FirstRest, Zenon
<1>4. /\ blocked_lthreads' \in Seq(Lthreads)
      /\ Once(blocked_lthreads')
      /\ \A y \in Lthreads : In(blocked_lthreads', y) <=> is_blocked'[y]
      /\ is_blocked' \in [Lthreads -> BOOLEAN]
  <2>1. CASE /\ blocked_lthreads' = rest
             /\ is_blocked' = [x \in Lthreads |-> is_blocked[x] /\ x # first]
    <3>1. \A x \in Lthreads : (is_blocked[x] /\ x # first) \in BOOLEAN
      BY Zenon
    <3> QED
      BY <1>3, <2>1, <3>1, Zenon
  <2>2. CASE /\ blocked_lthreads' = Append(rest, lt) /\ ~is_blocked[lt]
             /\ is_blocked' = [x \in Lthreads |-> x = lt \/ (is_blocked[x] /\ x # first)]
    <3>1. \A x \in Lthreads : (x = lt \/ (is_blocked[x] /\ x # first)) \in BOOLEAN
      BY Zenon
    <3>2. is_blocked' \in [Lthreads -> BOOLEAN]
      BY <2>2, <3>1, Zenon
    <3> QED
      BY <1>3, <2>2, <3>2, AppendOnce, Zenon
  <2> QED
    BY <1>1, <2>1, <2>2, Zenon
<1>5. /\ owner' = first
      /\ needs_resched' \in [Lthreads -> BOOLEAN]
      /\ sleep_usecs' \in [Lthreads -> BOOLEAN]
      /\ sleeping' \in SUBSET Lthreads
      /\ ready' \in SUBSET Lthreads
      /\ corrupt' \in BOOLEAN
  BY <1>0, <1>1, <1>3, SignalTypes, Zenon
<1>6. /\ at' \in [Lthreads -> Places] /\ call' \in [Lthreads -> CondCalls]
  BY <1>0, <1>1, Zenon DEF TypeOK, Places, CondCalls
<1>7. TypeOK'
  BY <1>3, <1>4, <1>5, <1>6, Zenon DEF TypeOK
<1>8. BlockedIsListed'
  BY <1>4, <1>7, Zenon DEF BlockedIsListed, Once, In, TypeOK
<1>9. NoStuckLocker'
  <2> SUFFICES ASSUME first = NULL
               PROVE  /\ Len(blocked_lthreads') <= 1
                      /\ \A i \in 1 .. Len(blocked_lthreads') :
                           call'[blocked_lthreads'[i]] # "lock"
    BY <1>5, Zenon DEF NoStuckLocker
  <2>1. rest = <<>>
    BY <1>3, Zenon
  <2>2. CASE blocked_lthreads' = rest
    BY <2>1, <2>2
  <2>3. CASE /\ blocked_lthreads' = Append(rest, lt)
             /\ \E kind \in {"wait", "timed"} : call' = [call EXCEPT ![lt] = kind]
    <3>1. Len(blocked_lthreads') = 1 /\ blocked_lthreads'[1] = lt
      BY <2>1, <2>3
    <3>2. call'[lt] # "lock"
      BY <1>0, <2>3, Zenon DEF TypeOK
    <3> QED
      BY <3>1, <3>2
  <2> QED
    BY <1>1, <2>2, <2>3, Zenon
<1> QED
  BY <1>7, <1>8, <1>9, Zenon DEF ListInv

\* ListInv is an invariant, with timeouts and without.
LEMMA ListInvHolds == Spec => []ListInv
<1>1. Init => ListInv
  BY CondInitial, Zenon DEF CondInv, ListInv
<1>2. ListInv /\ [Next]_vars => ListInv'
  <2> SUFFICES ASSUME ListInv, [Next]_vars PROVE ListInv'
    BY Zenon
  <2>1. CASE UNCHANGED vars
    BY <2>1, Zenon DEF vars, condVars, schedVars, ListInv, TypeOK, BlockedIsListed, NoStuckLocker
  <2>2. ASSUME NEW lt \in Lthreads, lthread_yield(lt) PROVE ListInv'
    <3>1. TypeOK'
      BY <2>2, Zenon DEF lthread_yield, condVars, ListInv, TypeOK
    <3> QED
      BY <2>2, <3>1, ListSame, Zenon DEF lthread_yield
  <2> QED
    BY <2>1, <2>2, ListProceed, ListGiveUp, ListLock, Zenon DEF Next
<1> QED
  BY <1>1, <1>2, PTL DEF Spec

\* Every variable of the condition and of its lthreads keeps its type, whatever
\* times out when.
THEOREM CondTypeCorrect == Spec => []TypeOK
<1>1. ListInv => TypeOK
  BY Zenon DEF ListInv
<1> QED
  BY <1>1, ListInvHolds, PTL

\* lt->is_blocked and c->blocked_lthreads agree and nobody is listed twice, with
\* hand-overs and timeouts in any order.
THEOREM BlockedIsListedHolds == Spec => []BlockedIsListed
<1>1. ListInv => BlockedIsListed
  BY Zenon DEF ListInv
<1> QED
  BY <1>1, ListInvHolds, PTL

\* No lthread sleeps in lthread_cond_lock() on a lock that has no owner, although
\* waits with a timeout leave the same list on their own.
THEOREM NoStuckLockerHolds == Spec => []NoStuckLocker
<1>1. ListInv => NoStuckLocker
  BY Zenon DEF ListInv
<1> QED
  BY <1>1, ListInvHolds, PTL
=============================================================================
