----------------------------- MODULE LthreadCond -----------------------------
(***************************************************************************)
(* One condition of lthread_cond.c: a lock with an owner and a FIFO of     *)
(* blocked lthreads, which serves lthread_cond_lock() and                  *)
(* lthread_cond_wait() alike.  Whoever gives the lock up makes the first   *)
(* blocked lthread its owner and wakes it.                                 *)
(*                                                                         *)
(* A section under c->mutex is one step, _lthread_wakeup() included.  The  *)
(* scheduling of the lthreads is that of LthreadSched with the schedulers  *)
(* left out: an lthread is on its stack, or switched out and perhaps on a  *)
(* ready queue, or in the hand of the scheduler that will resume it.  An   *)
(* assertion is a guard (a program that fails it aborts) and a conjunct of *)
(* AssertionsHold.  Nothing is said of a program one of whose queues or    *)
(* trees is corrupt: it has no further steps.                              *)
(***************************************************************************)
EXTENDS Naturals, SequencesExt

CONSTANTS Lthreads,  \* the lthreads that use the condition
          NULL,      \* the null pointer
          Timeouts   \* may lthread_cond_wait() be given a timeout?

ASSUME CondNullAssumption == NULL \notin Lthreads
ASSUME TimeoutsAssumption == Timeouts \in BOOLEAN

VARIABLES
  \* struct lthread_cond
  owner,
  blocked_lthreads,
  \* struct lthread
  is_blocked,
  needs_resched,
  sleep_usecs,      \* does lt->sleep_usecs hold a deadline?
  \* the lthread's place in the code of the condition, and its call
  at,               \* out, in (owns the lock), sleep, switched, off, hand or relock
  call,             \* lock, wait, or timed (wait with a timeout)
  \* its places in the schedulers' structures
  sleeping,         \* the lthreads in some sleep tree
  ready,            \* the lthreads on some ready queue
  corrupt           \* a queue or a tree has been destroyed, or an lthread is
                    \* queued that a scheduler holds

condVars == <<owner, blocked_lthreads, is_blocked>>
schedVars == <<needs_resched, sleep_usecs, sleeping, ready, corrupt>>
vars == <<condVars, schedVars, at, call>>

Places == {"out", "in", "sleep", "switched", "off", "hand", "relock"}
CondCalls == {"lock", "wait", "timed"}

\* lthread_cond_create, and lthreads that run.
Init ==
  /\ owner = NULL
  /\ blocked_lthreads = <<>>
  /\ is_blocked = [lt \in Lthreads |-> FALSE]
  /\ needs_resched = [lt \in Lthreads |-> FALSE]
  /\ sleep_usecs = [lt \in Lthreads |-> FALSE]
  /\ at = [lt \in Lthreads |-> "out"]
  /\ call = [lt \in Lthreads |-> "lock"]
  /\ sleeping = {}
  /\ ready = {}
  /\ corrupt = FALSE

-----------------------------------------------------------------------------
(* What the condition needs of the scheduler. *)

\* _lthread_sched_push_ready_unsafe: an lthread on its stack is marked.  Linking
\* an element into a TAILQ it is in destroys the queue; queueing one that has been
\* popped gives it to two schedulers.
push_ready(lt) ==
  IF at[lt] \notin {"off", "hand"}
    THEN /\ needs_resched' = [needs_resched EXCEPT ![lt] = TRUE]
         /\ UNCHANGED <<ready, corrupt>>
    ELSE /\ ready' = ready \cup {lt}
         /\ corrupt' = (lt \in ready \/ at[lt] = "hand")
         /\ UNCHANGED needs_resched

\* _lthread_wakeup: a sleep that still has its deadline is cancelled.
wakeup(lt) ==
  /\ sleeping' = IF sleep_usecs[lt] THEN sleeping \ {lt} ELSE sleeping
  /\ push_ready(lt)
  /\ UNCHANGED sleep_usecs

\* _lthread_sched_sleep, up to the switch.
sched_sleep(lt) ==
  /\ ~corrupt /\ at[lt] = "sleep"
  /\ sleep_usecs' = [sleep_usecs EXCEPT ![lt] = call[lt] = "timed"]
  /\ sleeping' = IF call[lt] = "timed" THEN sleeping \cup {lt} ELSE sleeping
  /\ at' = [at EXCEPT ![lt] = "switched"]
  /\ UNCHANGED <<condVars, needs_resched, ready, corrupt, call>>

\* Mutant: the mark of a wake-up that came before the switch is not looked at.
resume_tail_Unmarked(lt) ==
  /\ at[lt] = "switched"
  /\ at' = [at EXCEPT ![lt] = "off"]
  /\ sleep_usecs' = [sleep_usecs EXCEPT ![lt] = FALSE]
  /\ UNCHANGED <<condVars, needs_resched, sleeping, ready, corrupt, call>>

\* _lthread_resume after the switch: the deadline is cleared although the lthread
\* may be in a sleep tree, and a marked lthread is queued.
resume_tail(lt) ==
  /\ ~corrupt /\ at[lt] = "switched"
  /\ at' = [at EXCEPT ![lt] = "off"]
  /\ sleep_usecs' = [sleep_usecs EXCEPT ![lt] = FALSE]
  /\ needs_resched' = [needs_resched EXCEPT ![lt] = FALSE]
  /\ ready' = IF needs_resched[lt] THEN ready \cup {lt} ELSE ready
  /\ UNCHANGED <<condVars, sleeping, corrupt, call>>

\* _lthread_schedule_expired, which a scheduler calls when it is not inside
\* _lthread_resume(): an entry that has lost its deadline is due.  If another
\* scheduler has resumed the lthread meanwhile, RB_REMOVE is given the wrong tree.
schedule_expired(lt) ==
  /\ ~corrupt /\ lt \in sleeping
  /\ at[lt] # "switched"
  /\ sleeping' = sleeping \ {lt}
  /\ IF at[lt] = "off"
       THEN push_ready(lt)
       ELSE corrupt' = TRUE /\ UNCHANGED <<needs_resched, ready>>
  /\ UNCHANGED <<condVars, sleep_usecs, at, call>>

\* _lthread_pop_ready, from the own queue or a neighbour's.
pop_ready(lt) ==
  /\ ~corrupt /\ at[lt] = "off"
  /\ lt \in ready
  /\ ready' = ready \ {lt}
  /\ at' = [at EXCEPT ![lt] = "hand"]
  /\ UNCHANGED <<condVars, needs_resched, sleep_usecs, sleeping, corrupt, call>>

\* _lthread_resume up to the switch.
resume(lt) ==
  /\ ~corrupt /\ at[lt] = "hand"
  /\ at' = [at EXCEPT ![lt] = "relock"]
  /\ UNCHANGED <<condVars, schedVars, call>>

\* lthread_yield by a marked lthread: the mark is used up.
lthread_yield(lt) ==
  /\ ~corrupt /\ at[lt] \in {"out", "in"}
  /\ needs_resched[lt]
  /\ needs_resched' = [needs_resched EXCEPT ![lt] = FALSE]
  /\ UNCHANGED <<condVars, sleep_usecs, sleeping, ready, corrupt, at, call>>

-----------------------------------------------------------------------------
(* lthread_cond.c. *)

\* Mutant: no TAILQ_REMOVE of the lthread that is handed the lock.
rest_Kept == blocked_lthreads

\* TAILQ_FIRST(&c->blocked_lthreads), and the list without it.
first == IF blocked_lthreads = <<>> THEN NULL ELSE Head(blocked_lthreads)
rest == IF blocked_lthreads = <<>> THEN <<>> ELSE Tail(blocked_lthreads)

\* TAILQ_REMOVE: the list without an lthread that is on it.
Unlinked(lt) ==
  RemoveAt(blocked_lthreads,
           CHOOSE i \in 1 .. Len(blocked_lthreads) : blocked_lthreads[i] = lt)

\* Mutant: the lock is released and the first blocked lthread woken to take it.
cond_signal_Released ==
  /\ owner' = NULL
  /\ IF first = NULL THEN UNCHANGED schedVars ELSE wakeup(first)

\* Mutant: the new owner is not woken when it is still on its stack.
cond_signal_OffOnly ==
  /\ owner' = first
  /\ IF first # NULL /\ at[first] = "off"
       THEN wakeup(first)
       ELSE UNCHANGED schedVars

\* _lthread_cond_signal: release, then acquire for the first blocked lthread.
cond_signal ==
  /\ owner' = first
  /\ IF first = NULL THEN UNCHANGED schedVars ELSE wakeup(first)

\* Mutant: an lthread that finds others blocked queues up behind them.
lthread_cond_lock_Polite(lt) ==
  /\ at[lt] = "out"
  /\ owner # lt
  /\ call' = [call EXCEPT ![lt] = "lock"]
  /\ IF owner = NULL /\ blocked_lthreads = <<>>
       THEN /\ owner' = lt
            /\ at' = [at EXCEPT ![lt] = "in"]
            /\ UNCHANGED <<blocked_lthreads, is_blocked>>
       ELSE /\ blocked_lthreads' = Append(blocked_lthreads, lt)
            /\ is_blocked' = [is_blocked EXCEPT ![lt] = TRUE]
            /\ at' = [at EXCEPT ![lt] = "sleep"]
            /\ UNCHANGED owner
  /\ UNCHANGED schedVars

\* Mutant: TAILQ_INSERT_HEAD instead of TAILQ_INSERT_TAIL.
lthread_cond_lock_Lifo(lt) ==
  /\ at[lt] = "out"
  /\ call' = [call EXCEPT ![lt] = "lock"]
  /\ IF owner = NULL
       THEN /\ owner' = lt
            /\ at' = [at EXCEPT ![lt] = "in"]
            /\ UNCHANGED <<blocked_lthreads, is_blocked>>
       ELSE /\ blocked_lthreads' = <<lt>> \o blocked_lthreads
            /\ is_blocked' = [is_blocked EXCEPT ![lt] = TRUE]
            /\ at' = [at EXCEPT ![lt] = "sleep"]
            /\ UNCHANGED owner
  /\ UNCHANGED schedVars

\* Mutant: the list of blocked lthreads is looked at instead of the owner.
lthread_cond_lock_NobodyQueued(lt) ==
  /\ at[lt] = "out"
  /\ call' = [call EXCEPT ![lt] = "lock"]
  /\ IF blocked_lthreads = <<>>
       THEN /\ owner' = lt
            /\ at' = [at EXCEPT ![lt] = "in"]
            /\ UNCHANGED <<blocked_lthreads, is_blocked>>
       ELSE /\ blocked_lthreads' = Append(blocked_lthreads, lt)
            /\ is_blocked' = [is_blocked EXCEPT ![lt] = TRUE]
            /\ at' = [at EXCEPT ![lt] = "sleep"]
            /\ UNCHANGED owner
  /\ UNCHANGED schedVars

\* lthread_cond_lock, up to the lthread_sleep(0) of _lthread_cond_wait.
lthread_cond_lock(lt) ==
  /\ ~corrupt /\ at[lt] = "out"
  /\ owner # lt
  /\ call' = [call EXCEPT ![lt] = "lock"]
  /\ IF owner = NULL
       THEN /\ owner' = lt
            /\ at' = [at EXCEPT ![lt] = "in"]
            /\ UNCHANGED <<blocked_lthreads, is_blocked>>
       ELSE /\ ~is_blocked[lt]
            /\ blocked_lthreads' = Append(blocked_lthreads, lt)
            /\ is_blocked' = [is_blocked EXCEPT ![lt] = TRUE]
            /\ at' = [at EXCEPT ![lt] = "sleep"]
            /\ UNCHANGED owner
  /\ UNCHANGED schedVars

\* lthread_cond_wait, up to the lthread_sleep(timeout) of _lthread_cond_wait.
lthread_cond_wait(lt) ==
  /\ ~corrupt /\ at[lt] = "in"
  /\ owner = lt
  /\ ~is_blocked[lt]
  /\ cond_signal
  /\ blocked_lthreads' = Append(rest, lt)
  /\ is_blocked' = [x \in Lthreads |-> x = lt \/ (is_blocked[x] /\ x # first)]
  /\ \E kind \in {"wait", "timed"} :
       /\ kind = "timed" => Timeouts
       /\ call' = [call EXCEPT ![lt] = kind]
  /\ at' = [at EXCEPT ![lt] = "sleep"]

\* lthread_cond_unlock_signal.
lthread_cond_unlock_signal(lt) ==
  /\ ~corrupt /\ at[lt] = "in"
  /\ owner = lt
  /\ cond_signal
  /\ blocked_lthreads' = rest
  /\ is_blocked' = [x \in Lthreads |-> is_blocked[x] /\ x # first]
  /\ at' = [at EXCEPT ![lt] = "out"]
  /\ UNCHANGED call

\* Mutant: a wait that timed out leaves its entry in the list.
cond_wait_return_StaysListed(lt) ==
  /\ at[lt] = "relock"
  /\ IF owner = lt
       THEN /\ at' = [at EXCEPT ![lt] = "in"]
            /\ UNCHANGED <<blocked_lthreads, is_blocked>>
       ELSE /\ is_blocked' = [is_blocked EXCEPT ![lt] = FALSE]
            /\ at' = [at EXCEPT ![lt] = "out"]
            /\ UNCHANGED blocked_lthreads
  /\ UNCHANGED <<owner, schedVars, call>>

\* Mutant: a wait that timed out returns as if it had been signalled.
cond_wait_return_AsOwner(lt) ==
  /\ at[lt] = "relock"
  /\ at' = [at EXCEPT ![lt] = "in"]
  /\ blocked_lthreads' = IF is_blocked[lt] THEN Unlinked(lt) ELSE blocked_lthreads
  /\ is_blocked' = [is_blocked EXCEPT ![lt] = FALSE]
  /\ UNCHANGED <<owner, schedVars, call>>

\* _lthread_cond_wait after lthread_sleep(): 0 for an lthread that was handed the
\* lock, otherwise -2, which lthread_cond_lock() does not survive.
cond_wait_return(lt) ==
  /\ ~corrupt /\ at[lt] = "relock"
  /\ IF owner = lt
       THEN /\ ~is_blocked[lt]
            /\ at' = [at EXCEPT ![lt] = "in"]
            /\ UNCHANGED <<blocked_lthreads, is_blocked>>
       ELSE /\ is_blocked[lt]
            /\ call[lt] # "lock"
            /\ blocked_lthreads' = Unlinked(lt)
            /\ is_blocked' = [is_blocked EXCEPT ![lt] = FALSE]
            /\ at' = [at EXCEPT ![lt] = "out"]
  /\ UNCHANGED <<owner, schedVars, call>>
-----------------------------------------------------------------------------
\* What schedulers do for lt, and the rest of a call lt has begun.
Proceed(lt) ==
  \/ sched_sleep(lt) \/ resume_tail(lt) \/ schedule_expired(lt)
  \/ pop_ready(lt) \/ resume(lt) \/ cond_wait_return(lt)

\* lt, which owns the lock, gives it up.
GiveUp(lt) == lthread_cond_wait(lt) \/ lthread_cond_unlock_signal(lt)

Next ==
  \E lt \in Lthreads :
    Proceed(lt) \/ GiveUp(lt) \/ lthread_cond_lock(lt) \/ lthread_yield(lt)

\* Calls proceed, because schedulers run, and an owner does not keep the lock.
Fairness == \A lt \in Lthreads : WF_vars(Proceed(lt)) /\ WF_vars(GiveUp(lt))

Spec == Init /\ [][Next]_vars
FairSpec == Spec /\ Fairness

-----------------------------------------------------------------------------
(* Properties. *)

\* Every variable holds a value of its C type.
TypeOK ==
  /\ owner \in Lthreads \cup {NULL}
  /\ blocked_lthreads \in Seq(Lthreads)
  /\ is_blocked \in [Lthreads -> BOOLEAN]
  /\ needs_resched \in [Lthreads -> BOOLEAN]
  /\ sleep_usecs \in [Lthreads -> BOOLEAN]
  /\ at \in [Lthreads -> Places]
  /\ call \in [Lthreads -> CondCalls]
  /\ sleeping \in SUBSET Lthreads
  /\ ready \in SUBSET Lthreads
  /\ corrupt \in BOOLEAN

\* An lthread whose lock or wait call has returned with success owns the lock, so
\* no two are between lock and unlock: a hand-over, a timeout and a new locker
\* never make two owners.
MutualExclusion == \A lt \in Lthreads : at[lt] = "in" => owner = lt

\* is_blocked says that the lthread is on the list, and it is there once: neither
\* a hand-over nor a timeout leaves an entry or a flag behind.
BlockedIsListed ==
  \A lt \in Lthreads :
    /\ is_blocked[lt] <=> \E i \in 1 .. Len(blocked_lthreads) :
                            blocked_lthreads[i] = lt
    /\ \A i, j \in 1 .. Len(blocked_lthreads) :
         blocked_lthreads[i] = lt /\ blocked_lthreads[j] = lt => i = j

\* Nobody sleeps on a free lock: lock and wait callers share one list, and while
\* the lock has no owner the list holds at most one lthread, which waits for a
\* signal; an lthread that only wants the lock is never left behind.
NoStuckLocker ==
  owner = NULL =>
    /\ Len(blocked_lthreads) <= 1
    /\ \A i \in 1 .. Len(blocked_lthreads) : call[blocked_lthreads[i]] # "lock"

\* Every assertion of lthread_cond.c holds where it is evaluated: those of
\* lthread_cond_lock(), _lthread_cond_release(), both branches of
\* _lthread_cond_wait(), and _lthread_cond_signal().
AssertionsHold ==
  /\ MutualExclusion
  /\ \A lt \in Lthreads :
       /\ at[lt] = "out" => owner # lt
       /\ at[lt] \in {"out", "in"} => ~is_blocked[lt]
       /\ at[lt] = "relock" => is_blocked[lt] = (owner # lt)
       /\ at[lt] = "relock" /\ call[lt] = "lock" => owner = lt
  /\ \A i \in 1 .. Len(blocked_lthreads) : is_blocked[blocked_lthreads[i]]

\* The lock is not lost in a hand-over: an owner that is not yet running again is
\* on a ready queue or marked for one, wherever the hand-over met it between
\* listing itself and switching out; and nobody else is woken.
WakeOwed ==
  \A lt \in Lthreads :
    lt \in ready \/ needs_resched[lt]
      <=> owner = lt /\ at[lt] \in {"sleep", "switched", "off"}

\* The inductive invariant of a condition without timeouts: the place of an
\* lthread decides its flags, a blocked lthread is not an owner and is marked or
\* queued by nobody, and no sleep tree is ever entered, so no ready queue is
\* given an lthread that it holds already.
CondInv ==
  /\ TypeOK
  /\ ~corrupt /\ sleeping = {}
  /\ BlockedIsListed
  /\ NoStuckLocker
  /\ WakeOwed
  /\ \A lt \in Lthreads :
       /\ ~sleep_usecs[lt] /\ call[lt] # "timed"
       /\ at[lt] \in {"in", "hand", "relock"} => owner = lt
       /\ at[lt] = "out" => owner # lt
       /\ is_blocked[lt]
            <=> at[lt] \in {"sleep", "switched", "off"} /\ owner # lt
       /\ needs_resched[lt] => at[lt] \in {"sleep", "switched"}
       /\ lt \in ready => at[lt] = "off"

\* An lthread that calls lthread_cond_lock() gets the lock, whatever the others
\* do, as long as owners give it up: the list is first in, first out.
LockGranted ==
  \A lt \in Lthreads : at[lt] = "sleep" /\ call[lt] = "lock" ~> at[lt] = "in"
=============================================================================
