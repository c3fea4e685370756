---------------------------- MODULE MCLthreadCond ----------------------------
(***************************************************************************)
(* Two conditions for TLC, which share nothing, and of which a behaviour   *)
(* exercises one: that of the configuration, and one on which three other  *)
(* lthreads may wait with a timeout.  Lthreads are model values.           *)
(***************************************************************************)
EXTENDS LthreadCond, TLC

CONSTANTS a, b, c, d,   \* lthreads of the first condition
          x, y, z       \* lthreads of the second one

VARIABLES which, towner, tlist, tblocked, tresched, tusecs, tat, tcall, tsleeping,
          tready, tcorrupt

timedVars == <<towner, tlist, tblocked, tresched, tusecs, tat, tcall, tsleeping,
               tready, tcorrupt>>

MCThree == {a, b, c}
MCFour == {a, b, c, d}

Timed ==
  INSTANCE LthreadCond
  WITH Lthreads <- {x, y, z}, Timeouts <- TRUE, owner <- towner,
       blocked_lthreads <- tlist, is_blocked <- tblocked, needs_resched <- tresched,
       sleep_usecs <- tusecs, at <- tat, call <- tcall, sleeping <- tsleeping,
       ready <- tready, corrupt <- tcorrupt

bothVars == <<which, vars, timedVars>>

BothNext ==
  /\ UNCHANGED which
  /\ \/ which = "first" /\ Next /\ UNCHANGED timedVars
     \/ which = "timed" /\ Timed!Next /\ UNCHANGED vars

\* The fairness of LthreadCond, for the first condition.
First(action) == which = "first" /\ action /\ UNCHANGED <<which, timedVars>>

BothInit == which \in {"first", "timed"} /\ Init /\ Timed!Init

BothSpec ==
  /\ BothInit
  /\ [][BothNext]_bothVars
  /\ \A lt \in Lthreads :
       WF_bothVars(First(Proceed(lt))) /\ WF_bothVars(First(GiveUp(lt)))

\* The lthreads of the second condition, of which no liveness is asked, are
\* interchangeable.
MCSymmetry == Permutations({x, y, z})

-----------------------------------------------------------------------------
(* What still holds of the second condition, whose waits may time out. *)

\* A timed-out waiter never takes the lock past its owner: whoever is back from
\* lthread_cond_lock() or lthread_cond_wait() holds it, although the wake-up of a
\* timed waiter may come from its timeout, from a signal, or from both.
TimedExclusion == Timed!MutualExclusion

\* A waiter that its timeout has resumed takes itself off the list before it goes
\* on: no is_blocked flag outlives its place on the list, and no lthread is on the
\* list twice.
TimedListed == Timed!BlockedIsListed

\* A timeout never leaves the condition free while an lthread waits to lock it.
TimedNoStuckLocker == Timed!NoStuckLocker
==============================================================================
