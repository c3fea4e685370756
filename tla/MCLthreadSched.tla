--------------------------- MODULE MCLthreadSched ---------------------------
(* Instances of LthreadSched for TLC: lthreads are model values. *)
EXTENDS LthreadSched, LthreadSchedInv, TLC

CONSTANTS m, a, b   \* the main lthread and two it may create

MCOne == {m}
MCTwo == {m, a}
MCThree == {m, a, b}

\* The API without lthread_sleep(0) and without timed condition waits.
MCCalls == AllCalls \ {"sleep0", "cond_timed"}

\* The same with lthread_sleep(0).
MCZeroCalls == AllCalls \ {"cond_timed"}

\* The calls of the run on three schedulers (timed waits on conditions that nobody
\* signals), of an lthread that sleeps, and no calls.
MCRingCalls == {"spawn", "cond_timed"}
MCSleepCalls == {"sleep"}
MCNoCalls == {}

\* The lthreads other than the main one are interchangeable.
MCSymmetry == Permutations({a, b})
=============================================================================
