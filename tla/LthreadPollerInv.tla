-------------------------- MODULE LthreadPollerInv --------------------------
(***************************************************************************)
(* The inductive invariant of the poller against any users, PollerInv, and *)
(* the steps of PollerSpec as the proofs take them.                        *)
(*                                                                         *)
(* PollerInv adds to the checked properties what an lthread's place and    *)
(* the place of the poller's thread say of the other fields, and, for      *)
(* programs that use each descriptor one way at a time, that every armed   *)
(* filter and every event still to be handled has its own waiter.          *)
(***************************************************************************)
EXTENDS LthreadPoller

Vars == <<pollerVars, filters, hup>>

Handed == {"eof", "push_ready"}

Events == [filter : Fds \X Dirs, eof : BOOLEAN]

\* The types, but for num_pending_events, which TreeIsKeyed counts.
Types ==
  /\ uses \in [Lthreads -> SUBSET (Fds \X Dirs)]
  /\ state \in [Lthreads -> SUBSET Bits]
  /\ fd_wait \in [Lthreads -> 0 .. Width - 1]
  /\ needs_resched \in [Lthreads -> BOOLEAN]
  /\ waiting \subseteq Lthreads
  /\ poller_fd \in {"open", "closed"}
  /\ at \in [Lthreads -> {"idle", "user", "wait", "register", "switched", "tail",
                          "off", "ready", "done"}]
  /\ arg \in [Lthreads -> (Fds \X Dirs) \cup {NULL}]
  /\ loaded \in [Lthreads -> SUBSET Bits]
  /\ poller_pc \in {"poll", "desched", "eof", "push_ready", "decrement", "done"}
  /\ events \subseteq Events
  /\ event \in Events \cup {NULL}
  /\ ev \in Dirs /\ woken \in BOOLEAN
  /\ event_lt \in Lthreads \cup {NULL}
  /\ failed \in {"none", "state", "insert", "waiter"}
  /\ filters \subseteq Fds \X Dirs

\* What an lthread's place says of its other fields.
LtOK(lt) ==
  /\ needs_resched[lt] => at[lt] \in {"register", "switched", "tail"}
  /\ at[lt] # "tail" => loaded[lt] = {}
  /\ at[lt] \in {"wait", "ready"} \cup Parked => arg[lt] \in uses[lt]

\* A waiter is as it was inserted, and so is what _lthread_resume() is about to
\* store over it; nobody has marked it.
WaiterOK(lt) ==
  /\ at[lt] \in Parked /\ ~needs_resched[lt]
  /\ state[lt] = {BIT(arg[lt][2])} /\ fd_wait[lt] = arg[lt][1] % Width
  /\ at[lt] = "tail" => loaded[lt] = state[lt]

\* What the poller's thread is doing, and to whom.
ThreadOK ==
  /\ event_lt = NULL <=> poller_pc \notin Handed \cup {"decrement"}
  /\ poller_pc \in {"poll", "done"} => events = {}
  /\ event = NULL <=> poller_pc \in {"poll", "done"}
  /\ poller_pc \in Handed =>
       /\ event_lt \notin waiting
       /\ at[event_lt] \in Parked /\ ~needs_resched[event_lt]
       /\ arg[event_lt][1] % Width = event.filter[1] % Width
  /\ poller_pc = "eof" => event.eof

\* The mark EV_EOF of an event tells the truth about its descriptor.
EofKnown ==
  \A e \in events \cup ({event} \ {NULL}) : e.eof => e.filter[1] \in hup

\* No two waiters have one key.
KeysApart ==
  \A lt, other \in waiting :
    arg[lt][1] % Width = arg[other][1] % Width /\ arg[lt][2] = arg[other][2] => lt = other

Counted ==
  num_pending_events = Cardinality(waiting) + (IF event_lt = NULL THEN 0 ELSE 1)

\* The event that is being handled has not yet woken its lthread.
Current == poller_pc = "desched" /\ ~woken

\* Somebody waits for the filter f and has armed it.
Owned(f) == \E lt \in waiting : arg[lt] = f /\ at[lt] # "register"

\* What one use of each descriptor gives: every filter and every event that has
\* not been handled has its own waiter, and a filter is armed or in one event.
Owners ==
  /\ \A f \in filters : Owned(f)
  /\ \A e \in events : Owned(e.filter)
  /\ Current => Owned(event.filter)

Single ==
  /\ \A e \in events : e.filter \notin filters
  /\ \A e, g \in events : e.filter = g.filter => e = g
  /\ Current => event.filter \notin filters /\ \A e \in events : e.filter # event.filter

\* How far the two lookups for an event have come.
Halfway ==
  /\ event # NULL => \E o \in Lthreads : event.filter \in uses[o]
  /\ woken => poller_pc = "desched" /\ ev = "WRITE" /\ event.filter[2] = "READ"
  /\ Current /\ ev = "WRITE" => event.filter[2] = "WRITE"
  /\ poller_pc \in Handed \cup {"decrement"} => event.filter[2] = ev

Meeting ==
  /\ Owners /\ Single /\ Halfway
  /\ \A lt \in Lthreads : at[lt] = "register" => lt \in waiting
  /\ failed \notin {"insert", "waiter"}

\* A step of PollerSpec, action by action.
AnyStep ==
  /\ hup \subseteq hup' /\ UNCHANGED uses
  /\ \/ \E t \in Lthreads :
          \/ Elsewhere(t) \/ BeginWait(t) \/ EndWait(t)
          \/ add_waiting_lthread(t) \/ register_event(t) \/ resume_load(t) \/ resume_store(t)
          \/ desched_event(t)
     \/ lthread_poller_poll \/ poller_done \/ desched_none \/ handle_eof \/ desched_push
     \/ handle_event_return \/ lthread_poller_close
     \/ UNCHANGED <<pollerVars, filters>>

\* What beginning to wait does: an assertion fails, or the lthread is in the tree
\* with one bit set.
AddFails(t) ==
  /\ failed' = "state" \/ (failed' = "insert" /\ Keyed(<<arg[t][1] % Width, arg[t][2]>>) # {})
  /\ UNCHANGED <<ltVars, threadVars, waiting, num_pending_events, poller_fd, filters>>

Added(t) ==
  /\ Keyed(<<arg[t][1] % Width, arg[t][2]>>) = {}
  /\ state' = [state EXCEPT ![t] = {BIT(arg[t][2])}]
  /\ fd_wait' = [fd_wait EXCEPT ![t] = arg[t][1] % Width]
  /\ waiting' = waiting \cup {t}
  /\ num_pending_events' = num_pending_events + 1
  /\ at' = [at EXCEPT ![t] = "register"]
  /\ UNCHANGED <<needs_resched, arg, loaded, threadVars, poller_fd, failed, filters>>

\* The inductive invariant.
PollerInv ==
  /\ Types /\ ThreadOK /\ EofKnown /\ EofIsOwn
  /\ \A lt \in Lthreads : LtOK(lt)
  /\ \A lt \in waiting : WaiterOK(lt)
  /\ KeysApart /\ Counted /\ WaitIsArmed
  /\ OneWay => Meeting
=============================================================================
