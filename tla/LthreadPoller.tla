---------------------------- MODULE LthreadPoller ----------------------------
(***************************************************************************)
(* lthread_poller.c and lthread_kqueue.c: lthreads that wait for a         *)
(* descriptor, the poller's thread that wakes them, and lt->state, which   *)
(* both sides change.                                                      *)
(*                                                                         *)
(* A section under poller->mutex is one step; poller->waiting is the set   *)
(* of its lthreads, looked up by fd_key as RB_FIND does.  The schedulers   *)
(* are left out but for what they do to an lthread that waits: the end of  *)
(* _lthread_resume() after it has switched out, _lthread_desched_event()   *)
(* and its next turn.  `lt->state &= ...' is no atomic operation and       *)
(* _lthread_resume() does not hold poller->mutex: its load and its store   *)
(* are two steps.  The poller's own updates of lt->state are one step each *)
(* (tearing them too adds no outcome, as only _lthread_resume() clears the *)
(* bit it clears, which nobody reads).  An assertion that fails sets       *)
(* `failed', and the program has no further steps.                         *)
(***************************************************************************)
EXTENDS KernelSocket

CONSTANTS Lthreads,   \* the lthreads that call the socket functions
          NULL,       \* the null pointer
          Width,      \* 2^16: lt->fd_wait is an int16_t
          MaxEvents   \* LT_MAX_EVENTS

ASSUME PollerAssumption ==
  /\ NULL \notin Lthreads \cup [filter : Fds \X Dirs, eof : BOOLEAN]
  /\ IsFiniteSet(Lthreads)
  /\ Width \in Nat \ {0} /\ MaxEvents \in Nat \ {0}

VARIABLES
  uses,               \* what the program lets each lthread wait for
  \* struct lthread
  state,              \* its bits WAIT_READ, WAIT_WRITE and FDEOF
  fd_wait,
  needs_resched,
  \* struct lthread_poller
  waiting,
  num_pending_events,
  poller_fd,          \* open or closed
  \* an lthread's place in the code
  at,                 \* idle, user, wait, register, switched, tail, off, ready, done
  arg,                \* the arguments of _lthread_wait_fd()
  loaded,             \* what the end of _lthread_resume() has read of lt->state
  \* the poller's thread
  poller_pc,          \* poll, desched, eof, push_ready, decrement or done
  event,              \* the event that is being handled: its filter and EV_EOF
  events,             \* the events of the eventlist that are still to be handled
  ev,                 \* the direction that is being handled
  woken,              \* has this event woken somebody?
  event_lt,
  failed              \* the assertion that has failed

ltVars == <<state, fd_wait, needs_resched, at, arg, loaded>>
threadVars == <<poller_pc, event, events, ev, woken, event_lt>>
pollerVars == <<uses, ltVars, threadVars, waiting, num_pending_events, poller_fd, failed>>

Bits == {"WAIT_READ", "WAIT_WRITE", "FDEOF"}
BIT(e) == IF e = "READ" THEN "WAIT_READ" ELSE "WAIT_WRITE"

\* lthread_poller_init and lthread_poller_start, and lthreads that run.
PollerInit ==
  /\ uses \in [Lthreads -> SUBSET (Fds \X Dirs)]
  /\ state = [lt \in Lthreads |-> {}]
  /\ fd_wait = [lt \in Lthreads |-> 0]
  /\ needs_resched = [lt \in Lthreads |-> FALSE]
  /\ waiting = {}
  /\ num_pending_events = 0
  /\ poller_fd = "open"
  /\ at \in [Lthreads -> {"idle", "done"}]
  /\ arg = [lt \in Lthreads |-> NULL]
  /\ loaded = [lt \in Lthreads |-> {}]
  /\ poller_pc = "poll" /\ event = NULL /\ events = {}
  /\ ev = "READ" /\ woken = FALSE /\ event_lt = NULL
  /\ failed = "none"

Fail(assertion) ==
  /\ failed' = assertion
  /\ UNCHANGED <<ltVars, threadVars, waiting, num_pending_events, poller_fd, filters>>

-----------------------------------------------------------------------------
(* An lthread that waits *)

\* fd_key: RB_INSERT and RB_FIND compare nothing else.
fd_key(bits, fd) == <<fd % Width, IF "WAIT_READ" \in bits THEN "READ" ELSE "WRITE">>

Keyed(key) == {lt \in waiting : fd_key(state[lt], fd_wait[lt]) = key}

\* _lthread_poller_add_waiting_lthread, with its two assertions.
add_waiting_lthread(lt) ==
  LET fd == arg[lt][1]
      bits == state[lt] \cup {BIT(arg[lt][2])}
  IN /\ at[lt] = "wait"
     /\ \/ /\ state[lt] \cap {"WAIT_READ", "WAIT_WRITE"} # {}
           /\ Fail("state")
        \/ /\ state[lt] \cap {"WAIT_READ", "WAIT_WRITE"} = {}
           /\ Keyed(fd_key(bits, fd)) # {}
           /\ Fail("insert")
        \/ /\ state[lt] \cap {"WAIT_READ", "WAIT_WRITE"} = {}
           /\ Keyed(fd_key(bits, fd)) = {}
           /\ state' = [state EXCEPT ![lt] = bits]
           /\ fd_wait' = [fd_wait EXCEPT ![lt] = fd % Width]
           /\ waiting' = waiting \cup {lt}
           /\ num_pending_events' = num_pending_events + 1
           /\ at' = [at EXCEPT ![lt] = "register"]
           /\ UNCHANGED <<needs_resched, arg, loaded, threadVars, poller_fd,
                          failed, filters>>
     /\ UNCHANGED sockVars

\* Mutant: the filter of a reader is armed whatever the direction.
register_event_ReadOnly(lt) ==
  /\ at[lt] = "register"
  /\ filters' = filters \cup {<<arg[lt][1], "READ">>}
  /\ at' = [at EXCEPT ![lt] = "switched"]
  /\ UNCHANGED <<state, fd_wait, needs_resched, arg, loaded, threadVars, waiting,
                 num_pending_events, poller_fd, failed, sockVars>>

\* _lthread_poller_register_event arms the one-shot filter; _lthread_yield.
register_event(lt) ==
  /\ at[lt] = "register"
  /\ filters' = filters \cup {arg[lt]}
  /\ at' = [at EXCEPT ![lt] = "switched"]
  /\ UNCHANGED <<state, fd_wait, needs_resched, arg, loaded, threadVars, waiting,
                 num_pending_events, poller_fd, failed, sockVars>>

\* The end of _lthread_resume, under sched->mutex: LT_ST_SLEEPING is cleared in
\* what was loaded, and the result stored over what lt->state has become.
resume_load(lt) ==
  /\ at[lt] = "switched"
  /\ loaded' = [loaded EXCEPT ![lt] = state[lt]]
  /\ at' = [at EXCEPT ![lt] = "tail"]
  /\ UNCHANGED <<state, fd_wait, needs_resched, arg, threadVars, waiting,
                 num_pending_events, poller_fd, failed, sockVars, filters>>

\* Mutant: all the bits are cleared.
resume_store_Clears(lt) ==
  /\ at[lt] = "tail"
  /\ state' = [state EXCEPT ![lt] = {}]
  /\ at' = [at EXCEPT ![lt] = IF needs_resched[lt] THEN "ready" ELSE "off"]
  /\ needs_resched' = [needs_resched EXCEPT ![lt] = FALSE]
  /\ loaded' = [loaded EXCEPT ![lt] = {}]
  /\ UNCHANGED <<fd_wait, arg, threadVars, waiting, num_pending_events, poller_fd,
                 failed, sockVars, filters>>

resume_store(lt) ==
  /\ at[lt] = "tail"
  /\ state' = [state EXCEPT ![lt] = loaded[lt]]
  /\ at' = [at EXCEPT ![lt] = IF needs_resched[lt] THEN "ready" ELSE "off"]
  /\ needs_resched' = [needs_resched EXCEPT ![lt] = FALSE]
  /\ loaded' = [loaded EXCEPT ![lt] = {}]
  /\ UNCHANGED <<fd_wait, arg, threadVars, waiting, num_pending_events, poller_fd,
                 failed, sockVars, filters>>

Switched(lt) ==
  add_waiting_lthread(lt) \/ register_event(lt) \/ resume_load(lt) \/ resume_store(lt)

-----------------------------------------------------------------------------
(* The poller's thread *)

\* kevent() returns what is active, up to the length of the eventlist, and takes
\* one-shot filters off.  EINTR is tried again, which is no step.
Batches ==
  {b \in SUBSET Active : /\ b # {} /\ Cardinality(b) <= MaxEvents
                         /\ (b = Active \/ Cardinality(b) = MaxEvents)}

\* The loop of lthread_poller_poll goes on with the event e of es.
Handle(e, es) ==
  /\ event' = e /\ events' = es \ {e}
  /\ ev' = "READ" /\ woken' = FALSE
  /\ poller_pc' = "desched"

\* Mutant: the filters are not one-shot.
lthread_poller_poll_Level ==
  /\ poller_pc = "poll" /\ poller_fd = "open"
  /\ \E batch \in Batches :
       LET es == {[filter |-> f, eof |-> f[1] \in hup] : f \in batch} IN
       /\ UNCHANGED filters
       /\ \E e \in es : Handle(e, es)
  /\ UNCHANGED <<ltVars, event_lt, waiting, num_pending_events, poller_fd, failed,
                 sockVars>>

\* Mutant: an EINTR is an error like the others, which ends the poller's thread.
lthread_poller_poll_Interrupted ==
  /\ poller_pc = "poll" /\ poller_fd = "open"
  /\ poller_pc' = "done"
  /\ UNCHANGED <<ltVars, event, events, ev, woken, event_lt, waiting,
                 num_pending_events, poller_fd, failed, sockVars, filters>>

lthread_poller_poll ==
  /\ poller_pc = "poll" /\ poller_fd = "open"
  /\ \E batch \in Batches :
       LET es == {[filter |-> f, eof |-> f[1] \in hup] : f \in batch} IN
       /\ filters' = filters \ batch
       /\ \E e \in es : Handle(e, es)
  /\ UNCHANGED <<ltVars, event_lt, waiting, num_pending_events, poller_fd, failed,
                 sockVars>>

\* kevent() fails on the descriptor that lthread_poller_close has closed.
poller_done ==
  /\ poller_pc = "poll" /\ poller_fd = "closed"
  /\ poller_pc' = "done"
  /\ UNCHANGED <<ltVars, event, events, ev, woken, event_lt, waiting,
                 num_pending_events, poller_fd, failed, sockVars, filters>>

\* _lthread_poller_handle_event has returned; `any' says if it or the call before
\* it for the same event has found an lthread.
Handled(any) ==
  \/ /\ ev = "READ"
     /\ ev' = "WRITE" /\ woken' = any /\ poller_pc' = "desched"
     /\ UNCHANGED <<event, events, failed>>
  \/ /\ ev = "WRITE" /\ ~any
     /\ failed' = "waiter"
     /\ UNCHANGED <<poller_pc, event, events, ev, woken>>
  \/ /\ ev = "WRITE" /\ any
     /\ \/ \E e \in events : Handle(e, events)
        \/ /\ events = {}
           /\ poller_pc' = "poll" /\ event' = NULL /\ ev' = "READ" /\ woken' = FALSE
           /\ UNCHANGED events
     /\ UNCHANGED failed

\* Mutant: an event that finds nobody is counted off too.
desched_none_Counted ==
  /\ poller_pc = "desched"
  /\ Keyed(<<event.filter[1] % Width, ev>>) = {}
  /\ Handled(woken)
  /\ num_pending_events' = num_pending_events - 1
  /\ UNCHANGED <<ltVars, event_lt, waiting, poller_fd, sockVars,
                 filters>>

\* _lthread_poller_desched_event finds nobody, or takes the waiter out of the tree.
desched_none ==
  /\ poller_pc = "desched"
  /\ Keyed(<<event.filter[1] % Width, ev>>) = {}
  /\ Handled(woken)
  /\ UNCHANGED <<ltVars, event_lt, waiting, num_pending_events, poller_fd, sockVars,
                 filters>>

desched_event(lt) ==
  /\ poller_pc = "desched"
  /\ lt \in Keyed(<<event.filter[1] % Width, ev>>)
  /\ waiting' = waiting \ {lt}
  /\ state' = [state EXCEPT ![lt] = @ \ {BIT(ev)}]
  /\ fd_wait' = [fd_wait EXCEPT ![lt] = (-1) % Width]
  /\ event_lt' = lt
  /\ poller_pc' = IF event.eof THEN "eof" ELSE "push_ready"
  /\ UNCHANGED <<needs_resched, at, arg, loaded, event, events, ev, woken,
                 num_pending_events, poller_fd, failed, sockVars, filters>>

\* lt->state |= BIT(LT_ST_FDEOF), without a mutex.
handle_eof ==
  /\ poller_pc = "eof"
  /\ state' = [state EXCEPT ![event_lt] = @ \cup {"FDEOF"}]
  /\ poller_pc' = "push_ready"
  /\ UNCHANGED <<fd_wait, needs_resched, at, arg, loaded, event, events, ev, woken,
                 event_lt, waiting, num_pending_events, poller_fd, failed, sockVars,
                 filters>>

\* _lthread_desched_event, under sched->mutex: the lthread is marked while it is on
\* its stack, and else queued.
desched_push ==
  LET lt == event_lt IN
  /\ poller_pc = "push_ready"
  /\ \/ /\ at[lt] \in {"register", "switched"}
        /\ needs_resched' = [needs_resched EXCEPT ![lt] = TRUE]
        /\ UNCHANGED at
     \/ /\ at[lt] = "off"
        /\ at' = [at EXCEPT ![lt] = "ready"]
        /\ UNCHANGED needs_resched
  /\ poller_pc' = "decrement"
  /\ UNCHANGED <<state, fd_wait, arg, loaded, event, events, ev, woken, event_lt,
                 waiting, num_pending_events, poller_fd, failed, sockVars, filters>>

handle_event_return ==
  /\ poller_pc = "decrement"
  /\ num_pending_events' = num_pending_events - 1
  /\ event_lt' = NULL
  /\ Handled(TRUE)
  /\ UNCHANGED <<ltVars, waiting, poller_fd, sockVars, filters>>

Poller ==
  \/ lthread_poller_poll \/ poller_done \/ desched_none
  \/ \E lt \in Lthreads : desched_event(lt)
  \/ handle_eof \/ desched_push \/ handle_event_return

\* lthread_run closes the poller when its schedulers have nothing left to do.
lthread_poller_close ==
  /\ poller_fd = "open" /\ num_pending_events = 0
  /\ \A lt \in Lthreads : at[lt] = "done"
  /\ poller_fd' = "closed"
  /\ UNCHANGED <<ltVars, threadVars, waiting, num_pending_events, failed, sockVars,
                 filters>>

-----------------------------------------------------------------------------
(* The poller with any users: an lthread runs outside the poller, waits for a *)
(* descriptor it uses, and goes on when it has its turn again.                *)

Outside == {"idle", "user", "done"}

\* What an lthread's steps outside the poller leave alone.
Quiet == UNCHANGED <<fd_wait, needs_resched, loaded, threadVars, waiting,
                     num_pending_events, poller_fd, failed, filters>>

Elsewhere(lt) ==
  /\ at[lt] \in {"idle", "user"}
  /\ \E place \in Outside : at' = [at EXCEPT ![lt] = place]
  /\ UNCHANGED <<state, arg>> /\ Quiet

\* _lthread_wait_fd(fd, e), up to the poller's mutex.
BeginWait(lt) ==
  /\ at[lt] = "user"
  /\ at' = [at EXCEPT ![lt] = "wait"]
  /\ \E w \in uses[lt] : arg' = [arg EXCEPT ![lt] = w]
  /\ UNCHANGED state /\ Quiet

\* Its next turn, and the end of _lthread_wait_fd.
EndWait(lt) ==
  /\ at[lt] = "ready"
  /\ state' = [state EXCEPT ![lt] = @ \ {"FDEOF"}]
  /\ \E place \in {"idle", "user"} : at' = [at EXCEPT ![lt] = place]
  /\ arg' = [arg EXCEPT ![lt] = NULL]
  /\ Quiet

\* The kernel's sockets may change meanwhile, but a closed connection stays so.
PollerNext ==
  /\ failed = "none" /\ hup \subseteq hup' /\ UNCHANGED uses
  /\ \/ \E lt \in Lthreads : Elsewhere(lt) \/ BeginWait(lt) \/ EndWait(lt)
     \/ \E lt \in Lthreads : Switched(lt)
     \/ Poller \/ lthread_poller_close
     \/ UNCHANGED <<pollerVars, filters>>

PollerSpec ==
  PollerInit /\ filters = {} /\ [][PollerNext]_<<pollerVars, filters, hup>>

-----------------------------------------------------------------------------
(* Properties *)

PollerTypeOK ==
  /\ uses \in [Lthreads -> SUBSET (Fds \X Dirs)]
  /\ state \in [Lthreads -> SUBSET Bits]
  /\ fd_wait \in [Lthreads -> 0 .. Width - 1]
  /\ needs_resched \in [Lthreads -> BOOLEAN]
  /\ waiting \subseteq Lthreads
  /\ num_pending_events \in Nat
  /\ poller_fd \in {"open", "closed"}
  /\ at \in [Lthreads -> {"idle", "user", "wait", "register", "switched", "tail",
                          "off", "ready", "done"}]
  /\ arg \in [Lthreads -> (Fds \X Dirs) \cup {NULL}]
  /\ loaded \in [Lthreads -> SUBSET Bits]
  /\ poller_pc \in {"poll", "desched", "eof", "push_ready", "decrement", "done"}
  /\ events \subseteq [filter : Fds \X Dirs, eof : BOOLEAN]
  /\ event \in [filter : Fds \X Dirs, eof : BOOLEAN] \cup {NULL}
  /\ ev \in Dirs /\ woken \in BOOLEAN
  /\ event_lt \in Lthreads \cup {NULL}
  /\ failed \in {"none", "state", "insert", "waiter"}

Parked == {"register", "switched", "tail", "off"}

\* The tree of waiters can be searched: an lthread in it is inside its wait and
\* has the bits and the fd_wait it was inserted with, whatever the other thread
\* stores into lt->state meanwhile; no two have one key; and
\* num_pending_events counts the tree and the lthread in the poller's hand.
TreeIsKeyed ==
  /\ \A lt \in waiting :
       /\ at[lt] \in Parked
       /\ state[lt] = {BIT(arg[lt][2])}
       /\ fd_wait[lt] = arg[lt][1] % Width
  /\ \A lt, other \in waiting :
       fd_key(state[lt], fd_wait[lt]) = fd_key(state[other], fd_wait[other]) => lt = other
  /\ num_pending_events = Cardinality(waiting) + (IF event_lt = NULL THEN 0 ELSE 1)

\* The event e, or what is left to do of it, still gets to the waiter lt.
Reaches(e, lt) ==
  /\ e.filter[1] = arg[lt][1]
  /\ \/ e \in events
     \/ e = event /\ ev = "READ" /\ (poller_pc = "desched" \/ arg[lt][2] = "WRITE")
     \/ e = event /\ ev = "WRITE" /\ poller_pc = "desched" /\ arg[lt][2] = "WRITE"

\* Nobody waits for nothing: an lthread in the tree that has switched out has its
\* filter armed, or an event for its descriptor is on its way to it.
WaitIsArmed ==
  \A lt \in waiting : at[lt] # "register" =>
    arg[lt] \in filters \/ \E e \in events \cup ({event} \ {NULL}) : Reaches(e, lt)

\* The mark of an end of file is only ever on an lthread that waits, and on a
\* descriptor whose peer has closed, or one that the tree of waiters cannot tell
\* from it: no earlier or other wait leaves it behind.
EofIsOwn ==
  \A lt \in Lthreads : "FDEOF" \in state[lt] \cup loaded[lt] =>
    /\ at[lt] \in Parked \cup {"ready"}
    /\ \E fd \in hup : fd % Width = arg[lt][1] % Width

\* Each descriptor is used by one lthread and in one direction, and no two agree in
\* the bits that fd_wait holds.
OneWay ==
  \A lt, other \in Lthreads : \A w \in uses[lt], v \in uses[other] :
    w[1] % Width = v[1] % Width => lt = other /\ w = v

\* Every wait finds its key free and every event finds a waiter, if each descriptor
\* has one user and one use: the assertions of _lthread_poller_add_waiting_lthread()
\* on RB_INSERT and of lthread_poller_poll() on lt_read and lt_write hold.
EventsMeetWaiters == OneWay => failed \notin {"insert", "waiter"}

\* The assertion of lthread_poller_poll() on lt_read and lt_write holds for every
\* program in which an lthread shares its descriptors with no other.
EventsMeetOwners ==
  (\A lt, other \in Lthreads : \A w \in uses[lt], v \in uses[other] :
     w[1] % Width = v[1] % Width => lt = other) => failed # "waiter"

\* An lthread that starts to wait has none of the bits of a wait in its state:
\* the first assertion of _lthread_poller_add_waiting_lthread() holds.
WaitStartsClean == failed # "state"
=============================================================================
