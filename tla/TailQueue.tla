------------------------------ MODULE TailQueue ------------------------------
(***************************************************************************)
(* The tail queues of queue.h, of which the ready queues of the schedulers *)
(* and the list of lthreads blocked on a condition are made: a head with   *)
(* the first element and the address of the last next field, elements with *)
(* the next one and the address of the next field that points to them.     *)
(*                                                                         *)
(* A location is a pair: the tqh_first of a queue or the tqe_next of an    *)
(* element.  `mem' is what the locations hold.  TRASHIT and the checks of  *)
(* QMD_TAILQ_CHECK_... are compiled to nothing; an element that has been   *)
(* removed keeps its pointers.                                             *)
(***************************************************************************)
EXTENDS Pointers, Sequences, SequencesExt

CONSTANTS Queues, Items

ASSUME QueueAssumption == NULL \notin Items

VARIABLES mem,        \* tqh_first of every queue, tqe_next of every element
          tqh_last,   \* a location
          tqe_prev    \* a location

queueVars == <<mem, tqh_last, tqe_prev>>

First(q) == <<"tqh_first", q>>
NextOf(e) == <<"tqe_next", e>>
Locations == {First(q) : q \in Queues} \cup {NextOf(e) : e \in Items}

\* TAILQ_INIT of every queue, of elements that were never queued.
QueueInit ==
  /\ mem = [l \in Locations |-> NULL]
  /\ tqh_last = [q \in Queues |-> First(q)]
  /\ tqe_prev = [e \in Items |-> NULL]

TAILQ_EMPTY(q) == mem[First(q)] = NULL

\* TAILQ_FOREACH: the elements it meets, in their order.
RECURSIVE Walk(_, _)
Walk(l, seen) ==
  IF mem[l] = NULL \/ mem[l] \in seen THEN <<>>
  ELSE <<mem[l]>> \o Walk(NextOf(mem[l]), seen \cup {mem[l]})

TAILQ_FOREACH(q) == Walk(First(q), {})

On(e, q) == e \in ToSet(TAILQ_FOREACH(q))

\* TAILQ_INSERT_AFTER and, for the field of the head, TAILQ_INSERT_HEAD: e comes
\* after the next field l, which is in q.
LinkAfter(q, l, e) ==
  LET next == mem[l] IN
  /\ \A other \in Queues : ~On(e, other)
  /\ mem' = [mem EXCEPT ![NextOf(e)] = next, ![l] = e]
  /\ IF next # NULL
       THEN tqe_prev' = [tqe_prev EXCEPT ![next] = NextOf(e), ![e] = l] /\ UNCHANGED tqh_last
       ELSE tqe_prev' = [tqe_prev EXCEPT ![e] = l] /\ tqh_last' = [tqh_last EXCEPT ![q] = NextOf(e)]

\* Mutant: the new element is linked in front of the others.
TAILQ_INSERT_TAIL_InFront(q, e) == LinkAfter(q, First(q), e)

TAILQ_INSERT_TAIL(q, e) ==
  /\ \A other \in Queues : ~On(e, other)
  /\ mem' = [mem EXCEPT ![NextOf(e)] = NULL, ![tqh_last[q]] = e]
  /\ tqe_prev' = [tqe_prev EXCEPT ![e] = tqh_last[q]]
  /\ tqh_last' = [tqh_last EXCEPT ![q] = NextOf(e)]

\* Mutant: the pointer back of the element after e is left alone.
TAILQ_REMOVE_OneWay(q, e) ==
  /\ On(e, q)
  /\ tqh_last' = IF mem[NextOf(e)] # NULL THEN tqh_last
                 ELSE [tqh_last EXCEPT ![q] = tqe_prev[e]]
  /\ mem' = [mem EXCEPT ![tqe_prev[e]] = mem[NextOf(e)]]
  /\ UNCHANGED tqe_prev

\* Of any element of q: a condition also removes one from the middle.
TAILQ_REMOVE(q, e) ==
  LET next == mem[NextOf(e)] IN
  /\ On(e, q)
  /\ IF next # NULL
       THEN tqe_prev' = [tqe_prev EXCEPT ![next] = tqe_prev[e]] /\ UNCHANGED tqh_last
       ELSE tqh_last' = [tqh_last EXCEPT ![q] = tqe_prev[e]] /\ UNCHANGED tqe_prev
  /\ mem' = [mem EXCEPT ![tqe_prev[e]] = next]

TAILQ_INSERT_HEAD(q, e) == LinkAfter(q, First(q), e)
TAILQ_INSERT_AFTER(q, listelm, e) == On(listelm, q) /\ LinkAfter(q, NextOf(listelm), e)

TAILQ_INSERT_BEFORE(q, listelm, e) ==
  /\ On(listelm, q) /\ \A other \in Queues : ~On(e, other)
  /\ mem' = [mem EXCEPT ![NextOf(e)] = listelm, ![tqe_prev[listelm]] = e]
  /\ tqe_prev' = [tqe_prev EXCEPT ![e] = tqe_prev[listelm], ![listelm] = NextOf(e)]
  /\ UNCHANGED tqh_last

TAILQ_CONCAT(q, r) ==
  /\ q # r /\ ~TAILQ_EMPTY(r)
  /\ mem' = [mem EXCEPT ![tqh_last[q]] = mem[First(r)], ![First(r)] = NULL]
  /\ tqe_prev' = [tqe_prev EXCEPT ![mem[First(r)]] = tqh_last[q]]
  /\ tqh_last' = [tqh_last EXCEPT ![q] = tqh_last[r], ![r] = First(r)]

\* Mutant: an empty queue gets the other's address of a last field.
TAILQ_SWAP_Last(q, r) ==
  LET first == [h \in {q, r} |-> mem[First(IF h = q THEN r ELSE q)]] IN
  /\ q # r
  /\ mem' = [mem EXCEPT ![First(q)] = first[q], ![First(r)] = first[r]]
  /\ tqh_last' = [tqh_last EXCEPT ![q] = tqh_last[r], ![r] = tqh_last[q]]
  /\ tqe_prev' = [e \in Items |-> IF \E h \in {q, r} : first[h] = e
                                    THEN First(CHOOSE h \in {q, r} : first[h] = e)
                                    ELSE tqe_prev[e]]

\* What comes first in one queue is put first in the other, with its pointer back; a
\* queue that gets nothing is made empty.
TAILQ_SWAP(q, r) ==
  LET Other(h) == IF h = q THEN r ELSE q
      first == [h \in {q, r} |-> mem[First(Other(h))]]
  IN /\ q # r
     /\ mem' = [mem EXCEPT ![First(q)] = first[q], ![First(r)] = first[r]]
     /\ tqh_last' = [h \in Queues |-> IF h \notin {q, r} THEN tqh_last[h]
                                      ELSE IF first[h] = NULL THEN First(h)
                                      ELSE tqh_last[Other(h)]]
     /\ tqe_prev' = [e \in Items |-> IF \E h \in {q, r} : first[h] = e
                                       THEN First(CHOOSE h \in {q, r} : first[h] = e)
                                       ELSE tqe_prev[e]]

\* A next field, read as a head, has the pointer back of its element for tqh_last;
\* TAILQ_LAST and TAILQ_PREV go two steps back so and then one forth.
Back(l) == IF \E q \in Queues : l = First(q) THEN tqh_last[l[2]] ELSE tqe_prev[l[2]]

TAILQ_LAST(q) == mem[Back(tqh_last[q])]
TAILQ_PREV(e) == mem[Back(tqe_prev[e])]

QueueNext ==
  \/ \E q \in Queues, e \in Items :
       \/ TAILQ_INSERT_TAIL(q, e) \/ TAILQ_INSERT_HEAD(q, e) \/ TAILQ_REMOVE(q, e)
       \/ \E l \in Items : TAILQ_INSERT_AFTER(q, l, e) \/ TAILQ_INSERT_BEFORE(q, l, e)
  \/ \E q, r \in Queues : TAILQ_CONCAT(q, r) \/ TAILQ_SWAP(q, r)

QueueSpec == QueueInit /\ [][QueueNext]_queueVars

-----------------------------------------------------------------------------
(* Properties *)

\* The way back is the way forth: TAILQ_LAST and TAILQ_PREV, which read a next field
\* as if it were a head, find the elements that TAILQ_FOREACH meets, and a queue
\* that is not walked through is TAILQ_EMPTY.
WalksAgree ==
  \A q \in Queues :
    LET s == TAILQ_FOREACH(q) IN
    /\ TAILQ_LAST(q) = (IF s = <<>> THEN NULL ELSE Last(s))
    /\ \A i \in 1 .. Len(s) : TAILQ_PREV(s[i]) = (IF i = 1 THEN NULL ELSE s[i - 1])
    /\ TAILQ_EMPTY(q) <=> s = <<>>

AsQueues == INSTANCE SeqQueues WITH queues <- [q \in Queues |-> TAILQ_FOREACH(q)]

\* What the queues promise: they are sequences, and each operation does to them
\* what its name says.  What TAILQ_INSERT_TAIL adds comes last, behind everything
\* that was queued before it, so a ready queue and the list of a condition are
\* first in, first out; and no operation on one queue shows in another, whatever
\* the elements were linked to before.
AreSequences ==
  /\ AsQueues!Init
  /\ [][/\ QueueNext
        /\ \A q \in Queues, e \in Items :
             /\ TAILQ_INSERT_TAIL(q, e) => AsQueues!InsertTail(q, e)
             /\ TAILQ_INSERT_HEAD(q, e) => AsQueues!InsertHead(q, e)
             /\ TAILQ_REMOVE(q, e) => AsQueues!TakeOut(q, e)
             /\ \A x \in Items :
                  /\ TAILQ_INSERT_AFTER(q, x, e) => AsQueues!InsertAfter(q, x, e)
                  /\ TAILQ_INSERT_BEFORE(q, x, e) => AsQueues!InsertBefore(q, x, e)
        /\ \A q, r \in Queues :
             /\ TAILQ_CONCAT(q, r) => AsQueues!Concat(q, r)
             /\ TAILQ_SWAP(q, r) => AsQueues!Swap(q, r)]_queueVars
=============================================================================
