------------------------------ MODULE SeqQueues ------------------------------
(***************************************************************************)
(* What the users of the tail queues of queue.h count on: each queue is a  *)
(* sequence, and an element is in one of them at most.  LthreadSched and   *)
(* LthreadCond use their queues as this.                                   *)
(***************************************************************************)
EXTENDS Sequences, SequencesExt

CONSTANTS Queues, Items

VARIABLE queues

Init == queues = [q \in Queues |-> <<>>]

Queued(e) == \E q \in Queues : e \in ToSet(queues[q])

\* The index of x in queue q.
At(q, x) == CHOOSE i \in 1 .. Len(queues[q]) : queues[q][i] = x

\* e, which is in no queue, becomes element i of q.
Insert(q, i, e) ==
  ~Queued(e) /\ queues' = [queues EXCEPT ![q] = InsertAt(@, i, e)]

InsertHead(q, e) == Insert(q, 1, e)
InsertTail(q, e) == Insert(q, Len(queues[q]) + 1, e)
InsertAfter(q, x, e) == x \in ToSet(queues[q]) /\ Insert(q, At(q, x) + 1, e)
InsertBefore(q, x, e) == x \in ToSet(queues[q]) /\ Insert(q, At(q, x), e)

TakeOut(q, e) ==
  e \in ToSet(queues[q]) /\ queues' = [queues EXCEPT ![q] = SelectSeq(@, LAMBDA x : x # e)]

Concat(q, r) ==
  q # r /\ queues' = [queues EXCEPT ![q] = @ \o queues[r], ![r] = <<>>]

Swap(q, r) ==
  q # r /\ queues' = [queues EXCEPT ![q] = queues[r], ![r] = queues[q]]
=============================================================================
