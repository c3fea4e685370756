---------------------------- MODULE MCStructures ----------------------------
(***************************************************************************)
(* An instance of the data structures that the schedulers, the poller and  *)
(* the conditions are built from.  They share nothing: a behaviour         *)
(* exercises one of them and leaves the others as they are.                *)
(***************************************************************************)
EXTENDS RBTree, TailQueue, LthreadHeap, LthreadAlloc

VARIABLE part

vars == <<treeVars, queueVars, heapVars, allocVars, part>>

\* Eight keys, and a ninth element whose key is taken when element 4 is in the tree.
NineKeys == [e \in 1 .. 9 |-> IF e = 9 THEN 4 ELSE e]

Init ==
  /\ part \in {"tree", "queue", "heap", "alloc"}
  /\ TreeInit /\ QueueInit /\ HeapInit /\ AllocInit
  /\ part # "heap" => capacity = MinCapacity
  /\ part # "alloc" => ~minicoro

Next ==
  /\ UNCHANGED part
  /\ \/ part = "tree" /\ TreeNext /\ UNCHANGED <<queueVars, heapVars, allocVars>>
     \/ part = "queue" /\ QueueNext /\ UNCHANGED <<treeVars, heapVars, allocVars>>
     \/ part = "heap" /\ HeapNext /\ UNCHANGED <<treeVars, queueVars, allocVars>>
     \/ part = "alloc" /\ AllocNext /\ UNCHANGED <<treeVars, queueVars, heapVars>>

Spec == Init /\ [][Next]_vars
=============================================================================
