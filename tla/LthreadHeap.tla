----------------------------- MODULE LthreadHeap -----------------------------
(***************************************************************************)
(* The binary heap of lthread_heap.h, which nothing includes yet; the      *)
(* comment in _lthread_sched_sleep() has it in view for the sleepers.      *)
(* `arr' is the part of h->arr that is in use, with indices from 0, and    *)
(* its length is h->count.  Memory that realloc() cannot give is left out: *)
(* the code does not look at its answer.  What a heap does once it has     *)
(* been written outside its array is undefined: it has no further steps.   *)
(***************************************************************************)
EXTENDS Integers, FiniteSets, TLC

CONSTANTS Payloads,   \* the data pointers
          HeapKeys,   \* the keys
          MinCapacity, MaxCapacity   \* the arguments of lthread_min_heap_create

ASSUME HeapAssumption == HeapKeys \subseteq Nat /\ MinCapacity \in Nat /\ MaxCapacity \in Nat

VARIABLES arr, capacity,
          out      \* h->arr has been written at or past its capacity

heapVars == <<arr, capacity, out>>

count == Cardinality(DOMAIN arr)

Swapped(a, i, j) == [a EXCEPT ![i] = a[j], ![j] = a[i]]

RECURSIVE heapify_bottom_top(_, _)
heapify_bottom_top(a, index) ==
  LET parent_node == (index - 1) \div 2
  IN IF index = 0 \/ a[parent_node].key <= a[index].key THEN a
     ELSE heapify_bottom_top(Swapped(a, parent_node, index), parent_node)

RECURSIVE heapify_top_bottom(_, _)

\* Mutant: the right child is compared with the parent, not with the left child.
heapify_top_bottom_Right(a, parent_node) ==
  LET left == parent_node * 2 + 1
      right == parent_node * 2 + 2
      m == IF left \in DOMAIN a /\ a[left].key < a[parent_node].key THEN left ELSE parent_node
      min == IF right \in DOMAIN a /\ a[right].key < a[parent_node].key THEN right ELSE m
  IN IF min = parent_node THEN a
     ELSE heapify_top_bottom(Swapped(a, min, parent_node), min)

\* The recursive call is made inside the loop, which then looks at parent_node again.
heapify_top_bottom(a, parent_node) ==
  LET left == parent_node * 2 + 1
      right == parent_node * 2 + 2
      m == IF left \in DOMAIN a /\ a[left].key < a[parent_node].key THEN left ELSE parent_node
      min == IF right \in DOMAIN a /\ a[right].key < a[m].key THEN right ELSE m
  IN IF min = parent_node THEN a
     ELSE heapify_top_bottom(heapify_top_bottom(Swapped(a, min, parent_node), min), parent_node)

\* lthread_min_heap_create
HeapInit == arr = <<>> /\ capacity \in MinCapacity .. MaxCapacity /\ out = FALSE

lthread_min_heap_insert(node) ==
  LET c == IF count = capacity THEN capacity + (capacity + 1) \div 2 ELSE capacity
  IN /\ capacity' = c
     /\ out' = (out \/ count >= c)
     /\ arr' = heapify_bottom_top((count :> node) @@ arr, count)

\* The caller sees to it that there is one.
lthread_min_heap_pop ==
  LET last == count - 1
      rest == [i \in 0 .. last - 1 |-> IF i = 0 THEN arr[last] ELSE arr[i]]
  IN /\ count > 0
     /\ arr' = IF last = 0 THEN <<>> ELSE heapify_top_bottom(rest, 0)
     /\ UNCHANGED <<capacity, out>>

nodes == {arr[i] : i \in DOMAIN arr}

\* What comes after a write outside the array.
Undefined == out /\ UNCHANGED heapVars

HeapNext ==
  \/ ~out /\ \E k \in HeapKeys, p \in Payloads \ {n.data : n \in nodes} :
       lthread_min_heap_insert([key |-> k, data |-> p])
  \/ ~out /\ lthread_min_heap_pop
  \/ Undefined

HeapSpec == HeapInit /\ [][HeapNext]_heapVars

-----------------------------------------------------------------------------
(* Properties *)

\* What a heap that was created with a capacity promises: an insertion adds its
\* node and no other, within the array, and a pop takes out a node of the least
\* key; no node is lost or doubled by the swaps.  A heap that was created with
\* capacity 0 promises nothing: half of capacity + 1 is 0, so it never grows, and
\* its first insertion is a write outside the array.
HeapIsPriorityQueue ==
  [][capacity > 0 =>
       /\ ~out' /\ count' <= capacity'
       /\ \/ \E n \in nodes' : n \notin nodes /\ nodes' = nodes \cup {n} /\ count' = count + 1
          \/ /\ count' = count - 1
             /\ \E n \in nodes : /\ nodes' = nodes \ {n}
                                /\ \A other \in nodes : n.key <= other.key]_heapVars
=============================================================================
