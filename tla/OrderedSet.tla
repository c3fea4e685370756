----------------------------- MODULE OrderedSet -----------------------------
(***************************************************************************)
(* What the users of the trees of tree.h count on: a set of elements with  *)
(* different keys.  An element whose key is taken is not inserted, and the *)
(* one that has the key is returned.                                       *)
(***************************************************************************)
EXTENDS Integers

CONSTANTS Elements, Key, NULL

VARIABLES members, answer

Init == members = {} /\ answer = NULL

SameKey(e) == {m \in members : Key[m] = Key[e]}

Insert(e) ==
  /\ e \notin members
  /\ \/ SameKey(e) = {} /\ members' = members \cup {e} /\ answer' = NULL
     \/ answer' \in SameKey(e) /\ UNCHANGED members

Remove(e) ==
  /\ e \in members
  /\ members' = members \ {e} /\ answer' = e

Next == \E e \in Elements : Insert(e) \/ Remove(e)

Spec == Init /\ [][Next]_<<members, answer>>
=============================================================================
