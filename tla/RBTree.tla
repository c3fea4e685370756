------------------------------- MODULE RBTree -------------------------------
(***************************************************************************)
(* The red-black tree of tree.h, as RB_GENERATE makes it for the poller's  *)
(* tree of waiters and for a scheduler's tree of sleepers.                 *)
(*                                                                         *)
(* A tree is a record of its root and of the RB_ENTRY fields of its nodes, *)
(* with rbe_left and rbe_right as one function of the side: the code       *)
(* writes each case out for both sides.  A field of a null pointer is not  *)
(* in the domain, so that the model stops where the code would crash.  The *)
(* fields of a node that is in no tree are left out: RB_SET sets them all  *)
(* before they are read again.  Each operation is one step: its caller     *)
(* holds the mutex of the tree.                                            *)
(***************************************************************************)
EXTENDS Pointers, Integers, FiniteSets, TLC

CONSTANTS Elements,   \* the lthreads
          Key         \* what cmp() compares: fd_key, or sleep_usecs

ASSUME TreeAssumption == NULL \notin Elements /\ Key \in [Elements -> Int]

VARIABLES tree, answer    \* the tree, and what the last operation returned

treeVars == <<tree, answer>>

Sides == {"left", "right"}
Opposite(s) == IF s = "left" THEN "right" ELSE "left"

\* RB_INIT
RB_INIT == [root |-> NULL, child |-> <<>>, parent |-> <<>>, color |-> <<>>]

TreeInit == tree = RB_INIT /\ answer = NULL

IsRed(t, x) == x # NULL /\ t.color[x] = "RED"

\* An assignment through a pointer that the code has tested against NULL.
Colored(t, x, c) == IF x = NULL THEN t ELSE [t EXCEPT !.color[x] = c]
Parented(t, x, p) == IF x = NULL THEN t ELSE [t EXCEPT !.parent[x] = p]

RB_SET_BLACKRED(t, black, red) ==
  [t EXCEPT !.color[black] = "BLACK", !.color[red] = "RED"]

SideOf(t, x, p) == IF t.child[p]["left"] = x THEN "left" ELSE "right"

\* What points down to x is made to point to y: a child of p, or the root.
Replaced(t, x, p, y) ==
  IF p = NULL THEN [t EXCEPT !.root = y] ELSE [t EXCEPT !.child[p][SideOf(t, x, p)] = y]

\* Mutant: the subtree that changes sides keeps its parent.
RB_ROTATE_Orphan(t, elm, s) ==
  LET tmp == t.child[elm][Opposite(s)]
      t1 == [t EXCEPT !.child[elm][Opposite(s)] = t.child[tmp][s], !.parent[tmp] = t.parent[elm]]
      t2 == Replaced(t1, elm, t.parent[elm], tmp)
  IN [t2 EXCEPT !.child[tmp][s] = elm, !.parent[elm] = tmp]

\* RB_ROTATE_LEFT for s = "left", RB_ROTATE_RIGHT for s = "right".
RB_ROTATE(t, elm, s) ==
  LET tmp == t.child[elm][Opposite(s)]
      moved == t.child[tmp][s]
      t1 == Parented([t EXCEPT !.child[elm][Opposite(s)] = moved], moved, elm)
      t2 == Replaced([t1 EXCEPT !.parent[tmp] = t.parent[elm]], elm, t.parent[elm], tmp)
  IN [t2 EXCEPT !.child[tmp][s] = elm, !.parent[elm] = tmp]

-----------------------------------------------------------------------------
(* Insertion *)

RECURSIVE RB_INSERT_COLOR(_, _)
RB_INSERT_COLOR(t, elm) ==
  LET parent == t.parent[elm]
      gparent == t.parent[parent]
      s == SideOf(t, parent, gparent)
      uncle == t.child[gparent][Opposite(s)]
      inner == t.child[parent][Opposite(s)] = elm
      top == IF inner THEN elm ELSE parent
      low == IF inner THEN parent ELSE elm
      t1 == IF inner THEN RB_ROTATE(t, parent, s) ELSE t
  IN IF ~IsRed(t, parent) THEN Colored(t, t.root, "BLACK")
     ELSE IF IsRed(t, uncle)
     THEN RB_INSERT_COLOR(RB_SET_BLACKRED(Colored(t, uncle, "BLACK"), parent, gparent),
                          gparent)
     ELSE RB_INSERT_COLOR(RB_ROTATE(RB_SET_BLACKRED(t1, top, gparent), gparent, Opposite(s)),
                          low)

RECURSIVE Descend(_, _, _, _)

\* Mutant: the way down does not end at a node with the same key.
Descend_Through(t, elm, tmp, parent) ==
  IF tmp = NULL THEN [found |-> tmp, parent |-> parent]
  ELSE Descend(t, elm, t.child[tmp][IF Key[elm] < Key[tmp] THEN "left" ELSE "right"], tmp)

\* The way down from tmp, in search of elm's key: the node that has the key or
\* NULL, and the last node before it.
Descend(t, elm, tmp, parent) ==
  IF tmp = NULL \/ Key[tmp] = Key[elm] THEN [found |-> tmp, parent |-> parent]
  ELSE Descend(t, elm, t.child[tmp][IF Key[elm] < Key[tmp] THEN "left" ELSE "right"], tmp)

\* A new node, with the fields of RB_SET, linked below its parent.
Linked(t, elm, parent) ==
  LET t1 == [root |-> t.root,
             child |-> (elm :> [s \in Sides |-> NULL]) @@ t.child,
             parent |-> (elm :> parent) @@ t.parent,
             color |-> (elm :> "RED") @@ t.color]
  IN IF parent = NULL THEN [t1 EXCEPT !.root = elm]
     ELSE [t1 EXCEPT !.child[parent][IF Key[elm] < Key[parent] THEN "left" ELSE "right"] = elm]

RB_INSERT(elm) ==
  LET at == Descend(tree, elm, tree.root, NULL)
  IN /\ elm \notin DOMAIN tree.color
     /\ answer' = at.found
     /\ tree' = IF at.found # NULL THEN tree
                ELSE RB_INSERT_COLOR(Linked(tree, elm, at.parent), elm)

-----------------------------------------------------------------------------
(* Removal *)

RECURSIVE RB_REMOVE_COLOR(_, _, _)
RB_REMOVE_COLOR(t, parent, elm) ==
  LET s == SideOf(t, elm, parent)
      o == Opposite(s)
      brother == t.child[parent][o]
      t1 == IF t.color[brother] = "RED"
              THEN RB_ROTATE(RB_SET_BLACKRED(t, brother, parent), parent, s) ELSE t
      tmp == t1.child[parent][o]
      t2 == IF IsRed(t1, t1.child[tmp][o]) THEN t1
            ELSE RB_ROTATE([Colored(t1, t1.child[tmp][s], "BLACK") EXCEPT !.color[tmp] = "RED"],
                           tmp, o)
      top == t2.child[parent][o]
      t3 == Colored([t2 EXCEPT !.color[top] = t2.color[parent], !.color[parent] = "BLACK"],
                    t2.child[top][o], "BLACK")
      t4 == RB_ROTATE(t3, parent, s)
  IN IF IsRed(t, elm) \/ elm = t.root THEN Colored(t, elm, "BLACK")
     ELSE IF \A side \in Sides : ~IsRed(t1, t1.child[tmp][side])
     THEN RB_REMOVE_COLOR([t1 EXCEPT !.color[tmp] = "RED"], t1.parent[parent], parent)
     ELSE Colored(t4, t4.root, "BLACK")

RECURSIVE Outermost(_, _, _)
Outermost(t, x, s) == IF t.child[x][s] = NULL THEN x ELSE Outermost(t, t.child[x][s], s)

\* x, which has at most one child, is taken out from under its parent.
Unlinked(t, x, child) == Replaced(Parented(t, child, t.parent[x]), x, t.parent[x], child)

\* elm takes the place, the links and the color of old.
TakesPlace(t, elm, old) ==
  LET t1 == [t EXCEPT !.child[elm] = t.child[old], !.parent[elm] = t.parent[old],
                      !.color[elm] = t.color[old]]
      t2 == Replaced(t1, old, t1.parent[old], elm)
  IN Parented(Parented(t2, t2.child[old]["left"], elm), t2.child[old]["right"], elm)

\* The fields of a node that has left the tree are dropped.
Without(t, x) ==
  LET Drop(f) == [y \in DOMAIN f \ {x} |-> f[y]]
  IN [root |-> t.root, child |-> Drop(t.child), parent |-> Drop(t.parent), color |-> Drop(t.color)]

RB_REMOVE(old) ==
  LET both == \A s \in Sides : tree.child[old][s] # NULL
      elm == IF both THEN Outermost(tree, tree.child[old]["right"], "left") ELSE old
      child == IF tree.child[elm]["left"] = NULL THEN tree.child[elm]["right"]
               ELSE tree.child[elm]["left"]
      t1 == Unlinked(tree, elm, child)
      t2 == IF both THEN TakesPlace(t1, elm, old) ELSE t1
      parent == IF both /\ tree.parent[elm] = old THEN elm ELSE tree.parent[elm]
      t3 == Without(t2, old)
  IN /\ old \in DOMAIN tree.color
     /\ answer' = old
     /\ tree' = IF tree.color[elm] = "BLACK" THEN RB_REMOVE_COLOR(t3, parent, child) ELSE t3

-----------------------------------------------------------------------------
(* Searches *)

RB_FIND(t, elm) == Descend(t, elm, t.root, NULL).found

RECURSIVE NFind(_, _, _, _)
NFind(t, elm, tmp, res) ==
  IF tmp = NULL THEN res
  ELSE IF Key[elm] < Key[tmp] THEN NFind(t, elm, t.child[tmp]["left"], tmp)
  ELSE IF Key[elm] > Key[tmp] THEN NFind(t, elm, t.child[tmp]["right"], res)
  ELSE tmp

RB_NFIND(t, elm) == NFind(t, elm, t.root, NULL)

\* RB_NEXT for s = "right", RB_PREV for s = "left".
RECURSIVE Ascend(_, _, _)
Ascend(t, elm, s) ==
  LET p == t.parent[elm]
  IN IF p # NULL /\ elm = t.child[p][s] THEN Ascend(t, p, s) ELSE p

\* Mutant: without a child on its side, the neighbour is the parent.
RB_STEP_Parent(t, elm, s) ==
  IF t.child[elm][s] # NULL THEN Outermost(t, t.child[elm][s], Opposite(s))
  ELSE t.parent[elm]

RB_STEP(t, elm, s) ==
  IF t.child[elm][s] # NULL THEN Outermost(t, t.child[elm][s], Opposite(s))
  ELSE Ascend(t, elm, s)

RB_MINMAX(t, s) == IF t.root = NULL THEN NULL ELSE Outermost(t, t.root, s)

TreeNext == \E elm \in Elements : RB_INSERT(elm) \/ RB_REMOVE(elm)

TreeSpec == TreeInit /\ [][TreeNext]_treeVars

-----------------------------------------------------------------------------
(* Properties *)

\* The nodes that are reached from x.
RECURSIVE Below(_, _)
Below(t, x) ==
  IF x = NULL THEN {} ELSE {x} \cup Below(t, t.child[x]["left"]) \cup Below(t, t.child[x]["right"])

Members == Below(tree, tree.root)

\* The black nodes on every way down from x.
RECURSIVE BlackHeights(_, _)
BlackHeights(t, x) ==
  IF x = NULL THEN {0}
  ELSE {h + (IF t.color[x] = "BLACK" THEN 1 ELSE 0) :
          h \in BlackHeights(t, t.child[x]["left"]) \cup BlackHeights(t, t.child[x]["right"])}

\* The conditions that the comment at the head of tree.h gives: every path has the
\* same number of black nodes and a red node has a black parent.  With them, every
\* node is linked to its parent both ways and is on its side of it.
RedBlack ==
  /\ DOMAIN tree.color = Members
  /\ Cardinality(BlackHeights(tree, tree.root)) = 1
  /\ ~IsRed(tree, tree.root)
  /\ \A x \in Members, s \in Sides :
       LET c == tree.child[x][s] IN c # NULL =>
         /\ tree.parent[c] = x
         /\ ~(IsRed(tree, x) /\ IsRed(tree, c))
         /\ \A y \in Below(tree, c) : IF s = "left" THEN Key[y] < Key[x] ELSE Key[y] > Key[x]

Extremes(S, s) ==
  {x \in S : \A y \in S : IF s = "left" THEN Key[x] <= Key[y] ELSE Key[x] >= Key[y]}

\* x is the node of S that is first or last in the order, or NULL if S is empty.
IsExtreme(x, S, s) == IF S = {} THEN x = NULL ELSE x \in Extremes(S, s)

\* Every search gives the answer that the keys of the nodes in the tree give.
SearchesAgree ==
  /\ \A s \in Sides : IsExtreme(RB_MINMAX(tree, s), Members, s)
  /\ \A e \in Elements :
       /\ IsExtreme(RB_FIND(tree, e), {m \in Members : Key[m] = Key[e]}, "left")
       /\ IsExtreme(RB_NFIND(tree, e), {m \in Members : Key[m] >= Key[e]}, "left")
  /\ \A m \in Members :
       /\ IsExtreme(RB_STEP(tree, m, "right"), {x \in Members : Key[x] > Key[m]}, "left")
       /\ IsExtreme(RB_STEP(tree, m, "left"), {x \in Members : Key[x] < Key[m]}, "right")

AsSet == INSTANCE OrderedSet WITH members <- Members

\* The tree is an ordered set: what is inserted or removed is what a walk from the
\* root finds more or less, and RB_INSERT returns the node that has the key.
IsOrderedSet == AsSet!Spec
=============================================================================
