------------------------------- MODULE RBTree -------------------------------
(***************************************************************************)
(* The red-black tree that adt_tree.h generates (RB_GENERATE), as operators  *)
(* on its pointers.  A tree is a record of its root, the three pointers of   *)
(* every node as functions of the node, and the set of its red nodes.  The   *)
(* mirrored halves of the C code are one definition with a side.            *)
(***************************************************************************)
EXTENDS Integers, FiniteSets, Functions

CONSTANTS
  Less(_, _),   \* cmp(m, n) < 0
  Nil           \* the NULL pointer

Sides == {"left", "right"}
Opposite(s) == IF s = "left" THEN "right" ELSE "left"

EmptyTree == [root |-> Nil, left |-> <<>>, right |-> <<>>, parent |-> <<>>, red |-> {}]

Nodes(T) == DOMAIN T.parent

\* Whether node n hangs to the left or to the right of its parent.
SideOf(T, n) == IF T.left[T.parent[n]] = n THEN "left" ELSE "right"

SetChild(T, s, n, m) == [T EXCEPT ![s][n] = m]

\* Node m takes the place of node n, which hangs under up.
Replace(T, up, n, m) ==
  IF up = Nil THEN [T EXCEPT !.root = m]
  ELSE SetChild(T, IF T.left[up] = n THEN "left" ELSE "right", up, m)

SetParent(T, n, up) == IF n = Nil THEN T ELSE [T EXCEPT !.parent[n] = up]

Paint(T, black, red) == [T EXCEPT !.red = (@ \ black) \cup red]

\* A loop of the code: what its turns make of the values it starts with.  A turn
\* that finds the condition of the loop false leaves the values as they are, and no
\* loop on a tree takes more turns than the tree has nodes.
Loop(Turn(_), start, T) ==
  LET after[i \in Nat] == IF i = 0 THEN start ELSE Turn(after[i - 1])
  IN after[Cardinality(Nodes(T))]

-----------------------------------------------------------------------------
\* Node y comes up in the place of x, whose child it is, and x goes down on side s.
Lift(T, s, x, y) ==
  LET inner == T[s][y]
      up == T.parent[x]
      moved == SetParent(SetChild(T, Opposite(s), x, inner), inner, x)
      raised == SetParent(Replace(moved, up, x, y), y, up)
  IN SetParent(SetChild(raised, s, y, x), x, y)

\* RB_ROTATE_LEFT for s = "left", RB_ROTATE_RIGHT for s = "right".
Rotate(T, s, x) == Lift(T, s, x, T[Opposite(s)][x])

\* RB_INSERT_COLOR: the red node n hangs under its red parent on the side s on which
\* the parent hangs, or is brought there.
Unbend(T, s, n) ==
  LET up == T.parent[n]
  IN IF T[Opposite(s)][up] = n THEN [tree |-> Rotate(T, s, up), node |-> up]
     ELSE [tree |-> T, node |-> n]

\* The parent comes up, black, in the place of its own parent.
RaiseParent(at, s) ==
  LET up == at.tree.parent[at.node]
      top == at.tree.parent[up]
  IN [at EXCEPT !.tree = Rotate(Paint(at.tree, {up}, {top}), Opposite(s), top)]

\* A turn of the loop: the red node n has a red parent.
InsertColorTurn(at) ==
  LET T == at.tree
      up == T.parent[at.node]
      top == T.parent[up]
      s == SideOf(T, up)
      uncle == T[Opposite(s)][top]
  IN IF up = Nil \/ up \notin T.red THEN at
     ELSE IF uncle \in T.red THEN [tree |-> Paint(T, {uncle, up}, {top}), node |-> top]
     ELSE RaiseParent(Unbend(T, s, at.node), s)

InsertColor(T, n) ==
  LET repaired == Loop(InsertColorTurn, [tree |-> T, node |-> n], T).tree
  IN Paint(repaired, {repaired.root}, {})

\* The search that RB_FIND and RB_INSERT share, a turn: down from the node towards k.
DescendTurn(T, k, at) ==
  IF at.node = Nil THEN at
  ELSE IF Less(k, at.node) THEN [node |-> T.left[at.node], up |-> at.node]
  ELSE IF Less(at.node, k) THEN [node |-> T.right[at.node], up |-> at.node]
  ELSE at

\* The node equal to k, or Nil below the last node of the path.
Descend(T, k) ==
  Loop(LAMBDA at : DescendTurn(T, k, at), [node |-> T.root, up |-> Nil], T)

\* RB_FIND
Find(T, k) == Descend(T, k).node

\* The function f with m for n, which is new to its domain.
With(f, n, m) == [k \in DOMAIN f \cup {n} |-> IF k = n THEN m ELSE f[k]]

\* The red leaf n is hung under up.
AddLeaf(T, up, n) ==
  LET leaf == [T EXCEPT !.left = With(@, n, Nil), !.right = With(@, n, Nil),
                        !.parent = With(@, n, up), !.red = @ \cup {n}]
  IN IF up = Nil THEN [leaf EXCEPT !.root = n]
     ELSE SetChild(leaf, IF Less(n, up) THEN "left" ELSE "right", up, n)

\* RB_INSERT: an equal node leaves the tree as it is.
Insert(T, n) ==
  LET at == Descend(T, n)
  IN IF at.node # Nil THEN T ELSE InsertColor(AddLeaf(T, at.up, n), n)

-----------------------------------------------------------------------------
\* Variant: a removal does not repair the colors.
RemoveColorNot(T, up, n) == T

\* RB_REMOVE_COLOR: the paths through the node on side s of up are one black node
\* short.  A red sibling of that node comes up, so that the sibling is black.
BlackSibling(T, s, up) ==
  LET sibling == T[Opposite(s)][up]
  IN IF sibling \in T.red THEN Rotate(Paint(T, {sibling}, {up}), s, up) ELSE T

\* Of the red children of the sibling, the one away from the node is one.
RedNephew(T, s, up) ==
  LET sibling == T[Opposite(s)][up]
  IN IF T[Opposite(s)][sibling] \in T.red THEN T
     ELSE Rotate(Paint(T, {T[s][sibling]}, {sibling}), Opposite(s), sibling)

\* The sibling takes the place and the color of up.
RaiseSibling(T, s, up) ==
  LET sibling == T[Opposite(s)][up]
      black == {sibling, up, T[Opposite(s)][sibling]}
  IN Rotate(Paint(T, black, IF up \in T.red THEN {sibling} ELSE {}), s, up)

\* A turn of the loop; the node may be Nil, up is its parent.
RemoveColorTurn(at) ==
  LET s == IF at.tree.left[at.up] = at.node THEN "left" ELSE "right"
      T == BlackSibling(at.tree, s, at.up)
      sibling == T[Opposite(s)][at.up]
      raised == RaiseSibling(RedNephew(T, s, at.up), s, at.up)
  IN IF at.node \in at.tree.red \/ at.node = at.tree.root THEN at
     ELSE IF \A z \in Sides : T[z][sibling] \notin T.red
          THEN [tree |-> Paint(T, {}, {sibling}), up |-> T.parent[at.up], node |-> at.up]
     ELSE [tree |-> raised, up |-> Nil, node |-> raised.root]

RemoveColor(T, up, n) ==
  LET repaired == Loop(RemoveColorTurn, [tree |-> T, up |-> up, node |-> n], T)
  IN Paint(repaired.tree, {repaired.node}, {})

\* The last node of the line that goes from n to side s.
Outermost(T, s, n) == Loop(LAMBDA m : IF T[s][m] = Nil THEN m ELSE T[s][m], n, T)

\* Node old leaves the tree's memory.
Forget(T, old) ==
  LET rest == Nodes(T) \ {old}
  IN [T EXCEPT !.left = Restrict(@, rest), !.right = Restrict(@, rest),
               !.parent = Restrict(@, rest), !.red = @ \ {old}]

\* Node n, which has at most one child, is taken out of its place.
Splice(T, n) ==
  LET child == IF T.left[n] = Nil THEN T.right[n] ELSE T.left[n]
  IN Replace(SetParent(T, child, T.parent[n]), T.parent[n], n, child)

\* Variant: the left child of old is not copied.
TransplantRight(T, old, n) ==
  LET copied == [T EXCEPT !.right[n] = T.right[old], !.parent[n] = T.parent[old]]
      colored == Paint(copied, {n}, IF old \in T.red THEN {n} ELSE {})
      hung == Replace(colored, T.parent[old], old, n)
  IN SetParent(SetParent(hung, T.left[old], n), T.right[old], n)

\* (elm)->field = (old)->field: node n takes the place of old.
Transplant(T, old, n) ==
  LET copied == [T EXCEPT !.left[n] = T.left[old], !.right[n] = T.right[old],
                          !.parent[n] = T.parent[old]]
      colored == Paint(copied, {n}, IF old \in T.red THEN {n} ELSE {})
      hung == Replace(colored, T.parent[old], old, n)
  IN SetParent(SetParent(hung, T.left[old], n), T.right[old], n)

\* RB_REMOVE: a node with two children is replaced by its successor.
Remove(T, old) ==
  LET inner == T.left[old] # Nil /\ T.right[old] # Nil
      n == IF inner THEN Outermost(T, "left", T.right[old]) ELSE old
      child == IF T.left[n] = Nil THEN T.right[n] ELSE T.left[n]
      up == IF inner /\ T.parent[n] = old THEN n ELSE T.parent[n]
      spliced == Splice(T, n)
      taken == Forget(IF inner THEN Transplant(spliced, old, n) ELSE spliced, old)
  IN IF n \in T.red THEN taken ELSE RemoveColor(taken, up, child)

-----------------------------------------------------------------------------
\* Variant: the descent stops at the root.
ExtremeRoot(T, s) == T.root

\* RB_MINMAX: RB_MIN for s = "left", RB_MAX for s = "right".
Extreme(T, s) == IF T.root = Nil THEN Nil ELSE Outermost(T, s, T.root)

\* Up from n while it hangs on side s.
ClimbTurn(T, s, m) == IF T.parent[m] # Nil /\ T[s][T.parent[m]] = m THEN T.parent[m] ELSE m

Climb(T, s, n) == T.parent[Loop(LAMBDA m : ClimbTurn(T, s, m), n, T)]

\* RB_NEXT for s = "right", RB_PREV for s = "left".
Step(T, s, n) ==
  IF T[s][n] # Nil THEN Outermost(T, Opposite(s), T[s][n]) ELSE Climb(T, s, n)

\* RB_NFIND, a turn of the loop: best is the last node above k on the path.
NFindTurn(T, k, at) ==
  IF at.node = Nil THEN at
  ELSE IF Less(k, at.node) THEN [node |-> T.left[at.node], best |-> at.node]
  ELSE IF Less(at.node, k) THEN [at EXCEPT !.node = T.right[@]]
  ELSE at

NFind(T, k) ==
  LET end == Loop(LAMBDA at : NFindTurn(T, k, at), [node |-> T.root, best |-> Nil], T)
  IN IF end.node = Nil THEN end.best ELSE end.node

\* RB_FOREACH_SAFE with a removal in its body, a turn: the successor is read before.
ClearTurn(at) ==
  IF at.node = Nil THEN at
  ELSE [tree |-> Remove(at.tree, at.node), node |-> Step(at.tree, "right", at.node)]

Clear(T) == Loop(ClearTurn, [tree |-> T, node |-> Extreme(T, "left")], T).tree
=============================================================================
