------------------------------ MODULE RBTreeSet ------------------------------
(***************************************************************************)
(* A red-black tree in use: keys are inserted and removed in any order.      *)
(* The tree promises to be the set of the keys inserted and not removed,     *)
(* in order, and to stay balanced.                                          *)
(***************************************************************************)
EXTENDS RBTree, Sequences

CONSTANT Key   \* numbers, and the nodes that hold them

ASSUME KeyAssumption ==
  /\ Nil \notin Key
  /\ \A a, b, c \in Key :
       /\ ~Less(a, a)
       /\ Less(a, b) /\ Less(b, c) => Less(a, c)
       /\ a = b \/ Less(a, b) \/ Less(b, a)

VARIABLES
  tree,
  keys    \* history: the keys inserted and not removed

vars == <<tree, keys>>

Init == tree = EmptyTree /\ keys = {}

InsertKey(k) == tree' = Insert(tree, k) /\ keys' = keys \cup {k}

\* Only a node of the tree is removed.
RemoveKey(k) ==
  /\ Find(tree, k) # Nil
  /\ tree' = Remove(tree, Find(tree, k))
  /\ keys' = keys \ {k}

ClearKeys == tree' = Clear(tree) /\ keys' = {}

Next == ClearKeys \/ \E k \in Key : InsertKey(k) \/ RemoveKey(k)

Spec == Init /\ [][Next]_vars

-----------------------------------------------------------------------------
\* The pointers lead to nodes of the tree, and every node but the root is a child
\* of its parent and the parent of its children: no rotation or removal leaves a pointer to a freed node.
TypeOK ==
  /\ DOMAIN tree.left = Nodes(tree) /\ DOMAIN tree.right = Nodes(tree)
  /\ tree.red \subseteq Nodes(tree) /\ tree.root \in Nodes(tree) \cup {Nil}
  /\ \A n \in Nodes(tree) :
       IF n = tree.root THEN tree.parent[n] = Nil
       ELSE \E s \in Sides : tree[s][tree.parent[n]] = n
  /\ \A n \in Nodes(tree), s \in Sides :
       tree[s][n] = Nil \/ (tree[s][n] \in Nodes(tree) /\ tree.parent[tree[s][n]] = n)

\* The nodes on the path from n to the root.
Path(n) ==
  LET up[i \in Nat] == IF i = 0 THEN n ELSE IF up[i - 1] = Nil THEN Nil ELSE tree.parent[up[i - 1]]
  IN {up[i] : i \in 0 .. Cardinality(Nodes(tree))} \ {Nil}

BlackDepth(n) == Cardinality(Path(n) \ tree.red)

\* The tree is balanced after every sequence of insertions and removals: the root
\* is black, a red node has a black parent, and all paths have as many black nodes.
RedBlack ==
  /\ tree.root \notin tree.red
  /\ \A n \in tree.red : tree.parent[n] \notin tree.red
  /\ Cardinality({BlackDepth(n) : n \in {m \in Nodes(tree) : \E s \in Sides : tree[s][m] = Nil}}) <= 1

\* Find returns the node of every key in the set and no other, NFind the node of
\* the least key not below the one asked for.
Search ==
  \A k \in Key :
    /\ Find(tree, k) = IF k \in keys THEN k ELSE Nil
    /\ LET above == {x \in keys : ~Less(x, k)}
       IN NFind(tree, k) = IF above = {} THEN Nil
                           ELSE CHOOSE x \in above : \A y \in above \ {x} : Less(x, y)

\* The iterations RB_FOREACH and RB_FOREACH_REVERSE.
Walk(s) ==
  LET at[i \in Nat] == IF i = 0 THEN Extreme(tree, Opposite(s))
                       ELSE IF at[i - 1] = Nil THEN Nil ELSE Step(tree, s, at[i - 1])
  IN [i \in 1 .. Cardinality(Nodes(tree)) + 1 |-> at[i - 1]]

\* A walk meets every key once, in order, in both directions, and ends.
Iteration ==
  LET up == Walk("right")
      down == Walk("left")
      size == Cardinality(keys)
  IN /\ Len(up) = size + 1 /\ up[size + 1] = Nil /\ down[size + 1] = Nil
     /\ {up[i] : i \in 1 .. size} = keys
     /\ \A i \in 1 .. size - 1 : Less(up[i], up[i + 1])
     /\ \A i \in 1 .. size : down[i] = up[size + 1 - i]
=============================================================================
