------------------------ MODULE EventQueueTreeProofs ------------------------
(***************************************************************************)
(* quant_event_queue.c on its red-black tree answers as the ordered set of    *)
(* EventQueueSpec, for all events, times and numbers of pushes.  Pf is what   *)
(* RBTreeProofs says of the tree, in the order of event_node_compare.        *)
(***************************************************************************)
EXTENDS EventQueueTree, TLAPS

Pf == INSTANCE RBTreeProofs WITH Less <- Before, Nil <- NULL

-----------------------------------------------------------------------------
(* RBTreeProofs speaks of its own instance of RBTree: the operators are the   *)
(* same.                                                                    *)

\* Both instances of the library count alike.
LEMMA SameCard == \A S : Tree!Cardinality(S) = Pf!Cardinality(S)
  BY DEF Tree!Cardinality, Pf!Cardinality

\* The nodes of a tree.
LEMMA SameNodes == \A T : Tree!Nodes(T) = Pf!Nodes(T)
  BY DEF Tree!Nodes, Pf!Nodes

\* The assignments to a child.
LEMMA SameSetChild == \A T, s, n, m : Tree!SetChild(T, s, n, m) = Pf!SetChild(T, s, n, m)
  BY DEF Tree!SetChild, Pf!SetChild

\* The assignment to a parent.
LEMMA SameSetParent == \A T, n, m : Tree!SetParent(T, n, m) = Pf!SetParent(T, n, m)
  BY DEF Tree!SetParent, Pf!SetParent

\* A node in the place of another.
LEMMA SameReplace == \A T, up, n, m : Tree!Replace(T, up, n, m) = Pf!Replace(T, up, n, m)
  BY SameSetChild DEF Tree!Replace, Pf!Replace

\* The assignments of a rotation.
LEMMA SameLift == \A T, s, x, y : Tree!Lift(T, s, x, y) = Pf!Lift(T, s, x, y)
  BY SameSetChild, SameSetParent, SameReplace DEF Tree!Lift, Pf!Lift, Tree!Opposite, Pf!Opposite

\* A turn of the search.
LEMMA SameDescendTurn == \A T, k, at : Tree!DescendTurn(T, k, at) = Pf!DescendTurn(T, k, at)
  BY DEF Tree!DescendTurn, Pf!DescendTurn

\* The search.
LEMMA SameDescend == \A T, k : Tree!Descend(T, k) = Pf!Descend(T, k)
  BY SameDescendTurn, SameNodes, SameCard DEF Tree!Descend, Pf!Descend, Tree!Loop, Pf!Loop

\* RB_FIND.
LEMMA SameFind == \A T, k : Tree!Find(T, k) = Pf!Find(T, k)
  BY SameDescend DEF Tree!Find, Pf!Find

\* The rotations.
LEMMA SameRotate == \A T, s, x : Tree!Rotate(T, s, x) = Pf!Rotate(T, s, x)
  BY SameLift DEF Tree!Rotate, Pf!Rotate, Tree!Opposite, Pf!Opposite

\* The colors.
LEMMA SamePaint == \A T, b, r : Tree!Paint(T, b, r) = Pf!Paint(T, b, r)
  BY DEF Tree!Paint, Pf!Paint

\* The first rotation of RB_INSERT_COLOR.
LEMMA SameUnbend == \A T, s, n : Tree!Unbend(T, s, n) = Pf!Unbend(T, s, n)
  BY SameRotate DEF Tree!Unbend, Pf!Unbend, Tree!Opposite, Pf!Opposite

\* The second one.
LEMMA SameRaiseParent == \A at, s : Tree!RaiseParent(at, s) = Pf!RaiseParent(at, s)
  BY SameRotate, SamePaint DEF Tree!RaiseParent, Pf!RaiseParent, Tree!Opposite, Pf!Opposite

\* A turn of RB_INSERT_COLOR.
LEMMA SameInsertColorTurn == \A at : Tree!InsertColorTurn(at) = Pf!InsertColorTurn(at)
  BY SameUnbend, SameRaiseParent, SamePaint
    DEF Tree!InsertColorTurn, Pf!InsertColorTurn, Tree!SideOf, Pf!SideOf, Tree!Opposite, Pf!Opposite

\* RB_INSERT_COLOR.
LEMMA SameInsertColor == \A T, n : Tree!InsertColor(T, n) = Pf!InsertColor(T, n)
  BY SameInsertColorTurn, SamePaint, SameNodes, SameCard
    DEF Tree!InsertColor, Pf!InsertColor, Tree!Loop, Pf!Loop

\* A function with one more argument.
LEMMA SameWith == \A f, n, m : Tree!With(f, n, m) = Pf!With(f, n, m)
  BY DEF Tree!With, Pf!With

\* The new leaf of RB_INSERT.
LEMMA SameAddLeaf == \A T, up, n : Tree!AddLeaf(T, up, n) = Pf!AddLeaf(T, up, n)
  BY SameSetChild DEF Tree!AddLeaf, Pf!AddLeaf, Tree!With, Pf!With

\* RB_INSERT.
LEMMA SameInsert == \A T, n : Tree!Insert(T, n) = Pf!Insert(T, n)
  BY SameDescend, SameAddLeaf, SameInsertColor DEF Tree!Insert, Pf!Insert

\* The first step of RB_REMOVE_COLOR.
LEMMA SameBlackSibling == \A T, s, up : Tree!BlackSibling(T, s, up) = Pf!BlackSibling(T, s, up)
  BY SameRotate, SamePaint DEF Tree!BlackSibling, Pf!BlackSibling, Tree!Opposite, Pf!Opposite

\* The second one.
LEMMA SameRedNephew == \A T, s, up : Tree!RedNephew(T, s, up) = Pf!RedNephew(T, s, up)
  BY SameRotate, SamePaint DEF Tree!RedNephew, Pf!RedNephew, Tree!Opposite, Pf!Opposite

\* The last one.
LEMMA SameRaiseSibling == \A T, s, up : Tree!RaiseSibling(T, s, up) = Pf!RaiseSibling(T, s, up)
  BY SameRotate, SamePaint DEF Tree!RaiseSibling, Pf!RaiseSibling, Tree!Opposite, Pf!Opposite

\* The sides.
LEMMA SameOpposite == Tree!Sides = Pf!Sides /\ \A s : Tree!Opposite(s) = Pf!Opposite(s)
  BY DEF Tree!Sides, Pf!Sides, Tree!Opposite, Pf!Opposite

\* A turn of RB_REMOVE_COLOR.
LEMMA SameRemoveColorTurn == \A at : Tree!RemoveColorTurn(at) = Pf!RemoveColorTurn(at)
<1> TAKE at
<1> DEFINE s == IF at.tree.left[at.up] = at.node THEN "left" ELSE "right"
           T == Pf!BlackSibling(at.tree, s, at.up)
           sibling == T[Pf!Opposite(s)][at.up]
           raised == Pf!RaiseSibling(Pf!RedNephew(T, s, at.up), s, at.up)
<1>1. /\ Tree!BlackSibling(at.tree, s, at.up) = T /\ Tree!Opposite(s) = Pf!Opposite(s)
      /\ Tree!RaiseSibling(Tree!RedNephew(T, s, at.up), s, at.up) = raised
      /\ Tree!Paint(T, {}, {sibling}) = Pf!Paint(T, {}, {sibling})
  BY SameBlackSibling, SameRedNephew, SameRaiseSibling, SamePaint, SameOpposite, Zenon
<1> DEFINE Turn(W, m, new, S, P) ==
             IF at.node \in at.tree.red \/ at.node = at.tree.root THEN at
             ELSE IF \A z \in S : W[z][m] \notin W.red
                  THEN [tree |-> P, up |-> W.parent[at.up], node |-> at.up]
             ELSE [tree |-> new, up |-> NULL, node |-> new.root]
<1>2. Pf!RemoveColorTurn(at) = Turn(T, sibling, raised, Pf!Sides, Pf!Paint(T, {}, {sibling}))
  BY DEF Pf!RemoveColorTurn
<1>3. Tree!RemoveColorTurn(at) = Turn(T, sibling, raised, Pf!Sides, Pf!Paint(T, {}, {sibling}))
  <2> DEFINE U == Tree!BlackSibling(at.tree, s, at.up)
             other == U[Tree!Opposite(s)][at.up]
             lifted == Tree!RaiseSibling(Tree!RedNephew(U, s, at.up), s, at.up)
  <2>1. Tree!RemoveColorTurn(at) = Turn(U, other, lifted, Tree!Sides, Tree!Paint(U, {}, {other}))
    BY DEF Tree!RemoveColorTurn
  <2>2. U = T /\ other = sibling /\ lifted = raised
    <3> HIDE DEF s, T, raised
    <3>1. U = T /\ Tree!Opposite(s) = Pf!Opposite(s)
      BY <1>1
    <3> HIDE DEF U
    <3> QED BY <1>1, <3>1
  <2> HIDE DEF U, T, other, sibling, lifted, raised, Turn
  <2>3. Tree!Paint(U, {}, {other}) = Pf!Paint(T, {}, {sibling}) /\ Tree!Sides = Pf!Sides
    BY <2>2, <1>1, SameOpposite, Zenon
  <2> QED BY <2>1, <2>2, <2>3, Zenon
<1> HIDE DEF T, sibling, raised, Turn
<1> QED BY <1>2, <1>3

\* RB_REMOVE_COLOR.
LEMMA SameRemoveColor == \A T, up, n : Tree!RemoveColor(T, up, n) = Pf!RemoveColor(T, up, n)
<1> TAKE T, up, n
<1> DEFINE x == [tree |-> T, up |-> up, node |-> n]
           a == LET after[i \in Nat] == IF i = 0 THEN x ELSE Tree!RemoveColorTurn(after[i - 1])
                IN after[Tree!Cardinality(Tree!Nodes(T))]
           b == LET after[i \in Nat] == IF i = 0 THEN x ELSE Pf!RemoveColorTurn(after[i - 1])
                IN after[Pf!Cardinality(Pf!Nodes(T))]
<1>1. Tree!RemoveColor(T, up, n) = Tree!Paint(a.tree, {a.node}, {})
  BY DEF Tree!RemoveColor, Tree!Loop
<1>2. Pf!RemoveColor(T, up, n) = Pf!Paint(b.tree, {b.node}, {})
  BY DEF Pf!RemoveColor, Pf!Loop
<1>3. a = b
  <2> HIDE DEF x
  <2> QED BY SameRemoveColorTurn, SameNodes, SameCard
<1> HIDE DEF a, b
<1> QED BY <1>1, <1>2, <1>3, SamePaint

\* The walk outwards.
LEMMA SameOutermost == \A T, s, n : Tree!Outermost(T, s, n) = Pf!Outermost(T, s, n)
  BY SameNodes, SameCard DEF Tree!Outermost, Pf!Outermost, Tree!Loop, Pf!Loop

\* A function on fewer arguments.
LEMMA SameRestrict == \A f, S : Tree!Restrict(f, S) = Pf!Restrict(f, S)
  BY DEF Tree!Restrict, Pf!Restrict

\* A node that is freed.
LEMMA SameForget == \A T, old : Tree!Forget(T, old) = Pf!Forget(T, old)
  BY SameNodes, SameRestrict DEF Tree!Forget, Pf!Forget

\* A node taken out of its place.
LEMMA SameSplice == \A T, n : Tree!Splice(T, n) = Pf!Splice(T, n)
  BY SameReplace, SameSetParent DEF Tree!Splice, Pf!Splice

\* A node that gives its place to another.
LEMMA SameTransplant == \A T, old, n : Tree!Transplant(T, old, n) = Pf!Transplant(T, old, n)
  BY SamePaint, SameReplace, SameSetParent DEF Tree!Transplant, Pf!Transplant

\* RB_REMOVE.
LEMMA SameRemove == \A T, old : Tree!Remove(T, old) = Pf!Remove(T, old)
  BY SameOutermost, SameSplice, SameTransplant, SameForget, SameRemoveColor
    DEF Tree!Remove, Pf!Remove

\* RB_MIN and RB_MAX.
LEMMA SameExtreme == \A T, s : Tree!Extreme(T, s) = Pf!Extreme(T, s)
  BY SameOutermost DEF Tree!Extreme, Pf!Extreme

\* A turn of the climb.
LEMMA SameClimbTurn == \A T, s, m : Tree!ClimbTurn(T, s, m) = Pf!ClimbTurn(T, s, m)
  BY DEF Tree!ClimbTurn, Pf!ClimbTurn

\* The climb of RB_NEXT and RB_PREV.
LEMMA SameClimb == \A T, s, n : Tree!Climb(T, s, n) = Pf!Climb(T, s, n)
  BY SameClimbTurn, SameNodes, SameCard DEF Tree!Climb, Pf!Climb, Tree!Loop, Pf!Loop

\* RB_NEXT and RB_PREV.
LEMMA SameStep == \A T, s, n : Tree!Step(T, s, n) = Pf!Step(T, s, n)
  BY SameOutermost, SameClimb DEF Tree!Step, Pf!Step, Tree!Opposite, Pf!Opposite

\* A turn of the clear.
LEMMA SameClearTurn == \A at : Tree!ClearTurn(at) = Pf!ClearTurn(at)
  BY SameRemove, SameStep DEF Tree!ClearTurn, Pf!ClearTurn

\* The clear.
LEMMA SameClear == \A T : Tree!Clear(T) = Pf!Clear(T)
  BY SameClearTurn, SameExtreme, SameNodes, SameCard DEF Tree!Clear, Pf!Clear, Tree!Loop, Pf!Loop

-----------------------------------------------------------------------------
(* What every call keeps, and what the calls answer. *)

\* The nodes of a queue: events with the numbers of their pushes, no number twice.
Numbered(N) ==
  /\ N \subseteq [event : Events, id : Nat]
  /\ \A m, n \in N : m.id = n.id => m = n

\* event_node_compare orders them strictly and totally.
LEMMA InOrder ==
  ASSUME NEW N, Numbered(N)
  PROVE  Pf!OrderOn(N)
<1>1. \A n \in N : n.event.time \in Int /\ n.id \in Int
  BY QueueAssumption DEF Numbered
<1>2. \A m, n \in N : m # n => m.id # n.id
  BY DEF Numbered
<1> QED BY <1>1, <1>2 DEF Pf!OrderOn, Before

\* What every call keeps: a balanced search tree of nodes numbered below the counter.
Kept ==
  /\ refcount \in 0 .. 2 /\ counter \in 1 .. MaxPushes + 1 /\ crashed \in BOOLEAN
  /\ Pf!Good(tree) /\ Numbered(Pf!Nodes(tree))
  /\ \A n \in Pf!Nodes(tree) : n.id \in 1 .. counter - 1

\* The new node of a push comes after all the others.
LEMMA PushIs ==
  ASSUME Kept, NEW e \in Events
  PROVE  LET new == Tree!Insert(tree, Node(e, counter))
         IN Pf!Good(new) /\ Pf!Nodes(new) = Pf!Nodes(tree) \cup {Node(e, counter)}
            /\ Numbered(Pf!Nodes(new))
<1> DEFINE n == Node(e, counter)
           N == Pf!Nodes(tree)
<1>1. n.event = e /\ n.id = counter /\ n \in [event : Events, id : Nat] /\ n # NULL
  BY QueueAssumption DEF Node, Kept
<1>2. \A m \in N : m.id # counter
  BY QueueAssumption DEF Kept
<1> HIDE DEF n
<1>3. Numbered(N \cup {n})
  BY <1>1, <1>2 DEF Kept, Numbered
<1>4. Pf!Good(tree) /\ Pf!OrderOn(N \cup {n})
  BY <1>3, InOrder DEF Kept
<1>5. Pf!Good(Pf!Insert(tree, n)) /\ Pf!Nodes(Pf!Insert(tree, n)) = N \cup {n}
  BY <1>1, <1>4, Pf!InsertIs
<1>6. Tree!Insert(tree, n) = Pf!Insert(tree, n)
  BY SameInsert
<1> QED BY <1>3, <1>5, <1>6 DEF n

\* The search for a node whose number no node has ends at none.
LEMMA NumberNotFound ==
  ASSUME Kept, NEW n \in [event : Events, id : Nat], n.id \notin 1 .. counter - 1
  PROVE  Tree!Find(tree, n) = NULL
<1> DEFINE N == Pf!Nodes(tree)
<1>1. \A m \in N : m.id # n.id
  BY DEF Kept
<1>2. Numbered(N \cup {n}) /\ n \notin N
  BY <1>1 DEF Kept, Numbered
<1>3. Pf!OrderOn(N \cup {n}) /\ Pf!IsFiniteSet(N)
  BY <1>2, InOrder DEF Kept, Pf!Good
<1>4. PICK sub : Pf!Shape(tree, sub)
  BY DEF Kept, Pf!Good
<1>5. Pf!Find(tree, n) = NULL
  BY <1>2, <1>3, <1>4, Pf!FindIs
<1> QED BY <1>5, SameFind

\* The search of a removal is for the number 0.
LEMMA WantedIsNot ==
  ASSUME Kept, NEW e \in Events
  PROVE  Tree!Find(tree, Wanted(e)) = NULL
<1>1. Wanted(e) \in [event : Events, id : Nat] /\ Wanted(e).id = 0
  BY DEF Wanted, Node
<1>2. 0 \notin 1 .. counter - 1
  BY QueueAssumption DEF Kept
<1> QED BY <1>1, <1>2, NumberNotFound

\* The search of a push is for the number of its new node.
LEMMA NewIsNot ==
  ASSUME Kept, NEW e \in Events
  PROVE  Tree!Find(tree, Node(e, counter)) = NULL
<1>1. /\ Node(e, counter) \in [event : Events, id : Nat] /\ Node(e, counter).id = counter
      /\ counter \notin 1 .. counter - 1
  BY QueueAssumption DEF Node, Kept
<1> QED BY <1>1, NumberNotFound

\* rbtree_min answers the node before all the others, and the queue is empty if there is none.
LEMMA LeastIs ==
  ASSUME Kept
  PROVE  /\ Least = NULL <=> Pf!Nodes(tree) = {}
         /\ tree.root = NULL <=> Pf!Nodes(tree) = {}
         /\ Least # NULL => Least \in Pf!Nodes(tree) /\ \A m \in Pf!Nodes(tree) \ {Least} : Before(Least, m)
<1> DEFINE N == Pf!Nodes(tree)
<1>1. PICK sub : Pf!Shape(tree, sub)
  BY DEF Kept, Pf!Good
<1>2. Pf!IsFiniteSet(N)
  BY DEF Kept, Pf!Good
<1>3. "left" \in Pf!Sides
  BY DEF Pf!Sides
<1>4. Pf!IsEnd(N, "left", Pf!Extreme(tree, "left"))
  BY <1>1, <1>2, <1>3, Pf!ExtremeIs
<1>5. Least = Pf!Extreme(tree, "left")
  BY SameExtreme DEF Least
<1>6. NULL \notin N /\ Pf!Sub(sub, tree.root) = N
  BY <1>1 DEF Pf!Shape, Pf!Branches
<1>7. Pf!Sub(sub, tree.root) = N /\ tree.root # NULL => tree.root \in N
  BY <1>1 DEF Pf!Shape, Pf!TreesOn
<1>8. tree.root = NULL <=> N = {}
  BY <1>6, <1>7 DEF Pf!Sub
<1> HIDE DEF N
<1>9. IF Least = NULL THEN N = {} ELSE Least \in N /\ \A a \in N \ {Least} : Before(Least, a)
  BY <1>4, <1>5 DEF Pf!IsEnd, Pf!Toward
<1> QED BY <1>6, <1>8, <1>9 DEF N

\* A removal takes out the node that it is given and no other.
LEMMA PopIs ==
  ASSUME Kept, NEW n \in Pf!Nodes(tree)
  PROVE  LET new == Tree!Remove(tree, n)
         IN Pf!Good(new) /\ Pf!Nodes(new) = Pf!Nodes(tree) \ {n}
<1>1. Pf!Good(Pf!Remove(tree, n)) /\ Pf!Nodes(Pf!Remove(tree, n)) = Pf!Nodes(tree) \ {n}
  BY Pf!RemoveIs DEF Kept
<1> QED BY <1>1, SameRemove

\* A clear empties the queue.
LEMMA ClearedIs ==
  ASSUME Kept
  PROVE  Pf!Good(Tree!Clear(tree)) /\ Pf!Nodes(Tree!Clear(tree)) = {}
<1>1. Pf!Good(Pf!Clear(tree)) /\ Pf!Nodes(Pf!Clear(tree)) = {}
  BY Pf!ClearIs DEF Kept
<1> QED BY <1>1, SameClear

\* Every call keeps it.
LEMMA KeptAlways == Spec => []Kept
<1>1. Init => Kept
  <2> SUFFICES ASSUME Init PROVE Kept
    OBVIOUS
  <2>1. Pf!Good(Pf!EmptyTree) /\ Pf!Nodes(Pf!EmptyTree) = {}
    BY Pf!EmptyTreeIs
  <2>2. Tree!EmptyTree = Pf!EmptyTree
    BY DEF Tree!EmptyTree, Pf!EmptyTree
  <2>3. Pf!Good(tree) /\ Pf!Nodes(tree) = {}
    BY <2>1, <2>2 DEF Init
  <2>4. refcount \in 0 .. 2 /\ counter \in 1 .. MaxPushes + 1 /\ crashed \in BOOLEAN
    <3>1. refcount = 1 /\ counter = 1
      BY DEF Init
    <3>2. crashed = FALSE
      BY DEF Init
    <3>3. refcount \in 0 .. 2 /\ counter \in 1 .. MaxPushes + 1
      BY <3>1, QueueAssumption
    <3> QED BY <3>2, <3>3
  <2>5. Numbered({})
    BY DEF Numbered
  <2> QED BY <2>3, <2>4, <2>5 DEF Kept
<1>2. Kept /\ [Next]_vars => Kept'
  <2> SUFFICES ASSUME Kept, [Next]_vars PROVE Kept'
    OBVIOUS
  <2>1. ASSUME UNCHANGED <<refcount, tree, counter, crashed>> PROVE Kept'
    BY <2>1 DEF Kept
  <2>2. ASSUME NEW e \in Events, PushEvent(e) PROVE Kept'
    <3>1. /\ Pf!Good(tree') /\ Pf!Nodes(tree') = Pf!Nodes(tree) \cup {Node(e, counter)}
          /\ Numbered(Pf!Nodes(tree'))
      BY <2>2, PushIs DEF PushEvent
    <3>2. counter' = counter + 1 /\ counter <= MaxPushes /\ UNCHANGED <<refcount, crashed>>
      BY <2>2 DEF PushEvent
    <3>3. Node(e, counter).id = counter
      BY DEF Node
    <3>4. \A n \in Pf!Nodes(tree') : n.id \in 1 .. counter' - 1
      BY <3>1, <3>2, <3>3, QueueAssumption DEF Kept
    <3> QED BY <3>1, <3>2, <3>4, QueueAssumption DEF Kept
  <2>3. CASE PopEvent
    <3>1. CASE Least = NULL
      BY <2>1, <2>3, <3>1 DEF PopEvent
    <3>2. CASE Least # NULL
      <4>1. tree' = Tree!Remove(tree, Least) /\ Least \in Pf!Nodes(tree)
            /\ UNCHANGED <<refcount, counter, crashed>>
        BY <2>3, <3>2, LeastIs DEF PopEvent
      <4>2. Pf!Good(tree') /\ Pf!Nodes(tree') = Pf!Nodes(tree) \ {Least}
        BY <4>1, PopIs
      <4> QED BY <4>1, <4>2 DEF Kept, Numbered
    <3> QED BY <3>1, <3>2
  <2>4. ASSUME tree' = Tree!Clear(tree), UNCHANGED <<counter, crashed>>, refcount' \in 0 .. 2 PROVE Kept'
    <3>1. Pf!Good(tree') /\ Pf!Nodes(tree') = {}
      BY <2>4, ClearedIs
    <3> QED BY <2>4, <3>1 DEF Kept, Numbered
  <2>5. CASE ClearEvents
    BY <2>4, <2>5 DEF ClearEvents, Kept
  <2>6. ASSUME NEW e \in Events, RemoveEvent(e) PROVE Kept'
    BY <2>1, <2>6, WantedIsNot DEF RemoveEvent
  <2>7. ASSUME NEW i \in 1 .. MaxPushes, RemoveById(i) PROVE Kept'
    BY <2>7 DEF RemoveById, Kept
  <2>8. CASE Ref
    BY <2>8 DEF Ref, Kept
  <2>9. CASE Unref
    <3>1. refcount' \in 0 .. 2 /\ UNCHANGED <<counter, crashed>>
      BY <2>9 DEF Unref, Callable, Kept
    <3>2. CASE refcount = 1
      BY <2>4, <2>9, <3>1, <3>2 DEF Unref
    <3>3. CASE refcount # 1
      BY <2>9, <3>1, <3>3 DEF Unref, Kept
    <3> QED BY <3>2, <3>3
  <2>10. ASSUME NEW e \in Events, PushNoMemory(e) PROVE Kept'
    BY <2>1, <2>10 DEF PushNoMemory
  <2>11. CASE PeekEvent \/ PushNothing
    BY <2>1, <2>11 DEF PeekEvent, PushNothing
  <2>12. CASE AskEmpty
    BY <2>1, <2>12 DEF AskEmpty
  <2>13. CASE Done
    BY <2>1, <2>13 DEF Done, vars
  <2>14. CASE UNCHANGED vars
    BY <2>1, <2>14 DEF vars
  <2> QED BY <2>2, <2>3, <2>5, <2>6, <2>7, <2>8, <2>9, <2>10, <2>11, <2>12, <2>13, <2>14 DEF Next
<1> QED BY <1>1, <1>2, PTL DEF Spec

\* The fields have their types and the nodes of the tree bear ids given out.
THEOREM TypeCorrect == Spec => []TypeOK
<1>1. Kept => TypeOK
  BY SameNodes DEF Kept, Numbered, TypeOK
<1> QED BY <1>1, KeptAlways, PTL

\* The finding of the run eq_remove, for every queue: quant_event_queue_remove never finds an
\* event, leaves the queue as it is and answers -1.
THEOREM RemoveFindsNothing ==
  Spec => [][\A e \in Events : RemoveEvent(e) => last'.answer = [status |-> -1] /\ UNCHANGED tree]_vars
<1>1. ASSUME Kept, NEW e \in Events, RemoveEvent(e)
      PROVE  last'.answer = [status |-> -1] /\ UNCHANGED tree
  BY <1>1, WantedIsNot DEF RemoveEvent, Called
<1>2. Kept /\ [Next]_vars => [\A e \in Events : RemoveEvent(e) => last'.answer = [status |-> -1] /\ UNCHANGED tree]_vars
  BY <1>1
<1> QED BY <1>2, KeptAlways, PTL DEF Spec

\* quant_event_queue_push never answers EDUPLICATE, also for an event that is in the queue:
\* it answers the number of a new node, which the tree then has.
THEOREM PushNeverDuplicate ==
  Spec => [][\A e \in Events : PushEvent(e) =>
                /\ last'.answer = [id |-> counter]
                /\ Node(e, counter) \in Tree!Nodes(tree') \ Tree!Nodes(tree)]_vars
<1>1. ASSUME Kept, NEW e \in Events, PushEvent(e)
      PROVE  /\ last'.answer = [id |-> counter]
             /\ Node(e, counter) \in Tree!Nodes(tree') \ Tree!Nodes(tree)
  <2>1. last'.answer = [id |-> counter]
    BY <1>1, NewIsNot DEF PushEvent, Called
  <2>2. Node(e, counter) \in Pf!Nodes(tree')
    BY <1>1, PushIs DEF PushEvent
  <2>3. Node(e, counter).id = counter
    BY DEF Node
  <2>4. Node(e, counter) \notin Pf!Nodes(tree)
    BY <1>1, <2>3, QueueAssumption DEF Kept
  <2> QED BY <2>1, <2>2, <2>4, SameNodes
<1>2. Kept /\ [Next]_vars => [\A e \in Events : PushEvent(e) =>
                                 /\ last'.answer = [id |-> counter]
                                 /\ Node(e, counter) \in Tree!Nodes(tree') \ Tree!Nodes(tree)]_vars
  BY <1>1
<1> QED BY <1>2, KeptAlways, PTL DEF Spec

\* RB_MIN of the tree is the first node of the abstract queue.
LEMMA FirstIsLeast ==
  ASSUME Kept, NEW x, x.nodes = Pf!Nodes(tree)
  PROVE  /\ Abstract!IsEmpty(x) <=> Least = NULL
         /\ Least # NULL => Abstract!FirstNode(x) = Least
<1> DEFINE N == Pf!Nodes(tree)
<1>1. Abstract!IsEmpty(x) <=> Least = NULL
  BY LeastIs DEF Abstract!IsEmpty
<1>2. ASSUME Least # NULL PROVE Abstract!FirstNode(x) = Least
  <2>1. Least \in N /\ \A m \in N \ {Least} : Before(Least, m)
    BY <1>2, LeastIs
  <2>2. \A m, n : Abstract!Before(m, n) <=> Before(m, n)
    BY DEF Abstract!Before, Before
  <2>3. \A a, b \in N : ~(Before(a, b) /\ Before(b, a))
    <3>1. Pf!OrderOn(N)
      BY InOrder DEF Kept
    <3> QED BY <3>1 DEF Pf!OrderOn
  <2> HIDE DEF N
  <2>4. \A n \in N : (\A m \in N \ {n} : Before(n, m)) => n = Least
    BY <2>1, <2>3
  <2>5. x.nodes = N
    BY DEF N
  <2>6. Abstract!FirstNode(x) = CHOOSE n \in N : \A m \in N \ {n} : Before(n, m)
    BY <2>2, <2>5 DEF Abstract!FirstNode
  <2>7. (CHOOSE n \in N : \A m \in N \ {n} : Before(n, m)) = Least
    BY <2>1, <2>4
  <2> QED BY <2>6, <2>7
<1> QED BY <1>1, <1>2

\* The queue on its tree is the queue of EventQueueSpec, but for the three departures:
\* every other call changes the set of nodes as the specification says, and answers as
\* it does.
THEOREM RefinesQueueHolds == Spec => RefinesQueue
<1> DEFINE N == Pf!Nodes(tree)
           q == queue
<1>1. Init => Abstract!Init
  <2> SUFFICES ASSUME Init PROVE Abstract!Init
    OBVIOUS
  <2>1. Pf!Nodes(Pf!EmptyTree) = {} /\ Tree!EmptyTree = Pf!EmptyTree
    BY Pf!EmptyTreeIs DEF Tree!EmptyTree, Pf!EmptyTree
  <2>2. Tree!Nodes(tree) = {}
    BY <2>1, SameNodes DEF Init
  <2> QED BY <2>2 DEF Init, Abstract!Init, Abstract!EmptyQueue, queue
<1>2. Kept /\ [Next]_vars => [Abstract!Next \/ Departure]_Abstract!specVars
  <2> SUFFICES ASSUME Kept, [Next]_vars PROVE [Abstract!Next \/ Departure]_Abstract!specVars
    OBVIOUS
  <2>1. q.nodes = N /\ q.counter = counter /\ q' = [nodes |-> Pf!Nodes(tree'), counter |-> counter']
    BY SameNodes DEF queue
  <2>2. UNCHANGED <<tree, counter>> => UNCHANGED q
    BY DEF queue
  <2>3. Abstract!IsEmpty(q) <=> Least = NULL
    <3> HIDE DEF q
    <3> QED BY <2>1, FirstIsLeast
  <2>4. Least # NULL => Abstract!FirstNode(q) = Least
    <3> HIDE DEF q
    <3> QED BY <2>1, FirstIsLeast
  <2>5. ASSUME NEW e \in Events, PushEvent(e) PROVE Abstract!PushEvent(e) \/ PushedAgain(e)
    <3>1. Pf!Nodes(tree') = N \cup {Node(e, counter)}
      BY <2>5, PushIs DEF PushEvent
    <3>2. q' = Abstract!Push(q, e) /\ q' = Push(q, e)
      BY <3>1, <2>1, <2>5 DEF PushEvent, Abstract!Push, Abstract!Node, Push, Node
    <3>3. Called("push", e, [id |-> counter]) /\ Abstract!Called("push", e, [id |-> q.counter])
      BY <2>1, <2>5, NewIsNot DEF PushEvent, Called, Abstract!Called
    <3>4. CASE e \in EventsOf(q)
      BY <3>2, <3>3, <3>4 DEF PushedAgain
    <3>5. CASE e \notin EventsOf(q)
      BY <3>2, <3>3, <3>5 DEF Abstract!PushEvent, EventsOf, Abstract!EventsOf
    <3> QED BY <3>4, <3>5
  <2>6. ASSUME NEW e \in Events, PushNoMemory(e) PROVE Abstract!PushEvent(e)
    BY <2>2, <2>6 DEF PushNoMemory, Called, ENOMEM, Abstract!PushEvent, Abstract!Called, Abstract!ENOMEM
  <2>7. CASE PopEvent
    <3>1. CASE Least = NULL
      BY <2>2, <2>3, <2>7, <3>1 DEF PopEvent, Called, Abstract!Next, Abstract!PopEvent, Abstract!Called
    <3>2. CASE Least # NULL
      <4>1. Pf!Nodes(tree') = N \ {Least} /\ counter' = counter
        BY <2>7, <3>2, PopIs, LeastIs DEF PopEvent
      <4>2. q' = Abstract!Rest(q)
        <5>1. q = [nodes |-> N, counter |-> counter]
          BY SameNodes DEF q, queue
        <5>2. Abstract!Rest(q) = [q EXCEPT !.nodes = @ \ {Least}]
          <6> HIDE DEF q
          <6> QED BY <2>4, <3>2 DEF Abstract!Rest
        <5>3. q' = [nodes |-> N \ {Least}, counter |-> counter]
          BY <2>1, <4>1
        <5> HIDE DEF q, N
        <5> QED BY <5>1, <5>2, <5>3
      <4>3. Abstract!First(q) = Least.event
        BY <2>4, <3>2 DEF Abstract!First
      <4> QED BY <2>3, <2>7, <3>2, <4>2, <4>3 DEF PopEvent, Called, Abstract!Next, Abstract!PopEvent, Abstract!Called
    <3> QED BY <3>1, <3>2
  <2>8. CASE PeekEvent
    <3>1. (IF Least = NULL THEN NULL ELSE Least.event)
          = (IF Abstract!IsEmpty(q) THEN NULL ELSE Abstract!First(q))
      BY <2>3, <2>4 DEF Abstract!First
    <3> QED BY <2>2, <2>8, <3>1 DEF PeekEvent, Called, Abstract!Next, Abstract!PeekEvent, Abstract!Called
  <2>9. CASE AskEmpty
    <3>1. (tree.root = NULL) = Abstract!IsEmpty(q)
      BY <2>3, LeastIs DEF Abstract!IsEmpty
    <3> QED BY <2>2, <2>9, <3>1 DEF AskEmpty, Called, Abstract!Next, Abstract!AskEmpty, Abstract!Called
  <2>10. ASSUME tree' = Tree!Clear(tree), UNCHANGED counter, Called("clear", NULL, NULL)
         PROVE  Abstract!ClearEvents
    <3>1. q' = [nodes |-> {}, counter |-> counter]
      BY <2>1, <2>10, ClearedIs
    <3>2. [q EXCEPT !.nodes = {}] = [nodes |-> {}, counter |-> counter]
      BY DEF q, queue
    <3> QED BY <2>10, <3>1, <3>2 DEF Called, Abstract!ClearEvents, Abstract!Called
  <2>11. CASE ClearEvents
    BY <2>10, <2>11 DEF ClearEvents, Abstract!Next
  <2>12. ASSUME NEW e \in Events, RemoveEvent(e)
         PROVE  Abstract!RemoveNode("remove", e, {n \in q.nodes : n.event = e}) \/ NotFound(e)
    <3>1. UNCHANGED q /\ Called("remove", e, [status |-> -1])
      BY <2>2, <2>12, WantedIsNot DEF RemoveEvent
    <3>2. CASE e \in EventsOf(q)
      BY <3>1, <3>2 DEF NotFound
    <3>3. CASE e \notin EventsOf(q)
      <4>1. {n \in q.nodes : n.event = e} = {}
        BY <3>3 DEF EventsOf
      <4> QED BY <3>1, <4>1 DEF Called, Abstract!RemoveNode, Abstract!Called
    <3> QED BY <3>2, <3>3
  <2>13. ASSUME NEW i \in 1 .. MaxPushes, RemoveById(i) PROVE Abstract!Next \/ Departure
    <3>1. CASE tree.root = NULL
      <4>1. {n \in q.nodes : n.id = i} = {}
        BY <2>1, <3>1, LeastIs
      <4>2. Abstract!RemoveNode("remove_by_id", [id |-> i], {n \in q.nodes : n.id = i})
        BY <2>2, <2>13, <3>1, <4>1 DEF RemoveById, Called, Abstract!RemoveNode, Abstract!Called
      <4> QED BY <4>2 DEF Abstract!Next
    <3>2. CASE tree.root # NULL
      <4>1. UNCHANGED q /\ Called("remove_by_id", [id |-> i], NULL)
        BY <2>2, <2>13, <3>2 DEF RemoveById
      <4>2. ~IsEmpty(q)
        BY <2>1, <3>2, LeastIs DEF IsEmpty
      <4> QED BY <4>1, <4>2 DEF NeverReturns, Departure
    <3> QED BY <3>1, <3>2
  <2>14. ASSUME UNCHANGED <<tree, counter, last>> PROVE UNCHANGED Abstract!specVars
    BY <2>2, <2>14 DEF Abstract!specVars, q
  <2>15. CASE Unref
    <3>1. CASE refcount = 1
      BY <2>10, <2>15, <3>1 DEF Unref, Abstract!Next
    <3>2. CASE refcount # 1
      BY <2>14, <2>15, <3>2 DEF Unref
    <3> QED BY <3>1, <3>2
  <2>16. CASE Ref \/ Done \/ UNCHANGED vars
    BY <2>14, <2>16 DEF Ref, Done, vars
  <2>17. CASE PushNothing
    BY <2>2, <2>17 DEF PushNothing, Called, EPARAM, Abstract!Next, Abstract!PushNothing,
       Abstract!Called, Abstract!EPARAM
  <2>18. ASSUME NEW e \in Events,
                \/ Abstract!PushEvent(e) \/ PushedAgain(e) \/ NotFound(e)
                \/ Abstract!RemoveNode("remove", e, {n \in q.nodes : n.event = e})
         PROVE  Abstract!Next \/ Departure
    BY <2>18 DEF Abstract!Next, Departure
  <2> QED BY <2>5, <2>6, <2>7, <2>8, <2>9, <2>11, <2>12, <2>13, <2>15, <2>16, <2>17, <2>18 DEF Next
<1> QED BY <1>1, <1>2, KeptAlways, PTL DEF Spec, RefinesQueue
=============================================================================
