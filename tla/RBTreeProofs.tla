---------------------------- MODULE RBTreeProofs ----------------------------
(***************************************************************************)
(* What the operators of RBTree do to a red-black tree of any size: RB_INSERT *)
(* and RB_REMOVE leave a search tree that is balanced and has exactly the     *)
(* nodes it should, the searches and the iterations answer in order, and a    *)
(* clear ends with an empty tree.  Good(T) is what all of them keep.          *)
(***************************************************************************)
EXTENDS RBTree, FiniteSetTheorems, WellFoundedInduction, TLAPS

-----------------------------------------------------------------------------
(* Trees, their order and their subtrees. *)

\* Node m lies on side s of node n.
Toward(s, m, n) == IF s = "left" THEN Less(m, n) ELSE Less(n, m)

\* Less orders the elements of D strictly and totally.
OrderOn(D) ==
  \A a, b, c \in D :
    /\ ~Less(a, a)
    /\ Less(a, b) /\ Less(b, c) => Less(a, c)
    /\ a = b \/ Less(a, b) \/ Less(b, a)

\* The two sides mirror each other.
LEMMA SidesAre ==
  ASSUME NEW s \in Sides
  PROVE  /\ Opposite(s) \in Sides /\ Opposite(s) # s /\ Opposite(Opposite(s)) = s
         /\ \A z \in Sides : z = s \/ z = Opposite(s)
         /\ \A m, n : Toward(Opposite(s), m, n) <=> Toward(s, n, m)
         /\ s = "left" => Opposite(s) = "right"
         /\ s = "right" => Opposite(s) = "left"
  BY DEF Sides, Opposite, Toward

\* Seen from either side, the nodes are ordered strictly and totally.
LEMMA TowardOrder ==
  ASSUME NEW D, OrderOn(D), NEW s \in Sides, NEW a \in D, NEW b \in D, NEW c \in D
  PROVE  /\ ~Toward(s, a, a)
         /\ ~(Toward(s, a, b) /\ Toward(s, b, a))
         /\ Toward(s, a, b) /\ Toward(s, b, c) => Toward(s, a, c)
         /\ a = b \/ Toward(s, a, b) \/ Toward(s, b, a)
  BY DEF OrderOn, Toward

\* The trees with the nodes D.
TreesOn(D) ==
  [root : D \cup {Nil}, left : [D -> D \cup {Nil}], right : [D -> D \cup {Nil}],
   parent : [D -> D \cup {Nil}], red : SUBSET D]

\* What the fields of such a tree are.
LEMMA Fields ==
  ASSUME NEW D, NEW T \in TreesOn(D)
  PROVE  /\ Nodes(T) = D
         /\ T.root \in D \cup {Nil}
         /\ \A s \in Sides, n \in D : T[s][n] \in D \cup {Nil}
         /\ \A n \in D : T.parent[n] \in D \cup {Nil}
         /\ T.red \subseteq D
  BY DEF TreesOn, Nodes, Sides

\* The nodes of the subtree of n; sub gives them for every node.
Sub(sub, n) == IF n = Nil THEN {} ELSE sub[n]

\* Every node but the root is a child of its parent and the parent of its children.
Linked(T) ==
  /\ T.root # Nil => T.parent[T.root] = Nil
  /\ \A n \in Nodes(T) :
       n = T.root \/ (T.parent[n] \in Nodes(T) /\ \E s \in Sides : T[s][T.parent[n]] = n)
  /\ \A n \in Nodes(T), s \in Sides : T[s][n] = Nil \/ T.parent[T[s][n]] = n

\* sub gives the nodes under every node, and these lie on the side they hang on.
Branches(T, sub) ==
  /\ sub \in [Nodes(T) -> SUBSET Nodes(T)]
  /\ Sub(sub, T.root) = Nodes(T)
  /\ \A n \in Nodes(T), s \in Sides :
       sub[n] = {n} \cup Sub(sub, T[s][n]) \cup Sub(sub, T[Opposite(s)][n])
  /\ \A n \in Nodes(T), s \in Sides : \A m \in Sub(sub, T[s][n]) : Toward(s, m, n)

\* T is a search tree whose subtrees sub gives.
Shape(T, sub) ==
  T \in TreesOn(Nodes(T)) /\ Nil \notin Nodes(T) /\ OrderOn(Nodes(T)) /\ Linked(T) /\ Branches(T, sub)

\* Painting nodes changes nothing but their colors.
LEMMA PaintShape ==
  ASSUME NEW T, NEW sub, Shape(T, sub), NEW b, NEW r \in SUBSET Nodes(T)
  PROVE  /\ Shape(Paint(T, b, r), sub) /\ Nodes(Paint(T, b, r)) = Nodes(T)
         /\ Paint(T, b, r).root = T.root /\ Paint(T, b, r).parent = T.parent
         /\ \A s \in Sides : Paint(T, b, r)[s] = T[s]
         /\ Paint(T, b, r).red = (T.red \ b) \cup r
<1> DEFINE P == Paint(T, b, r)
           D == Nodes(T)
<1>1. /\ P \in TreesOn(D) /\ P.root = T.root /\ P.parent = T.parent /\ P.left = T.left /\ P.right = T.right
      /\ P.red = (T.red \ b) \cup r
  BY DEF Shape, Paint, TreesOn
<1>2. \A s \in Sides : P[s] = T[s]
  BY <1>1 DEF Sides
<1>3. Nodes(P) = D
  BY <1>1 DEF Nodes
<1> HIDE DEF P, D
<1>4. Linked(P)
  BY <1>1, <1>2, <1>3 DEF D, Shape, Linked
<1>5. Branches(P, sub)
  BY <1>1, <1>2, <1>3, SidesAre, Zenon DEF D, Shape, Branches
<1> QED BY <1>1, <1>2, <1>3, <1>4, <1>5 DEF D, P, Shape

\* Distinct nodes of a tree.
LEMMA Kin ==
  ASSUME NEW T, NEW sub, Shape(T, sub), NEW n \in Nodes(T)
  PROVE  /\ n \in sub[n] /\ sub[n] \subseteq Nodes(T)
         /\ \A s \in Sides : T[s][n] \in Nodes(T) \cup {Nil} /\ T[s][n] # n
         /\ \A s \in Sides : n \notin Sub(sub, T[s][n]) /\ Sub(sub, T[s][n]) \subseteq sub[n]
         /\ \A s \in Sides : Sub(sub, T[s][n]) \cap Sub(sub, T[Opposite(s)][n]) = {}
         /\ \A s \in Sides : T[s][n] # Nil =>
              /\ T[s][n] # T.root /\ T[s][n] # T.parent[n] /\ T.parent[T[s][n]] = n
              /\ T[s][n] \in Sub(sub, T[s][n]) /\ T[Opposite(s)][n] # T[s][n]
         /\ T.parent[n] \in Nodes(T) \cup {Nil} /\ T.parent[n] # n
         /\ (n # T.root <=> T.parent[n] \in Nodes(T)) /\ (n = T.root <=> T.parent[n] = Nil)
         /\ n # T.root => \E s \in Sides : T[s][T.parent[n]] = n
<1> DEFINE D == Nodes(T)
<1>1. T \in TreesOn(D) /\ Nil \notin D /\ OrderOn(D) /\ Linked(T) /\ Branches(T, sub)
  BY DEF Shape
<1>2. /\ T.root \in D \cup {Nil}
      /\ \A s \in Sides, m \in D : T[s][m] \in D \cup {Nil}
      /\ \A m \in D : T.parent[m] \in D \cup {Nil}
  BY <1>1, Fields
<1>3. /\ sub \in [D -> SUBSET D]
      /\ \A m \in D, s \in Sides : sub[m] = {m} \cup Sub(sub, T[s][m]) \cup Sub(sub, T[Opposite(s)][m])
      /\ \A m \in D, s \in Sides : \A k \in Sub(sub, T[s][m]) : Toward(s, k, m)
  BY <1>1 DEF Branches
<1> HIDE DEF D
<1>4. \A m \in D : m \in sub[m] /\ sub[m] \subseteq D
  BY <1>3 DEF Sides
<1>5. \A m \in D, s \in Sides : Sub(sub, T[s][m]) \subseteq D /\ Sub(sub, T[s][m]) \subseteq sub[m] 
  BY <1>2, <1>3, <1>4 DEF Sub
<1>6. \A m \in D, s \in Sides : m \notin Sub(sub, T[s][m])
  BY <1>3, <1>1, TowardOrder
<1>7. \A m \in D, s \in Sides : Sub(sub, T[s][m]) \cap Sub(sub, T[Opposite(s)][m]) = {}
  BY <1>3, <1>1, <1>5, TowardOrder, SidesAre
<1>8. \A m \in D, s \in Sides : T[s][m] # Nil => T[s][m] \in Sub(sub, T[s][m]) /\ T[s][m] # m
  BY <1>2, <1>4, <1>6 DEF Sub
<1>9. \A m \in D, s \in Sides : T[s][m] # Nil => T.parent[T[s][m]] = m /\ T[s][m] # T.root
  BY <1>1, <1>2 DEF Linked, D
<1>10. /\ n # T.root <=> T.parent[n] \in D
       /\ n = T.root <=> T.parent[n] = Nil
       /\ n # T.root => \E s \in Sides : T[s][T.parent[n]] = n
  BY <1>1, <1>2 DEF Linked, D
<1>11. T.parent[n] # n
  BY <1>8, <1>10, <1>1 DEF D
<1>12. ASSUME NEW s \in Sides, T[s][n] # Nil PROVE T[s][n] # T.parent[n]
  <2>1. CASE n = T.root
    BY <2>1, <1>10, <1>12
  <2>2. CASE n # T.root
    <3>1. PICK z \in Sides : T[z][T.parent[n]] = n
      BY <2>2, <1>10
    <3>2. T.parent[n] \notin Sub(sub, n)
      BY <3>1, <2>2, <1>10, <1>6
    <3>3. T[s][n] \in sub[n] /\ Sub(sub, n) = sub[n]
      BY <1>12, <1>8, <1>5, <1>1 DEF Sub, D
    <3> QED BY <3>2, <3>3
  <2> QED BY <2>1, <2>2
<1>13. ASSUME NEW s \in Sides, T[s][n] # Nil PROVE T[Opposite(s)][n] # T[s][n]
  <2>1. T[s][n] \in Sub(sub, T[s][n])
    BY <1>8, <1>13 DEF D
  <2>2. Sub(sub, T[s][n]) \cap Sub(sub, T[Opposite(s)][n]) = {}
    BY <1>7 DEF D
  <2> QED BY <2>1, <2>2
<1>14. \A s \in Sides : T[s][n] \in D \cup {Nil} /\ T[s][n] # n
  BY <1>1, <1>2, <1>8 DEF D
<1> QED BY <1>2, <1>4, <1>5, <1>6, <1>7, <1>8, <1>9, <1>10, <1>11, <1>12, <1>13, <1>14 DEF D

-----------------------------------------------------------------------------
(* The operations on pointers, and the rotations. *)

\* What a rotation changes.
Rotated(T, s, x, T2) ==
  LET o == Opposite(s)
      y == T[o][x]
  IN /\ T2 \in TreesOn(Nodes(T))
     /\ T2.red = T.red
     /\ T2.root = IF x = T.root THEN y ELSE T.root
     /\ \A n \in Nodes(T) : T2[o][n] = IF n = x THEN T[s][y] ELSE IF T[o][n] = x THEN y ELSE T[o][n]
     /\ \A n \in Nodes(T) : T2[s][n] = IF n = y THEN x ELSE IF T[s][n] = x THEN y ELSE T[s][n]
     /\ \A n \in Nodes(T) :
          T2.parent[n] = IF n = x THEN y ELSE IF n = y THEN T.parent[x]
                         ELSE IF n = T[s][y] THEN x ELSE T.parent[n]

\* P is T with m as the child of n on side s.
ChildSet(D, T, s, n, m, P) ==
  /\ P \in TreesOn(D) /\ P.root = T.root /\ P.parent = T.parent /\ P.red = T.red
  /\ P[s] = [T[s] EXCEPT ![n] = m] /\ P[Opposite(s)] = T[Opposite(s)]

\* P is T with m as the parent of n, if n is a node.
ParentSet(D, T, n, m, P) ==
  /\ P \in TreesOn(D) /\ P.root = T.root /\ P.red = T.red
  /\ \A s \in Sides : P[s] = T[s]
  /\ \A k \in D : P.parent[k] = IF k = n THEN m ELSE T.parent[k]

\* P is T with m in the place of n, a child of up or the root.
Replaced(D, T, up, n, m, P) ==
  /\ P \in TreesOn(D) /\ P.parent = T.parent /\ P.red = T.red
  /\ P.root = IF up = Nil THEN m ELSE T.root
  /\ \A s \in Sides, k \in D : P[s][k] = IF k = up /\ T[s][k] = n THEN m ELSE T[s][k]

\* n hangs under up on one side.
Hangs(T, up, n) == \E z \in Sides : T[z][up] = n /\ T[Opposite(z)][up] # n

\* SetChild does this.
LEMMA SetChildIs ==
  ASSUME NEW D, NEW T \in TreesOn(D), NEW s \in Sides, NEW n \in D, NEW m \in D \cup {Nil}
  PROVE  ChildSet(D, T, s, n, m, SetChild(T, s, n, m))
  BY DEF TreesOn, Sides, Opposite, SetChild, ChildSet

\* SetParent does this.
LEMMA SetParentIs ==
  ASSUME NEW D, Nil \notin D, NEW T \in TreesOn(D), NEW n \in D \cup {Nil}, NEW m \in D \cup {Nil}
  PROVE  ParentSet(D, T, n, m, SetParent(T, n, m))
  BY DEF TreesOn, Sides, SetParent, ParentSet

\* Replace does this to a node that hangs under up.
LEMMA ReplaceIs ==
  ASSUME NEW D, Nil \notin D, NEW T \in TreesOn(D), NEW up \in D \cup {Nil}, NEW n \in D, NEW m \in D \cup {Nil},
         up # Nil => Hangs(T, up, n)
  PROVE  Replaced(D, T, up, n, m, Replace(T, up, n, m))
<1> DEFINE P == Replace(T, up, n, m)
<1>1. CASE up = Nil
  BY <1>1 DEF TreesOn, Replace, Sides, Replaced
<1>2. CASE up # Nil
  <2>1. up \in D
    BY <1>2
  <2>2. PICK z \in Sides : T[z][up] = n /\ T[Opposite(z)][up] # n
    BY <1>2 DEF Hangs
  <2>3. (IF T.left[up] = n THEN "left" ELSE "right") = z
    BY <2>2 DEF Sides, Opposite
  <2>4. P = SetChild(T, z, up, m)
    BY <1>2, <2>3 DEF Replace
  <2>5. /\ P \in TreesOn(D) /\ P.root = T.root /\ P.parent = T.parent /\ P.red = T.red
        /\ P[z] = [T[z] EXCEPT ![up] = m] /\ P[Opposite(z)] = T[Opposite(z)]
    BY <2>1, <2>4, SetChildIs DEF ChildSet
  <2>6. T[z] \in [D -> D \cup {Nil}]
    BY DEF TreesOn, Sides
  <2>7. ASSUME NEW s \in Sides, NEW k \in D PROVE P[s][k] = IF k = up /\ T[s][k] = n THEN m ELSE T[s][k]
    <3>1. CASE s = z
      BY <3>1, <2>2, <2>5, <2>6
    <3>2. CASE s = Opposite(z)
      BY <3>2, <2>2, <2>5, <2>6
    <3> QED BY <3>1, <3>2, SidesAre
  <2> QED BY <1>2, <2>5, <2>7 DEF Replaced
<1> QED BY <1>1, <1>2

\* Rotate does this: the five assignments of the macro, one after the other.
LEMMA RotateIs ==
  ASSUME NEW T, NEW sub, Shape(T, sub), NEW s \in Sides, NEW x \in Nodes(T), T[Opposite(s)][x] # Nil
  PROVE  Rotated(T, s, x, Rotate(T, s, x))
<1> DEFINE D == Nodes(T)
           o == Opposite(s)
           y == T[o][x]
           inner == T[s][y]
           up == T.parent[x]
<1>1. T \in TreesOn(D) /\ Nil \notin D
  BY DEF Shape
<1>2. o \in Sides /\ o # s /\ Opposite(o) = s /\ \A z \in Sides : z = s \/ z = o
  BY SidesAre
<1>3. y \in D /\ inner \in D \cup {Nil} /\ up \in D \cup {Nil}
  BY <1>1, <1>2, Fields
<1>4. x # y /\ y # up /\ x # up /\ inner # y /\ inner # x
  <2>1. x # y /\ y # up /\ T.parent[y] = x /\ x # up
    BY <1>2, Kin
  <2>2. inner # y /\ (inner # Nil => inner # T.parent[y])
    BY <1>3, Kin
  <2> QED BY <2>1, <2>2, <1>1
<1>5. up # Nil => x # T.root /\ Hangs(T, up, x)
  <2>1. SUFFICES ASSUME up # Nil PROVE x # T.root /\ Hangs(T, up, x)
    OBVIOUS
  <2>2. x # T.root /\ \E z \in Sides : T[z][up] = x
    BY <2>1, Kin
  <2>3. PICK z \in Sides : T[z][up] = x
    BY <2>2
  <2>4. T[Opposite(z)][up] # T[z][up]
    <3>1. T[z][up] # Nil /\ up \in D
      BY <2>1, <2>3, <1>1, <1>3
    <3> QED BY <3>1, Kin
  <2> QED BY <2>2, <2>3, <2>4 DEF Hangs
<1>6. up = Nil <=> x = T.root
  BY Kin
<1>0. o = Opposite(s) /\ inner = T[s][y] /\ up = T.parent[x] /\ Rotate(T, s, x) = Lift(T, s, x, y)
  BY DEF Rotate
<1> HIDE DEF D, o, y, inner, up
<1> DEFINE A == SetChild(T, o, x, inner)
           B == SetParent(A, inner, x)
           C == Replace(B, up, x, y)
           E1 == SetParent(C, y, up)
           E2 == SetChild(E1, s, y, x)
           E == SetParent(E2, x, y)
<1>16. Rotate(T, s, x) = E
  BY <1>0 DEF Lift
<1>x. x \in D
  BY DEF D
<1>7. ChildSet(D, T, o, x, inner, A)
  BY <1>1, <1>2, <1>3, <1>x, SetChildIs
<1>8. T[o] \in [D -> D \cup {Nil}] /\ T[s] \in [D -> D \cup {Nil}]
  BY <1>1, <1>2 DEF TreesOn, Sides
<1> HIDE DEF A
<1>9. /\ A \in TreesOn(D) /\ A.root = T.root /\ A.parent = T.parent /\ A.red = T.red
      /\ \A n \in D : A[o][n] = (IF n = x THEN inner ELSE T[o][n]) /\ A[s][n] = T[s][n]
  BY <1>2, <1>7, <1>8 DEF ChildSet
<1>10. ParentSet(D, A, inner, x, B)
  BY <1>1, <1>3, <1>9, <1>x, SetParentIs
<1> HIDE DEF B
<1>11. up # Nil => Hangs(B, up, x)
  <2>1. ASSUME NEW z \in Sides, up # Nil PROVE B[z][up] = T[z][up]
    BY <2>1, <1>2, <1>3, <1>4, <1>9, <1>10 DEF ParentSet
  <2> QED BY <1>5, <2>1, SidesAre DEF Hangs
<1>12. Replaced(D, B, up, x, y, C)
  <2>1. B \in TreesOn(D)
    BY <1>10 DEF ParentSet
  <2> QED BY <1>1, <1>3, <1>x, <2>1, <1>11, ReplaceIs
<1> HIDE DEF C
<1>13. C \in TreesOn(D) /\ ParentSet(D, C, y, up, E1)
  <2>1. C \in TreesOn(D)
    BY <1>12 DEF Replaced
  <2> QED BY <2>1, <1>1, <1>3, SetParentIs
<1> HIDE DEF E1
<1>14. E1 \in TreesOn(D) /\ ChildSet(D, E1, s, y, x, E2)
  <2>1. E1 \in TreesOn(D)
    BY <1>13 DEF ParentSet
  <2> QED BY <2>1, <1>3, <1>x, SetChildIs
<1> HIDE DEF E2
<1>15. E2 \in TreesOn(D) /\ ParentSet(D, E2, x, y, E)
  <2>1. E2 \in TreesOn(D)
    BY <1>14 DEF ChildSet
  <2> QED BY <2>1, <1>1, <1>3, <1>x, SetParentIs
<1> HIDE DEF E
<1>17. E1[s] \in [D -> D \cup {Nil}]
  BY <1>14 DEF TreesOn, Sides
<1>18. /\ \A n \in D : E[o][n] = C[o][n]
       /\ \A n \in D : E[s][n] = IF n = y THEN x ELSE C[s][n]
       /\ \A n \in D : E.parent[n] = IF n = x THEN y ELSE IF n = y THEN up ELSE B.parent[n]
  <2>1. ASSUME NEW n \in D PROVE E[o][n] = C[o][n]
    BY <1>2, <1>13, <1>14, <1>15 DEF ChildSet, ParentSet, o
  <2>2. ASSUME NEW n \in D PROVE E[s][n] = IF n = y THEN x ELSE C[s][n]
    <3>1. E[s] = [E1[s] EXCEPT ![y] = x] /\ E1[s] = C[s]
      BY <1>2, <1>13, <1>14, <1>15 DEF ChildSet, ParentSet
    <3> QED BY <3>1, <1>17
  <2>3. ASSUME NEW n \in D PROVE E.parent[n] = IF n = x THEN y ELSE IF n = y THEN up ELSE B.parent[n]
    BY <1>12, <1>13, <1>14, <1>15 DEF ChildSet, ParentSet, Replaced
  <2> QED BY <2>1, <2>2, <2>3
<1>19. \A z \in Sides, n \in D : T[z][n] = x => n = up
  BY <1>1, Kin DEF D, up
<1>20. ASSUME NEW z \in Sides, NEW n \in D
       PROVE  C[z][n] = IF B[z][n] = x /\ n = up THEN y ELSE B[z][n]
  BY <1>12 DEF Replaced
<1>21. ASSUME NEW n \in D PROVE E[o][n] = IF n = x THEN inner ELSE IF T[o][n] = x THEN y ELSE T[o][n]
  BY <1>2, <1>4, <1>9, <1>10, <1>20, <1>18, <1>19 DEF ParentSet
<1>22. ASSUME NEW n \in D PROVE E[s][n] = IF n = y THEN x ELSE IF T[s][n] = x THEN y ELSE T[s][n]
  BY <1>2, <1>4, <1>9, <1>10, <1>20, <1>18, <1>19 DEF ParentSet
<1>23. ASSUME NEW n \in D
       PROVE E.parent[n] = IF n = x THEN y ELSE IF n = y THEN up
                                  ELSE IF n = inner THEN x ELSE T.parent[n]
  BY <1>9, <1>10, <1>18 DEF ParentSet
<1>24. /\ E.root = IF x = T.root THEN y ELSE T.root
       /\ E \in TreesOn(D) /\ E.red = T.red
  BY <1>6, <1>9, <1>10, <1>12, <1>13, <1>14, <1>15 DEF ParentSet, ChildSet, Replaced
<1> QED BY <1>16, <1>21, <1>22, <1>23, <1>24 DEF Rotated, D, up, inner, y, o

\* The subtrees after a rotation.
RotatedSub(T, sub, s, x) ==
  LET y == T[Opposite(s)][x]
  IN [sub EXCEPT ![x] = {x} \cup Sub(sub, T[s][x]) \cup Sub(sub, T[s][y]), ![y] = sub[x]]

\* A rotation leaves a search tree.
LEMMA RotateShape ==
  ASSUME NEW T, NEW sub, Shape(T, sub), NEW s \in Sides, NEW x \in Nodes(T), T[Opposite(s)][x] # Nil,
         NEW T2, Rotated(T, s, x, T2)
  PROVE  Shape(T2, RotatedSub(T, sub, s, x)) /\ Nodes(T2) = Nodes(T)
<1> DEFINE D == Nodes(T)
           o == Opposite(s)
           y == T[o][x]
           inner == T[s][y]
           outer == T[o][y]
           near == T[s][x]
           up == T.parent[x]
           sub2 == RotatedSub(T, sub, s, x)
<1>1. T \in TreesOn(D) /\ Nil \notin D /\ OrderOn(D) /\ T.root \in D
  <2>1. T \in TreesOn(D) /\ Nil \notin D /\ OrderOn(D) /\ Sub(sub, T.root) = D
    BY DEF Shape, Branches
  <2> QED BY <2>1, Fields DEF Sub
<1>2. o \in Sides /\ o # s /\ Opposite(o) = s /\ \A z \in Sides : z = s \/ z = o
  BY SidesAre
<1>3. y \in D /\ inner \in D \cup {Nil} /\ outer \in D \cup {Nil} /\ near \in D \cup {Nil} /\ up \in D \cup {Nil}
  BY <1>1, <1>2, Fields
<1>4. /\ x # y /\ y # up /\ x # up /\ T.parent[y] = x /\ near # x /\ near # y
      /\ (x # T.root <=> up \in D) /\ (x = T.root <=> up = Nil) /\ y # T.root
  <2>1. x # y /\ y # up /\ T.parent[y] = x /\ x # up /\ y # T.root /\ near # y /\ near # x
    BY <1>2, Kin
  <2> QED BY <2>1, Kin
<1>5. inner # y /\ outer # y /\ inner # x /\ outer # x /\ (inner # Nil => inner # outer)
  BY <1>1, <1>2, <1>3, <1>4, Kin
<1>6. /\ inner # Nil => T.parent[inner] = y /\ inner # T.root
      /\ outer # Nil => T.parent[outer] = y /\ outer # T.root
      /\ near # Nil => T.parent[near] = x /\ near # T.root
  BY <1>2, <1>3, Kin
<1>7. /\ T2 \in TreesOn(D) /\ Nodes(T2) = D
      /\ T2.root = IF x = T.root THEN y ELSE T.root
  BY Fields DEF Rotated
<1>8. ASSUME NEW n \in D
      PROVE  /\ T2[o][n] = IF n = x THEN inner ELSE IF T[o][n] = x THEN y ELSE T[o][n]
             /\ T2[s][n] = IF n = y THEN x ELSE IF T[s][n] = x THEN y ELSE T[s][n]
             /\ T2.parent[n] = IF n = x THEN y ELSE IF n = y THEN up ELSE IF n = inner THEN x ELSE T.parent[n]
  BY DEF Rotated
<1>9. ASSUME NEW n \in D, NEW z \in Sides
      PROVE  /\ T[z][n] \in D \cup {Nil}
             /\ T[z][n] # Nil => T.parent[T[z][n]] = n /\ T[z][n] # T.root
             /\ n # T.root => T.parent[n] \in D /\ \E q \in Sides : T[q][T.parent[n]] = n
  BY Kin
<1>10. /\ sub \in [D -> SUBSET D] /\ Sub(sub, T.root) = D
       /\ \A n \in D, z \in Sides : sub[n] = {n} \cup Sub(sub, T[z][n]) \cup Sub(sub, T[Opposite(z)][n])
       /\ \A n \in D, z \in Sides : \A m \in Sub(sub, T[z][n]) : Toward(z, m, n)
  BY DEF Shape, Branches
<1>11. sub2 = [sub EXCEPT ![x] = {x} \cup Sub(sub, near) \cup Sub(sub, inner), ![y] = sub[x]]
  BY DEF RotatedSub
<1>12. x \in D
  OBVIOUS
<1> HIDE DEF D, o, y, inner, outer, near, up, sub2
<1>13. Linked(T2)
  <2>1. T2.parent[T2.root] = Nil
    BY <1>1, <1>3, <1>4, <1>6, <1>7, <1>8, Kin DEF D
  <2>2. ASSUME NEW n \in D, n # T2.root
        PROVE  T2.parent[n] \in D /\ \E z \in Sides : T2[z][T2.parent[n]] = n
    <3>1. CASE n = x
      BY <3>1, <1>2, <1>3, <1>4, <1>8
    <3>2. CASE n = y
      <4>1. x # T.root /\ T2.parent[n] = up /\ up \in D
        BY <3>2, <2>2, <1>4, <1>7, <1>8
      <4>2. PICK q \in Sides : T[q][up] = x
        BY <4>1, <1>2, <1>9, <1>12 DEF up
      <4>3. T2[q][up] = y
        BY <4>1, <4>2, <1>2, <1>4, <1>8
      <4> QED BY <4>1, <4>3, <3>2
    <3>3. CASE n = inner
      BY <3>3, <1>2, <1>3, <1>4, <1>5, <1>8, <1>12
    <3>4. CASE n # x /\ n # y /\ n # inner
      <4>1. n # T.root /\ T2.parent[n] = T.parent[n]
        BY <3>4, <2>2, <1>7, <1>8
      <4>2. PICK q \in Sides : T.parent[n] \in D /\ T[q][T.parent[n]] = n
        BY <4>1, <1>2, <1>9
      <4>3. T2[q][T.parent[n]] = n
        BY <4>2, <3>4, <1>2, <1>8 DEF inner, y
      <4> QED BY <4>1, <4>2, <4>3
    <3> QED BY <3>1, <3>2, <3>3, <3>4
  <2>3. ASSUME NEW n \in D, NEW z \in Sides, T2[z][n] # Nil PROVE T2.parent[T2[z][n]] = n
    <3>1. CASE z = o
      <4>1. CASE n = x
        BY <3>1, <4>1, <2>3, <1>3, <1>5, <1>8
      <4>2. CASE n # x /\ T[o][n] = x
        <5>1. n = up
          BY <4>2, <1>1, <1>2, <1>9, <1>12 DEF up
        <5>2. T2[o][n] = y /\ T2.parent[y] = up
          BY <4>2, <1>3, <1>4, <1>8
        <5> QED BY <5>1, <5>2, <3>1
      <4>3. CASE n # x /\ T[o][n] # x
        <5>1. T2[o][n] = T[o][n] /\ T[o][n] \in D /\ T.parent[T[o][n]] = n
          BY <3>1, <4>3, <2>3, <1>2, <1>8, <1>9
        <5>2. T[o][n] # y
          BY <5>1, <4>3, <1>4
        <5>3. T[o][n] # inner \/ n = y
          BY <5>1, <1>6, <1>1
        <5>4. T[o][n] # inner
          BY <5>3, <5>1, <1>1, <1>5 DEF outer
        <5> QED BY <5>1, <5>2, <5>4, <4>3, <3>1, <1>8
      <4> QED BY <4>1, <4>2, <4>3
    <3>2. CASE z = s
      <4>1. CASE n = y
        BY <3>2, <4>1, <1>4, <1>8, <1>12
      <4>2. CASE n # y /\ T[s][n] = x
        <5>1. n = up
          BY <4>2, <1>1, <1>2, <1>9, <1>12 DEF up
        <5>2. T2[s][n] = y /\ T2.parent[y] = up
          BY <4>2, <1>3, <1>4, <1>8
        <5> QED BY <5>1, <5>2, <3>2
      <4>3. CASE n # y /\ T[s][n] # x
        <5>1. T2[s][n] = T[s][n] /\ T[s][n] \in D /\ T.parent[T[s][n]] = n
          BY <3>2, <4>3, <2>3, <1>2, <1>8, <1>9
        <5>2. T[s][n] # y
          BY <5>1, <1>4 DEF near
        <5>3. T[s][n] # inner
          BY <5>1, <4>3, <1>1, <1>6
        <5> QED BY <5>1, <5>2, <5>3, <4>3, <3>2, <1>8
      <4> QED BY <4>1, <4>2, <4>3
    <3> QED BY <3>1, <3>2, <1>2
  <2> QED BY <2>1, <2>2, <2>3, <1>7 DEF Linked
<1>14. Branches(T2, sub2)
  <2>1. /\ sub2 \in [D -> SUBSET D]
        /\ \A n \in D : sub2[n] = IF n = x THEN {x} \cup Sub(sub, near) \cup Sub(sub, inner)
                                  ELSE IF n = y THEN sub[x] ELSE sub[n]
    <3>1. Sub(sub, near) \subseteq D /\ Sub(sub, inner) \subseteq D
      BY <1>3, <1>10 DEF Sub
    <3>2. {x} \cup Sub(sub, near) \cup Sub(sub, inner) \in SUBSET D /\ sub[x] \in SUBSET D
      BY <3>1, <1>10, <1>12
    <3>3. sub \in [D -> SUBSET D]
      BY <1>10
    <3> HIDE <1>10
    <3> QED BY <3>2, <3>3, <1>3, <1>4, <1>11, <1>12
  <2>2. Sub(sub2, T2.root) = D
    BY <2>1, <1>1, <1>3, <1>4, <1>7, <1>10 DEF Sub
  <2>3. ASSUME NEW m \in D \cup {Nil}, m # x, m # y PROVE Sub(sub2, m) = Sub(sub, m)
    BY <2>1, <2>3 DEF Sub
  <2>4. Sub(sub2, x) = {x} \cup Sub(sub, near) \cup Sub(sub, inner) /\ Sub(sub2, y) = sub[x]
    BY <2>1, <1>1, <1>3, <1>4, <1>12 DEF Sub
  <2>5. sub[x] = {x} \cup Sub(sub, near) \cup sub[y] /\ sub[y] = {y} \cup Sub(sub, inner) \cup Sub(sub, outer)
    <3>1. sub[x] = {x} \cup Sub(sub, T[s][x]) \cup Sub(sub, T[o][x])
      BY <1>10, <1>12 DEF o
    <3>2. sub[y] = {y} \cup Sub(sub, T[s][y]) \cup Sub(sub, T[o][y])
      BY <1>3, <1>10 DEF o
    <3> QED BY <3>1, <3>2, <1>1, <1>3 DEF near, y, inner, outer, Sub
  <2>6. \A n \in D, z \in Sides :
          sub2[n] = {n} \cup Sub(sub2, T2[z][n]) \cup Sub(sub2, T2[Opposite(z)][n])
    <3>1. ASSUME NEW n \in D PROVE sub2[n] = {n} \cup Sub(sub2, T2[s][n]) \cup Sub(sub2, T2[o][n])
      <4>1. CASE n = x
        <5>1. T2[s][x] = near /\ T2[o][x] = inner
          BY <1>4, <1>8, <1>12 DEF near
        <5> QED BY <5>1, <4>1, <2>1, <2>3, <1>3, <1>4, <1>5
      <4>2. CASE n = y
        <5>1. T2[s][y] = x /\ T2[o][y] = outer
          BY <1>3, <1>4, <1>5, <1>8 DEF outer
        <5> QED BY <5>1, <4>2, <2>1, <2>3, <2>4, <2>5, <1>3, <1>4, <1>5
      <4>3. CASE n # x /\ n # y
        <5>1. ASSUME NEW z \in Sides PROVE T[z][n] # y /\ Sub(sub2, T2[z][n]) = Sub(sub, T[z][n])
          <6>1. T[z][n] # y /\ T[z][n] \in D \cup {Nil}
            BY <1>1, <1>3, <1>4, <1>9, <4>3
          <6>2. T2[z][n] = IF T[z][n] = x THEN y ELSE T[z][n]
            BY <1>2, <1>8, <4>3
          <6>3. Sub(sub, x) = sub[x]
            BY <1>1, <1>12 DEF Sub
          <6> QED BY <6>1, <6>2, <6>3, <2>3, <2>4
        <5>2. sub2[n] = sub[n]
          BY <2>1, <4>3
        <5> QED BY <5>1, <5>2, <1>2, <1>10
      <4> QED BY <4>1, <4>2, <4>3
    <3>2. ASSUME NEW n \in D PROVE sub2[n] = {n} \cup Sub(sub2, T2[o][n]) \cup Sub(sub2, T2[s][n])
      BY <3>1
    <3>3. ASSUME NEW n \in D, NEW z \in Sides
          PROVE  sub2[n] = {n} \cup Sub(sub2, T2[z][n]) \cup Sub(sub2, T2[Opposite(z)][n])
      <4>1. CASE z = s
        BY <3>1, <4>1 DEF o
      <4>2. CASE z = o
        BY <3>2, <4>2, <1>2
      <4> QED BY <4>1, <4>2, <1>2
    <3> QED BY <3>3
  <2>7. ASSUME NEW n \in D, NEW z \in Sides, NEW m \in Sub(sub2, T2[z][n]) PROVE Toward(z, m, n)
    <3>1. \A k \in D, q \in Sides : \A l \in Sub(sub, T[q][k]) : Toward(q, l, k)
      BY <1>10
    <3>2. /\ \A l \in sub[y] : Toward(o, l, x)
          /\ \A l \in Sub(sub, near) : Toward(s, l, x)
          /\ \A l \in Sub(sub, inner) : Toward(s, l, y)
          /\ \A l \in Sub(sub, outer) : Toward(o, l, y)
      <4>1. Sub(sub, T[o][x]) = sub[y]
        BY <1>1, <1>3 DEF Sub, y
      <4> QED BY <4>1, <3>1, <1>2, <1>3, <1>12 DEF near, inner, outer
    <3>3. Toward(s, x, y)
      BY <3>2, <2>5, SidesAre DEF o
    <3>4. CASE n = x
      <4>1. T2[s][x] = near /\ T2[o][x] = inner
        BY <1>4, <1>8, <1>12 DEF near
      <4>2. Sub(sub2, near) = Sub(sub, near) /\ Sub(sub2, inner) = Sub(sub, inner)
        BY <2>3, <1>3, <1>4, <1>5
      <4> QED BY <4>1, <4>2, <3>2, <3>4, <2>5, <2>7, <1>2
    <3>5. CASE n = y
      <4>1. T2[s][y] = x /\ T2[o][y] = outer
        BY <1>3, <1>4, <1>5, <1>8 DEF outer
      <4>2. Sub(sub2, outer) = Sub(sub, outer)
        BY <2>3, <1>3, <1>5
      <4>3. CASE z = o
        BY <4>1, <4>2, <4>3, <3>2, <3>5, <2>7
      <4>4. CASE z = s
        <5>1. m \in {x} \cup Sub(sub, near) \cup Sub(sub, inner)
          BY <4>1, <4>4, <3>5, <2>4, <2>7
        <5>2. m \in D
          BY <5>1, <2>1, <1>12
        <5>3. m \in Sub(sub, near) => Toward(s, m, y)
          BY <3>2, <3>3, <5>2, <1>1, <1>3, <1>12, TowardOrder
        <5> QED BY <5>1, <5>3, <3>2, <3>3, <3>5, <4>4
      <4> QED BY <4>3, <4>4, <1>2
    <3>6. CASE n # x /\ n # y
      <4>1. T[z][n] # y /\ T[z][n] \in D \cup {Nil}
        <5>1. T[z][n] \in D \cup {Nil} /\ (T[z][n] # Nil => T.parent[T[z][n]] = n)
          BY <1>9
        <5> QED BY <5>1, <1>1, <1>3, <1>4, <3>6
      <4>2. T2[z][n] = IF T[z][n] = x THEN y ELSE T[z][n]
        BY <1>2, <1>8, <3>6
      <4>3. Sub(sub, x) = sub[x]
        BY <1>1, <1>12 DEF Sub
      <4>4. Sub(sub2, T2[z][n]) = Sub(sub, T[z][n])
        BY <4>1, <4>2, <4>3, <2>3, <2>4
      <4> QED BY <4>4, <3>1, <2>7
    <3> QED BY <3>4, <3>5, <3>6
  <2> QED BY <2>1, <2>2, <2>6, <2>7, <1>7 DEF Branches
<1> QED BY <1>1, <1>7, <1>13, <1>14 DEF Shape, D, sub2

-----------------------------------------------------------------------------
(* Colors and heights, and the rotations of RB_INSERT_COLOR. *)

\* The black nodes on every way down from n, n included.
Bh(bh, n) == IF n = Nil THEN 0 ELSE bh[n]

\* What n adds to the black nodes on a way through it.
Weight(T, n) == IF n \in T.red THEN 0 ELSE 1

\* All ways down from a node have as many black nodes.
Heights(T, bh) ==
  /\ bh \in [Nodes(T) -> Nat]
  /\ \A n \in Nodes(T), s \in Sides : bh[n] = Bh(bh, T[s][n]) + Weight(T, n)

\* No red node has a red parent, and the root is black, but for n.
RedUnder(T, n) ==
  \A m \in T.red :
    /\ m = T.root => m = n
    /\ \A s \in Sides : T[s][m] \in T.red => T[s][m] = n

\* n hangs straight under its red parent on side s.
Straight(T, s, n, top) ==
  LET up == T.parent[n]
  IN /\ n \in T.red /\ up \in T.red /\ T[s][up] = n
     /\ top \in Nodes(T) \ T.red /\ T[s][top] = up /\ T.parent[up] = top
     /\ T[Opposite(s)][top] \notin T.red

\* The first rotation of RB_INSERT_COLOR: afterwards the red node hangs straight.
LEMMA UnbendKeeps ==
  ASSUME NEW T, NEW sub, Shape(T, sub), NEW bh, Heights(T, bh), NEW n \in T.red, RedUnder(T, n),
         NEW s \in Sides, NEW top \in Nodes(T), T.parent[n] \in T.red, T[s][top] = T.parent[n],
         T[Opposite(s)][top] \notin T.red
  PROVE  LET P == Unbend(T, s, n) IN
         \E sub2 : /\ Shape(P.tree, sub2) /\ Nodes(P.tree) = Nodes(T)
                   /\ Heights(P.tree, bh) /\ RedUnder(P.tree, P.node)
                   /\ Straight(P.tree, s, P.node, top)
<1> DEFINE D == Nodes(T)
           o == Opposite(s)
           up == T.parent[n]
           P == Unbend(T, s, n)
<1>1. T \in TreesOn(D) /\ Nil \notin D /\ T.red \subseteq D /\ n \in D /\ up \in D
  BY Fields DEF Shape
<1>2. o \in Sides /\ o # s /\ Opposite(o) = s /\ \A z \in Sides : z = s \/ z = o
  BY SidesAre
<1>3. ASSUME NEW m \in D, NEW z \in Sides
      PROVE  /\ T[z][m] \in D \cup {Nil} /\ T[z][m] # m
             /\ T[z][m] # Nil => T.parent[T[z][m]] = m /\ T[z][m] # T.root /\ T[Opposite(z)][m] # T[z][m]
  <2>1. /\ \A q \in Sides : T[q][m] \in D \cup {Nil} /\ T[q][m] # m
        /\ \A q \in Sides : T[q][m] # Nil =>
             T[q][m] # T.root /\ T.parent[T[q][m]] = m /\ T[Opposite(q)][m] # T[q][m]
    BY Kin
  <2> QED BY <2>1
<1>4. T.parent[up] = top /\ up # T.root /\ n # T.root /\ up # n /\ n # top /\ up # top
  <2>1. T.parent[up] = top /\ up # T.root
    BY <1>1, <1>3
  <2>2. n # T.root
    BY <1>1, Kin
  <2>3. up # n /\ T.parent[up] # up
    BY <1>1, Kin
  <2>4. T[s][top] = up /\ up # Nil
    BY <1>1
  <2>5. up # T.parent[top]
    BY <2>4, Kin
  <2> QED BY <2>1, <2>2, <2>3, <2>5, <1>1
<1>5. PICK z \in Sides : T[z][up] = n
  BY <1>1, <1>4, Kin
<1>6. top \notin T.red
  BY <1>4 DEF RedUnder
<1>7. CASE T[o][up] # n
  <2>1. T[s][up] = n
    BY <1>2, <1>5, <1>7
  <2>2. P = [tree |-> T, node |-> n]
    BY <1>7 DEF Unbend
  <2>3. Straight(T, s, n, top)
    BY <1>4, <1>6, <2>1 DEF Straight
  <2> QED BY <2>2, <2>3
<1>8. CASE T[o][up] = n
  <2> DEFINE T2 == Rotate(T, s, up)
             sub2 == RotatedSub(T, sub, s, up)
  <2>1. P = [tree |-> T2, node |-> up]
    BY <1>8 DEF Unbend
  <2>2. T[o][up] # Nil
    BY <1>1, <1>8
  <2>3. Rotated(T, s, up, T2)
    BY <1>1, <2>2, RotateIs
  <2>4. Shape(T2, sub2) /\ Nodes(T2) = D
    BY <1>1, <2>2, <2>3, RotateShape
  <2> HIDE DEF T2, sub2
  <2>5. T2.red = T.red /\ T2.root = T.root
    BY <2>3, <1>4 DEF Rotated
  <2>6. ASSUME NEW m \in D
        PROVE  /\ T2[o][m] = IF m = up THEN T[s][n] ELSE IF T[o][m] = up THEN n ELSE T[o][m]
               /\ T2[s][m] = IF m = n THEN up ELSE IF T[s][m] = up THEN n ELSE T[s][m]
               /\ T2.parent[m] = IF m = up THEN n ELSE IF m = n THEN top
                                 ELSE IF m = T[s][n] THEN up ELSE T.parent[m]
    BY <2>3, <1>4, <1>8 DEF Rotated
  <2>7. T[s][up] # n /\ T[o][top] # up
    BY <1>1, <1>2, <1>3, <1>8
  <2>8. Straight(T2, s, up, top)
    BY <1>1, <1>4, <1>6, <2>4, <2>5, <2>6, <2>7 DEF Straight
  <2>9. Heights(T2, bh)
    <3>1. bh \in [D -> Nat] /\ \A m \in D, q \in Sides : bh[m] = Bh(bh, T[q][m]) + Weight(T, m)
      BY DEF Heights
    <3>2. bh[n] = bh[up] /\ Weight(T, n) = 0 /\ Weight(T, up) = 0 /\ bh[n] \in Nat
      <4>1. bh[up] = Bh(bh, n) + Weight(T, up)
        BY <3>1, <1>1, <1>2, <1>8
      <4> QED BY <4>1, <3>1, <1>1 DEF Bh, Weight
    <3>3. Bh(bh, n) = bh[n] /\ Bh(bh, up) = bh[up]
      BY <1>1 DEF Bh
    <3>4. Bh(bh, T[s][n]) = bh[n]
      <4>1. bh[n] = Bh(bh, T[s][n]) + 0
        BY <3>1, <3>2, <1>1
      <4>2. Bh(bh, T[s][n]) \in Nat
        BY <1>1, <1>3, <3>1 DEF Bh
      <4> QED BY <4>1, <4>2
    <3>5. ASSUME NEW m \in D, NEW q \in Sides PROVE Bh(bh, T2[q][m]) = Bh(bh, T[q][m])
      <4>1. CASE q = o
        BY <4>1, <2>6, <3>2, <3>3, <3>4, <1>8
      <4>2. CASE q = s /\ m # n
        BY <4>2, <2>6, <3>2, <3>3
      <4>3. CASE q = s /\ m = n
        BY <4>3, <2>6, <3>2, <3>3, <3>4
      <4> QED BY <4>1, <4>2, <4>3, <1>2
    <3>6. \A m : Weight(T2, m) = Weight(T, m)
      BY <2>5 DEF Weight
    <3> QED BY <3>1, <3>5, <3>6, <2>4 DEF Heights
  <2>10. RedUnder(T2, up)
    <3>1. ASSUME NEW m \in T.red PROVE m # T.root /\ \A q \in Sides : T[q][m] \in T.red => T[q][m] = n
      BY <1>4 DEF RedUnder
    <3>2. ASSUME NEW m \in T.red, NEW q \in Sides, T2[q][m] \in T.red PROVE T2[q][m] = up
      <4>1. m \in D
        BY <1>1
      <4>2. ASSUME T[q][m] \in T.red PROVE m = up /\ q = o
        BY <3>1, <4>1, <4>2, <1>1, <1>2, <1>3, <1>8
      <4>3. CASE q = o
        <5>1. T[s][n] \notin T.red
          BY <1>1, <1>3, <3>1
        <5>2. CASE m = up
          BY <5>1, <5>2, <4>3, <2>6, <3>2, <1>1
        <5>3. CASE m # up
          BY <5>3, <4>1, <4>2, <4>3, <2>6, <3>2
        <5> QED BY <5>2, <5>3
      <4>4. CASE q = s
        BY <4>4, <4>1, <4>2, <2>6, <3>2, <1>2
      <4> QED BY <4>3, <4>4, <1>2
    <3> QED BY <3>1, <3>2, <2>5 DEF RedUnder
  <2> QED BY <2>1, <2>4, <2>8, <2>9, <2>10
<1> QED BY <1>7, <1>8

\* The children of a node are nodes, distinct from each other, from it and from the root.
LEMMA Kids ==
  ASSUME NEW T, NEW sub, Shape(T, sub)
  PROVE  /\ T \in TreesOn(Nodes(T)) /\ Nil \notin Nodes(T) /\ T.red \subseteq Nodes(T) /\ OrderOn(Nodes(T))
         /\ \A m \in Nodes(T), z \in Sides : T[z][m] \in Nodes(T) \cup {Nil} /\ T[z][m] # m
         /\ \A m \in Nodes(T), z \in Sides : T[z][m] # Nil =>
              T[z][m] # T.root /\ T.parent[T[z][m]] = m /\ T[Opposite(z)][m] # T[z][m]
<1>1. T \in TreesOn(Nodes(T)) /\ Nil \notin Nodes(T) /\ T.red \subseteq Nodes(T) /\ OrderOn(Nodes(T))
  BY Fields DEF Shape
<1>2. ASSUME NEW m \in Nodes(T)
      PROVE  /\ \A q \in Sides : T[q][m] \in Nodes(T) \cup {Nil} /\ T[q][m] # m
             /\ \A q \in Sides : T[q][m] # Nil =>
                  T[q][m] # T.root /\ T.parent[T[q][m]] = m /\ T[Opposite(q)][m] # T[q][m]
  BY Kin
<1> QED BY <1>1, <1>2

\* The second rotation of RB_INSERT_COLOR: no red node has a red parent any more.
LEMMA RaiseParentKeeps ==
  ASSUME NEW T, NEW sub, Shape(T, sub), NEW bh, Heights(T, bh), NEW n, RedUnder(T, n),
         NEW s \in Sides, NEW top \in Nodes(T), Straight(T, s, n, top), NEW at, at = [tree |-> T, node |-> n]
  PROVE  LET P == RaiseParent(at, s) IN
         \E sub2, bh2 : /\ Shape(P.tree, sub2) /\ Nodes(P.tree) = Nodes(T)
                        /\ Heights(P.tree, bh2) /\ RedUnder(P.tree, n)
                        /\ P.node = n /\ n \in P.tree.red /\ P.tree.parent[n] \notin P.tree.red
<1> DEFINE D == Nodes(T)
           o == Opposite(s)
           up == T.parent[n]
           T1 == Paint(T, {up}, {top})
           T2 == Rotate(T1, o, top)
           P == RaiseParent(at, s)
           sub2 == RotatedSub(T1, sub, o, top)
           bh2 == [bh EXCEPT ![up] = bh[up] + 1, ![top] = bh[up]]
<1>1. T \in TreesOn(D) /\ Nil \notin D /\ T.red \subseteq D /\ n \in D /\ up \in D
  BY Kids DEF Straight
<1>2. o \in Sides /\ o # s /\ Opposite(o) = s /\ \A z \in Sides : z = s \/ z = o
  BY SidesAre
<1>3. ASSUME NEW m \in D, NEW z \in Sides
      PROVE  /\ T[z][m] \in D \cup {Nil} /\ T[z][m] # m
             /\ T[z][m] # Nil => T.parent[T[z][m]] = m /\ T[z][m] # T.root /\ T[Opposite(z)][m] # T[z][m]
  BY Kids
<1>4. /\ n \in T.red /\ up \in T.red /\ T[s][up] = n /\ top \notin T.red /\ T[s][top] = up
      /\ T.parent[up] = top /\ T[o][top] \notin T.red /\ up # top
  BY DEF Straight
<1>5. /\ Shape(T1, sub) /\ Nodes(T1) = D /\ T1.root = T.root /\ T1.parent = T.parent
      /\ \A z \in Sides : T1[z] = T[z]
      /\ T1.red = (T.red \ {up}) \cup {top}
  BY PaintShape
<1>6. P = [tree |-> T2, node |-> n]
  BY <1>4 DEF RaiseParent
<1> HIDE DEF T1
<1>7. T1[Opposite(o)][top] = up /\ up # Nil
  BY <1>1, <1>2, <1>4, <1>5
<1>8. Rotated(T1, o, top, T2) /\ Shape(T2, sub2) /\ Nodes(T2) = D
  BY <1>2, <1>5, <1>7, RotateIs, RotateShape
<1> HIDE DEF T2, sub2, D, up
<1>9. /\ T2.red = (T.red \ {up}) \cup {top}
      /\ T2.root = IF top = T.root THEN up ELSE T.root
  BY <1>2, <1>5, <1>7, <1>8 DEF Rotated
<1>10. ASSUME NEW m \in D
       PROVE  /\ T2[s][m] = IF m = top THEN T[o][up] ELSE IF T[s][m] = top THEN up ELSE T[s][m]
              /\ T2[o][m] = IF m = up THEN top ELSE IF T[o][m] = top THEN up ELSE T[o][m]
              /\ T2.parent[m] = IF m = top THEN up ELSE IF m = up THEN T.parent[top]
                                ELSE IF m = T[o][up] THEN top ELSE T.parent[m]
  BY <1>2, <1>5, <1>7, <1>8 DEF Rotated
<1>11. n # top /\ n # up /\ T[o][up] # n
  <2>1. n # up /\ T[o][up] # n
    BY <1>1, <1>2, <1>3, <1>4
  <2> QED BY <2>1, <1>4
<1>12. T2.parent[n] = up
  BY <1>1, <1>4, <1>10, <1>11 DEF up
<1>13. Heights(T2, bh2)
  <2>1. bh \in [D -> Nat] /\ \A m \in D, q \in Sides : bh[m] = Bh(bh, T[q][m]) + Weight(T, m)
    BY DEF Heights, D
  <2>2. /\ bh2 \in [D -> Nat]
        /\ \A m \in D : bh2[m] = IF m = top THEN bh[up] ELSE IF m = up THEN bh[up] + 1 ELSE bh[m]
    <3>1. top \in D /\ up \in D /\ bh[up] \in Nat /\ bh[up] + 1 \in Nat /\ up # top
      BY <2>1, <1>1, <1>4 DEF D
    <3>2. bh \in [D -> Nat]
      BY <2>1
    <3> QED BY <3>1, <3>2
  <2> HIDE DEF bh2
  <2>3. ASSUME NEW m \in D \cup {Nil}, m # up, m # top PROVE Bh(bh2, m) = Bh(bh, m)
    BY <2>2, <2>3 DEF Bh
  <2>4. /\ bh[top] = bh[up] + 1 /\ bh[up] = Bh(bh, T[o][up]) /\ bh[up] = Bh(bh, T[o][top])
        /\ bh[up] = Bh(bh, n)
    <3>1. Weight(T, top) = 1 /\ Weight(T, up) = 0
      BY <1>4 DEF Weight
    <3>2. bh[top] = Bh(bh, up) + 1 /\ bh[top] = Bh(bh, T[o][top]) + 1 /\ bh[up] = Bh(bh, T[o][up]) + 0 /\ bh[up] = Bh(bh, n) + 0
      BY <3>1, <2>1, <1>1, <1>2, <1>4 DEF D
    <3>3. Bh(bh, up) = bh[up]
      BY <1>1 DEF Bh
    <3>4. Bh(bh, T[o][up]) \in Nat /\ Bh(bh, n) \in Nat /\ Bh(bh, T[o][top]) \in Nat /\ bh[up] \in Nat
      BY <2>1, <1>1, <1>2, <1>3 DEF Bh, D
    <3> QED BY <3>2, <3>3, <3>4
  <2>5. Bh(bh2, up) = bh[top] /\ Bh(bh2, top) = bh[up] /\ Bh(bh, top) = bh[top]
    BY <2>2, <2>4, <1>1, <1>4 DEF Bh, D
  <2>6. top \in D /\ T[o][up] # up /\ T[o][top] # top /\ T[o][top] # up /\ T[o][up] # top
    <3>1. top \in D /\ T[o][up] # up /\ T[o][top] # top /\ T[o][top] # up
      BY <1>1, <1>2, <1>3, <1>4 DEF D
    <3>2. T[o][up] # T.parent[up] \/ T[o][up] = Nil
      BY <1>1, <1>2, Kin DEF D
    <3> QED BY <3>1, <3>2, <1>1, <1>4
  <2>7. Weight(T2, up) = 1 /\ Weight(T2, top) = 0 /\ \A m \in D : m # up /\ m # top => Weight(T2, m) = Weight(T, m)
    BY <1>4, <1>9 DEF Weight
  <2>8. ASSUME NEW m \in D, NEW q \in Sides PROVE bh2[m] = Bh(bh2, T2[q][m]) + Weight(T2, m)
    <3>1. CASE m = top
      <4>1. T2[s][top] = T[o][up] /\ T2[o][top] = T[o][top]
        BY <1>4, <1>10, <2>6
      <4>2. Bh(bh2, T[o][up]) = Bh(bh, T[o][up]) /\ Bh(bh2, T[o][top]) = Bh(bh, T[o][top])
        BY <2>3, <2>6, <1>1, <1>2, <1>3
      <4>3. bh2[top] = bh[up] /\ bh[up] \in Nat
        BY <2>1, <2>2, <2>6, <1>1
      <4> QED BY <4>1, <4>2, <4>3, <2>4, <2>7, <3>1, <1>2
    <3>2. CASE m = up
      <4>1. T2[s][up] = n /\ T2[o][up] = top
        BY <1>1, <1>4, <1>10, <1>11
      <4>2. Bh(bh2, n) = Bh(bh, n)
        BY <2>3, <1>1, <1>11
      <4>3. bh2[up] = bh[up] + 1
        BY <2>2, <1>1, <1>4
      <4> QED BY <4>1, <4>2, <4>3, <2>4, <2>5, <2>7, <3>2, <1>2
    <3>3. CASE m # top /\ m # up
      <4>1. T[q][m] # up
        BY <3>3, <1>1, <1>3, <1>4
      <4>2. T2[q][m] = IF T[q][m] = top THEN up ELSE T[q][m]
        BY <3>3, <1>2, <1>10
      <4>3. Bh(bh2, T2[q][m]) = Bh(bh, T[q][m])
        BY <4>1, <4>2, <2>3, <2>5, <1>3
      <4> QED BY <4>3, <3>3, <2>1, <2>2, <2>7
    <3> QED BY <3>1, <3>2, <3>3
  <2> QED BY <2>2, <2>8, <1>8 DEF Heights
<1>14. RedUnder(T2, n)
  <2>1. ASSUME NEW m \in T.red PROVE /\ m = T.root => m = n
                                     /\ \A q \in Sides : T[q][m] \in T.red => T[q][m] = n
    BY DEF RedUnder
  <2>2. T[o][up] \notin T.red
    BY <2>1, <1>2, <1>4, <1>11
  <2>3. ASSUME NEW m \in T2.red PROVE m = T2.root => m = n
    <3>1. CASE m = top
      BY <3>1, <1>4, <1>9
    <3>2. CASE m # top
      BY <3>2, <2>1, <2>3, <1>9
    <3> QED BY <3>1, <3>2
  <2>4. ASSUME NEW m \in T2.red, NEW q \in Sides, T2[q][m] \in T2.red PROVE T2[q][m] = n
    <3>1. m \in D /\ m # up
      BY <2>4, <1>1, <1>4, <1>9 DEF D
    <3>2. CASE m = top
      <4>1. T2[s][top] = T[o][up] /\ T2[o][top] = T[o][top]
        <5>1. T[o][top] # top /\ top # up
          BY <1>2, <1>3, <1>4 DEF D
        <5> QED BY <5>1, <1>10 DEF D
      <4>2. T[o][up] # top
        <5>1. T[o][up] # T.parent[up] \/ T[o][up] = Nil
          BY <1>1, <1>2, Kin DEF D
        <5> QED BY <5>1, <1>1, <1>4 DEF D
      <4>3. T[o][top] # top
        BY <1>2, <1>3 DEF D
      <4> QED BY <4>1, <4>2, <4>3, <3>2, <2>2, <2>4, <1>2, <1>4, <1>9
    <3>3. CASE m # top
      <4>1. m \in T.red
        BY <3>3, <2>4, <1>9
      <4>2. T2[q][m] = IF T[q][m] = top THEN up ELSE T[q][m]
        BY <3>1, <3>3, <1>2, <1>10
      <4>3. T[q][m] # top /\ T2[q][m] = T[q][m]
        BY <4>2, <2>4, <1>4, <1>9
      <4> QED BY <4>1, <4>3, <2>1, <2>4, <1>9
    <3> QED BY <3>2, <3>3
  <2> QED BY <2>3, <2>4 DEF RedUnder
<1>15. n \in T2.red /\ T2.parent[n] \notin T2.red
  BY <1>4, <1>9, <1>11, <1>12
<1> QED BY <1>6, <1>8, <1>13, <1>14, <1>15 DEF D

-----------------------------------------------------------------------------
(* Loops: what every turn keeps holds at the end. *)

\* A set of numbers that is not empty has a least element.
LEMMA LeastNat ==
  ASSUME NEW S, S \subseteq Nat, S # {}
  PROVE \E x \in S : \A y \in S : x <= y
<1>1. PICK n \in S : TRUE
  OBVIOUS
<1> DEFINE N == 1 .. n
           Initial == {R \in SUBSET N : \E k \in S : k <= n /\ R = 1 .. k}
<1>2. IsFiniteSet(N) /\ N \in Initial
  BY <1>1, FS_Interval
<1>3. Initial \subseteq FiniteSubsetsOf(N)
  BY <1>2, FS_FiniteSubsetsOfFinite
<1>4. PICK Q \in Initial : \A R \in Initial : <<R, Q>> \notin StrictSubsetOrdering(N)
  <2>1. IsWellFoundedOn(StrictSubsetOrdering(N), FiniteSubsetsOf(N))
    BY FS_StrictSubsetOrderingWellFounded
  <2>2. Initial # {}
    BY <1>2
  <2> HIDE DEF Initial
  <2> QED BY <1>3, <2>1, <2>2, WFMin, Zenon
<1>5. PICK k \in S : k <= n /\ Q = 1 .. k
  BY <1>4
<1>6. ASSUME NEW y \in S, y < k PROVE FALSE
  <2>1. n \in Nat /\ k \in Nat /\ y \in Nat
    BY <1>1
  <2>2. 1 .. y \in Initial /\ 1 .. y \subseteq Q /\ Q \subseteq N /\ 1 .. y # Q
    BY <1>5, <1>6, <2>1
  <2> QED BY <1>4, <2>2 DEF StrictSubsetOrdering
<1> QED BY <1>5, <1>6

\* Induction over the numbers, on a set.
LEMMA Induction ==
  ASSUME NEW S, 0 \in S, \A i \in Nat : i \in S => i + 1 \in S
  PROVE  \A i \in Nat : i \in S
<1> DEFINE Bad == {i \in Nat : i \notin S}
<1>1. SUFFICES ASSUME Bad # {} PROVE FALSE
  OBVIOUS
<1>2. PICK x \in Bad : \A y \in Bad : x <= y
  BY <1>1, LeastNat
<1>3. x # 0 /\ x \in Nat
  OBVIOUS
<1>4. x - 1 \in Nat /\ x - 1 \notin Bad /\ (x - 1) + 1 = x
  BY <1>2, <1>3
<1> QED BY <1>4

\* The values of a loop whose turn is the function f.
IsIteration(S, f, x, r) ==
  r \in [Nat -> S] /\ r[0] = x /\ \A i \in Nat : r[i + 1] = f[r[i]]

\* Every function of a set to itself can be iterated.
LEMMA Iterates ==
  ASSUME NEW S, NEW f \in [S -> S], NEW x \in S
  PROVE  \E r : IsIteration(S, f, x, r)
<1> DEFINE Upto(n, g) == /\ g \in [0 .. n -> S] /\ g[0] = x
                         /\ \A i \in 0 .. n - 1 : g[i + 1] = f[g[i]]
           Some == {n \in Nat : \E g : Upto(n, g)}
<1>1. \A n \in Nat : n \in Some
  <2>1. 0 \in Some
    <3>1. Upto(0, [i \in 0 .. 0 |-> x])
      OBVIOUS
    <3> QED BY <3>1
  <2>2. ASSUME NEW n \in Nat, n \in Some PROVE n + 1 \in Some
    <3>1. PICK g : Upto(n, g)
      BY <2>2
    <3> DEFINE h == [i \in 0 .. n + 1 |-> IF i = n + 1 THEN f[g[n]] ELSE g[i]]
    <3>2. ASSUME NEW i \in 0 .. n PROVE h[i] = g[i] /\ g[i] \in S /\ i \in 0 .. n + 1
      BY <3>1
    <3>3. h[n + 1] = f[g[n]] /\ f[g[n]] \in S /\ DOMAIN h = 0 .. n + 1
      BY <3>2
    <3>4. ASSUME NEW i \in 0 .. n + 1 PROVE h[i] \in S
      <4>1. i = n + 1 \/ i \in 0 .. n
        OBVIOUS
      <4> QED BY <4>1, <3>2, <3>3
    <3>5. h \in [0 .. n + 1 -> S]
      BY <3>4
    <3>6. ASSUME NEW i \in 0 .. (n + 1) - 1 PROVE h[i + 1] = f[h[i]]
      <4>1. CASE i = n
        BY <4>1, <3>2, <3>3
      <4>2. CASE i # n
        <5>1. i \in 0 .. n - 1 /\ i \in 0 .. n /\ i + 1 \in 0 .. n
          BY <4>2
        <5>2. g[i + 1] = f[g[i]]
          BY <5>1, <3>1
        <5> QED BY <5>1, <5>2, <3>2
      <4> QED BY <4>1, <4>2
    <3>7. h[0] = x
      BY <3>1, <3>2
    <3> HIDE DEF h
    <3>8. Upto(n + 1, h)
      BY <3>5, <3>6, <3>7
    <3> QED BY <3>8
  <2> HIDE DEF Some
  <2> QED BY <2>1, <2>2, Induction
<1>2. ASSUME NEW n \in Nat, NEW m \in Nat, NEW g, NEW h, Upto(n, g), Upto(m, h), NEW j \in Nat, j <= n, j <= m
      PROVE  g[j] = h[j]
  <2> DEFINE Same == {i \in Nat : i <= n /\ i <= m => g[i] = h[i]}
  <2>1. 0 \in Same
    BY <1>2
  <2>2. ASSUME NEW i \in Nat, i \in Same PROVE i + 1 \in Same
    BY <1>2, <2>2
  <2>3. \A i \in Nat : i \in Same
    <3> HIDE DEF Same
    <3> QED BY <2>1, <2>2, Induction
  <2> QED BY <2>3, <1>2
<1> DEFINE G(n) == CHOOSE g : Upto(n, g)
           r == [n \in Nat |-> G(n)[n]]
<1>3. ASSUME NEW n \in Nat PROVE Upto(n, G(n))
  <2>1. \E g : Upto(n, g)
    BY <1>1
  <2> HIDE DEF Upto
  <2> QED BY <2>1
<1> HIDE DEF G
<1>4. ASSUME NEW n \in Nat PROVE r[n] \in S
  BY <1>3
<1>5. r[0] = x
  BY <1>3
<1>6. ASSUME NEW i \in Nat PROVE r[i + 1] = f[r[i]]
  <2>1. Upto(i, G(i)) /\ Upto(i + 1, G(i + 1))
    BY <1>3
  <2>2. G(i + 1)[i] = G(i)[i]
    <3> HIDE DEF Upto
    <3> QED BY <2>1, <1>2
  <2>3. G(i + 1)[i + 1] = f[G(i + 1)[i]]
    BY <2>1
  <2> QED BY <2>2, <2>3
<1> HIDE DEF Upto
<1>7. r \in [Nat -> S]
  BY <1>4
<1> QED BY <1>5, <1>6, <1>7 DEF IsIteration

\* What the loop of RB_INSERT_COLOR keeps, after i turns: the tree is in order and
\* every way down has as many black nodes; only node may have a red parent, and then it is
\* at the root of a subtree of more than i nodes.
Inserting(D, at, i) ==
  \E sub, bh :
    /\ Shape(at.tree, sub) /\ Nodes(at.tree) = D /\ Heights(at.tree, bh)
    /\ at.node \in at.tree.red /\ RedUnder(at.tree, at.node)
    /\ at.tree.parent[at.node] \in at.tree.red => Cardinality(sub[at.node]) > i

\* The subtree of a node lies in the subtree of its parent.
LEMMA Upward ==
  ASSUME NEW T, NEW sub, Shape(T, sub), NEW m \in Nodes(T), m # T.root
  PROVE  T.parent[m] \in Nodes(T) /\ Sub(sub, m) \subseteq sub[T.parent[m]] /\ T.parent[m] \notin Sub(sub, m)
<1> DEFINE p == T.parent[m]
<1>1. p \in Nodes(T)
  BY Kin
<1>2. \E z \in Sides : T[z][p] = m
  BY Kin
<1> HIDE DEF p
<1>3. PICK z \in Sides : T[z][p] = m
  BY <1>2
<1>4. Sub(sub, T[z][p]) \subseteq sub[p] /\ p \notin Sub(sub, T[z][p])
  BY <1>1, Kin
<1> QED BY <1>1, <1>3, <1>4 DEF p

\* A turn of the loop of RB_INSERT_COLOR keeps this.
LEMMA InsertTurn ==
  ASSUME NEW D, IsFiniteSet(D), NEW i \in Nat, NEW at \in [tree : TreesOn(D), node : D], Inserting(D, at, i)
  PROVE  Inserting(D, InsertColorTurn(at), i + 1) /\ InsertColorTurn(at) \in [tree : TreesOn(D), node : D]
<1> DEFINE T == at.tree
           n == at.node
           up == T.parent[n]
           top == T.parent[up]
           s == SideOf(T, up)
           o == Opposite(s)
           uncle == T[o][top]
           P == InsertColorTurn(at)
<1>1. PICK sub, bh :
        /\ Shape(T, sub) /\ Nodes(T) = D /\ Heights(T, bh) /\ n \in T.red /\ RedUnder(T, n)
        /\ up \in T.red => Cardinality(sub[n]) > i
  BY DEF Inserting
<1>2. T \in TreesOn(D) /\ Nil \notin D /\ T.red \subseteq D /\ at = [tree |-> T, node |-> n] /\ n \in D
  BY <1>1, Kids
<1>3. P = IF up = Nil \/ up \notin T.red THEN at
          ELSE IF uncle \in T.red THEN [tree |-> Paint(T, {uncle, up}, {top}), node |-> top]
          ELSE RaiseParent(Unbend(T, s, n), s)
  BY DEF InsertColorTurn
<1> HIDE DEF T, n, P
<1>4. CASE up = Nil \/ up \notin T.red
  <2>1. up \notin T.red
    BY <1>2, <1>4
  <2>2. Inserting(D, at, i + 1)
    BY <1>1, <2>1 DEF Inserting, T, n
  <2> QED BY <2>2, <1>3, <1>4 DEF P
<1>5. CASE up # Nil /\ up \in T.red
  <2>1. up \in D /\ n # T.root
    BY <1>1, <1>2, <1>5, Kin
  <2>2. up # T.root /\ top \in D /\ up # n
    <3>1. up # n
      BY <1>1, <1>2, Kin
    <3>2. up # T.root
      BY <3>1, <1>1, <1>5 DEF RedUnder
    <3> QED BY <3>1, <3>2, <2>1, <1>1, Kin
  <2>3. s \in Sides /\ T[s][top] = up
    <3>1. \E z \in Sides : T[z][top] = up
      BY <2>1, <2>2, <1>1, Kin
    <3> QED BY <3>1 DEF SideOf, Sides
  <2> HIDE DEF up, top, s
  <2>4. o \in Sides /\ Opposite(o) = s /\ \A z \in Sides : z = s \/ z = o
    BY <2>3, SidesAre
  <2>5. top \notin T.red /\ T.parent[n] = up /\ T.parent[up] = top
    <3>1. T.parent[n] = up /\ T.parent[up] = top
      BY DEF up, top
    <3>2. top \in T.red => T[s][top] = n
      BY <2>3, <1>1, <1>5 DEF RedUnder
    <3> QED BY <3>1, <3>2, <2>2, <2>3
  <2>6. CASE uncle \in T.red
    <3> DEFINE T2 == Paint(T, {uncle, up}, {top})
               bh2 == [bh EXCEPT ![up] = @ + 1, ![uncle] = @ + 1]
    <3>1. P = [tree |-> T2, node |-> top]
      BY <2>6, <1>3, <1>5
    <3>2. /\ Shape(T2, sub) /\ Nodes(T2) = D /\ T2.root = T.root /\ T2.parent = T.parent
          /\ \A z \in Sides : T2[z] = T[z]
          /\ T2.red = (T.red \ {uncle, up}) \cup {top}
      BY <1>1, <2>2, PaintShape
    <3> HIDE DEF T2, P
    <3>3. uncle \in D /\ uncle # up /\ uncle # top /\ up # top /\ T.parent[uncle] = top
      <4>1. uncle \in D
        BY <1>2, <2>6
      <4> QED BY <4>1, <1>1, <1>2, <2>2, <2>3, <2>4, Kids
    <3>4. bh \in [D -> Nat] /\ \A m \in D, q \in Sides : bh[m] = Bh(bh, T[q][m]) + Weight(T, m)
      BY <1>1 DEF Heights
    <3>5. /\ bh2 \in [D -> Nat]
          /\ \A m \in D : bh2[m] = IF m = uncle \/ m = up THEN bh[m] + 1 ELSE bh[m]
      BY <3>3, <3>4, <2>1
    <3> HIDE DEF bh2
    <3>6. Heights(T2, bh2)
      <4>1. ASSUME NEW m \in D, NEW q \in Sides PROVE bh2[m] = Bh(bh2, T[q][m]) + Weight(T2, m)
        <5>1. bh[m] = Bh(bh, T[q][m]) + Weight(T, m) /\ T[q][m] \in D \cup {Nil} /\ bh[m] \in Nat
          BY <3>4, <1>1, Kids
        <5>2. Bh(bh, T[q][m]) \in Nat
          BY <5>1, <3>4 DEF Bh
        <5>3. CASE m = top
          <6>1. T[q][m] = up \/ T[q][m] = uncle
            BY <5>3, <2>3, <2>4
          <6>2. Bh(bh2, T[q][m]) = Bh(bh, T[q][m]) + 1
            BY <6>1, <3>3, <3>5, <1>2, <2>1 DEF Bh
          <6>3. Weight(T, m) = 1 /\ Weight(T2, m) = 0
            BY <5>3, <2>5, <3>2 DEF Weight
          <6>4. bh2[m] = bh[m]
            BY <5>3, <3>3, <3>5
          <6> QED BY <5>1, <5>2, <6>2, <6>3, <6>4
        <5>4. CASE m # top
          <6>1. T[q][m] # up /\ T[q][m] # uncle
            BY <5>4, <1>1, <1>2, <2>1, <2>5, <3>3, Kids
          <6>2. Bh(bh2, T[q][m]) = Bh(bh, T[q][m])
            BY <6>1, <5>1, <3>5 DEF Bh
          <6>3. CASE m = up \/ m = uncle
            <7>1. Weight(T, m) = 0 /\ Weight(T2, m) = 1
              BY <6>3, <5>4, <2>6, <1>5, <3>2 DEF Weight
            <7>2. bh2[m] = bh[m] + 1
              BY <6>3, <3>5
            <7> QED BY <5>1, <5>2, <6>2, <7>1, <7>2
          <6>4. CASE m # up /\ m # uncle
            <7>1. Weight(T2, m) = Weight(T, m)
              BY <6>4, <5>4, <3>2 DEF Weight
            <7>2. bh2[m] = bh[m]
              BY <6>4, <3>5
            <7> QED BY <5>1, <6>2, <7>1, <7>2
          <6> QED BY <6>3, <6>4
        <5> QED BY <5>3, <5>4
      <4> QED BY <4>1, <3>2, <3>5 DEF Heights
    <3>7. RedUnder(T2, top)
      <4>1. ASSUME NEW m \in T2.red PROVE m = T2.root => m = top
        BY <4>1, <3>2, <1>1, <2>1 DEF RedUnder
      <4>2. ASSUME NEW m \in T2.red, NEW q \in Sides, T2[q][m] \in T2.red PROVE T2[q][m] = top
        <5>1. T2[q][m] = T[q][m] /\ m # up /\ m # uncle
          BY <4>2, <3>2, <3>3, <2>2
        <5>2. CASE m = top
          BY <5>1, <5>2, <4>2, <2>3, <2>4, <3>2
        <5>3. CASE m # top
          <6>1. m \in T.red /\ m \in D
            BY <5>3, <4>2, <3>2, <1>2
          <6>2. T[q][m] \in T.red => T[q][m] = n
            BY <6>1, <1>1 DEF RedUnder
          <6>3. T[q][m] # n
            BY <6>1, <5>1, <1>1, <1>2, <2>5, Kids
          <6> QED BY <5>1, <6>2, <6>3, <4>2, <3>2
        <5> QED BY <5>2, <5>3
      <4> QED BY <4>1, <4>2 DEF RedUnder
    <3>8. Cardinality(sub[top]) > i + 1
      <4>1. sub[n] \subseteq sub[top] /\ top \in sub[top] /\ top \notin sub[n] /\ sub[top] \subseteq D
        <5>1. Sub(sub, n) \subseteq sub[T.parent[n]]
          BY <1>1, <1>2, <2>1, Upward
        <5>2. /\ T.parent[up] \in D /\ Sub(sub, up) \subseteq sub[T.parent[up]]
              /\ T.parent[up] \notin Sub(sub, up)
          BY <1>1, <2>1, <2>2, Upward
        <5>3. Sub(sub, n) = sub[n] /\ Sub(sub, up) = sub[up]
          BY <1>2, <2>1 DEF Sub
        <5>4. top \in sub[top] /\ sub[top] \subseteq D
          BY <1>1, <2>2, Kin
        <5> QED BY <5>1, <5>2, <5>3, <5>4, <2>5
      <4>2. IsFiniteSet(sub[top]) /\ IsFiniteSet(sub[n])
        BY <4>1, FS_Subset
      <4>3. Cardinality(sub[n]) < Cardinality(sub[top])
        BY <4>1, <4>2, FS_Subset, FS_CardinalityType
      <4> QED BY <4>2, <4>3, <1>1, <1>5, FS_CardinalityType DEF up
    <3>9. top \in T2.red /\ T2 \in TreesOn(D)
      BY <3>2, Kids
    <3>10. Inserting(D, [tree |-> T2, node |-> top], i + 1)
      BY <3>2, <3>6, <3>7, <3>8, <3>9 DEF Inserting
    <3> QED BY <3>1, <3>9, <3>10, <2>2 DEF P
  <2>7. CASE uncle \notin T.red
    <3> DEFINE U == Unbend(T, s, n)
    <3>1. P = RaiseParent(U, s)
      BY <2>7, <1>3, <1>5
    <3>2. PICK sub2 : /\ Shape(U.tree, sub2) /\ Nodes(U.tree) = D
                      /\ Heights(U.tree, bh) /\ RedUnder(U.tree, U.node)
                      /\ Straight(U.tree, s, U.node, top)
      BY <1>1, <1>5, <2>2, <2>3, <2>5, <2>7, UnbendKeeps
    <3>3. U = [tree |-> U.tree, node |-> U.node]
      BY DEF Unbend
    <3> HIDE DEF U, P
    <3>4. PICK sub3, bh3 :
            /\ Shape(P.tree, sub3) /\ Nodes(P.tree) = D
            /\ Heights(P.tree, bh3) /\ RedUnder(P.tree, U.node)
            /\ P.node = U.node /\ U.node \in P.tree.red /\ P.tree.parent[U.node] \notin P.tree.red
      BY <3>1, <3>2, <3>3, <2>2, <2>3, RaiseParentKeeps
    <3>5. Inserting(D, P, i + 1)
      BY <3>4 DEF Inserting
    <3>6. P \in [tree : TreesOn(D), node : D]
      <4>1. P = [tree |-> P.tree, node |-> P.node]
        BY <3>1, <3>3 DEF RaiseParent
      <4>2. P.tree \in TreesOn(D) /\ P.node \in D
        BY <3>4, Kids
      <4> QED BY <4>1, <4>2
    <3> QED BY <3>5, <3>6 DEF P
  <2> QED BY <2>6, <2>7
<1> QED BY <1>4, <1>5

\* A function that iterates f is the solution of the recursive definition with f.
LEMMA Recursion ==
  ASSUME NEW S, NEW f, NEW x, NEW r, IsIteration(S, f, x, r)
  PROVE  r = [i \in Nat |-> IF i = 0 THEN x ELSE f[r[i - 1]]]
<1>1. r \in [Nat -> S] /\ r[0] = x /\ \A i \in Nat : r[i + 1] = f[r[i]]
  BY DEF IsIteration
<1>2. ASSUME NEW i \in Nat PROVE r[i] = IF i = 0 THEN x ELSE f[r[i - 1]]
  <2>1. CASE i = 0
    BY <2>1, <1>1
  <2>2. CASE i # 0
    <3>1. i - 1 \in Nat /\ (i - 1) + 1 = i
      BY <2>2
    <3>2. r[(i - 1) + 1] = f[r[i - 1]]
      BY <3>1, <1>1
    <3> QED BY <3>1, <3>2, <2>2
  <2> QED BY <2>1, <2>2
<1> QED BY <1>1, <1>2

\* What holds of the start and is kept by every turn holds after every turn.
Kept(S, after) == \A i \in Nat : after[i] \in S[i]

\* What every turn keeps holds throughout.
LEMMA Keeps ==
  ASSUME NEW S, NEW after, after[0] \in S[0], \A i \in Nat : after[i] \in S[i] => after[i + 1] \in S[i + 1]
  PROVE  Kept(S, after)
<1> DEFINE In == {i \in Nat : after[i] \in S[i]}
<1>1. 0 \in In /\ \A i \in Nat : i \in In => i + 1 \in In
  OBVIOUS
<1>2. \A i \in Nat : i \in In
  <2> HIDE DEF In
  <2> QED BY <1>1, Induction
<1> QED BY <1>2 DEF Kept

\* What the turns keep holds when RB_INSERT_COLOR ends.
LEMMA InsertColorRun ==
  ASSUME NEW T, IsFiniteSet(Nodes(T)), NEW n, NEW S, [tree |-> T, node |-> n] \in S[0],
         \A i \in Nat : \A a \in S[i] : InsertColorTurn(a) \in S[i + 1]
  PROVE  \E end \in S[Cardinality(Nodes(T))] : InsertColor(T, n) = Paint(end.tree, {end.tree.root}, {})
<1> DEFINE x == [tree |-> T, node |-> n]
           U == UNION {S[i] : i \in Nat}
           f == [a \in U |-> InsertColorTurn(a)]
           after == CHOOSE g : g = [i \in Nat |-> IF i = 0 THEN x ELSE InsertColorTurn(g[i - 1])]
<1>1. f \in [U -> U] /\ x \in U /\ \A a \in U : f[a] = InsertColorTurn(a)
  OBVIOUS
<1> HIDE DEF f, U
<1>2. PICK r : IsIteration(U, f, x, r)
  BY <1>1, Iterates
<1>3. r = [i \in Nat |-> IF i = 0 THEN x ELSE InsertColorTurn(r[i - 1])]
  <2>1. r = [i \in Nat |-> IF i = 0 THEN x ELSE f[r[i - 1]]]
    BY <1>2, Recursion
  <2>2. \A i \in Nat \ {0} : f[r[i - 1]] = InsertColorTurn(r[i - 1])
    BY <1>1, <1>2 DEF IsIteration
  <2> QED BY <2>1, <2>2
<1>4. after = [i \in Nat |-> IF i = 0 THEN x ELSE InsertColorTurn(after[i - 1])]
  BY <1>3
<1> HIDE DEF after
<1>5. Kept(S, after)
  <2>1. after[0] = x /\ \A i \in Nat : after[i + 1] = InsertColorTurn(after[i])
    BY <1>4
  <2>2. ASSUME NEW i \in Nat, after[i] \in S[i] PROVE after[i + 1] \in S[i + 1]
    BY <2>1, <2>2
  <2> QED BY <2>1, <2>2, Keeps
<1>6. InsertColor(T, n) = Paint(after[Cardinality(Nodes(T))].tree, {after[Cardinality(Nodes(T))].tree.root}, {})
  BY DEF Loop, InsertColor, after
<1>7. after[Cardinality(Nodes(T))] \in S[Cardinality(Nodes(T))]
  BY <1>5, FS_CardinalityType DEF Kept
<1> QED BY <1>6, <1>7

\* What the turns keep holds when the search ends.
LEMMA DescendRun ==
  ASSUME NEW T, IsFiniteSet(Nodes(T)), NEW k, NEW S, [node |-> T.root, up |-> Nil] \in S[0],
         \A i \in Nat : \A a \in S[i] : DescendTurn(T, k, a) \in S[i + 1]
  PROVE  Descend(T, k) \in S[Cardinality(Nodes(T))]
<1> DEFINE x == [node |-> T.root, up |-> Nil]
           U == UNION {S[i] : i \in Nat}
           f == [a \in U |-> DescendTurn(T, k, a)]
           after == CHOOSE g : g = [i \in Nat |-> IF i = 0 THEN x ELSE DescendTurn(T, k, g[i - 1])]
<1>1. f \in [U -> U] /\ x \in U /\ \A a \in U : f[a] = DescendTurn(T, k, a)
  OBVIOUS
<1> HIDE DEF f, U
<1>2. PICK r : IsIteration(U, f, x, r)
  BY <1>1, Iterates
<1>3. r = [i \in Nat |-> IF i = 0 THEN x ELSE DescendTurn(T, k, r[i - 1])]
  <2>1. r = [i \in Nat |-> IF i = 0 THEN x ELSE f[r[i - 1]]]
    BY <1>2, Recursion
  <2>2. \A i \in Nat \ {0} : f[r[i - 1]] = DescendTurn(T, k, r[i - 1])
    BY <1>1, <1>2 DEF IsIteration
  <2> QED BY <2>1, <2>2
<1>4. after = [i \in Nat |-> IF i = 0 THEN x ELSE DescendTurn(T, k, after[i - 1])]
  BY <1>3
<1> HIDE DEF after
<1>5. Kept(S, after)
  <2>1. after[0] = x /\ \A i \in Nat : after[i + 1] = DescendTurn(T, k, after[i])
    BY <1>4
  <2>2. ASSUME NEW i \in Nat, after[i] \in S[i] PROVE after[i + 1] \in S[i + 1]
    BY <2>1, <2>2
  <2> QED BY <2>1, <2>2, Keeps
<1>6. Descend(T, k) = after[Cardinality(Nodes(T))]
  BY DEF Loop, Descend, after
<1>7. after[Cardinality(Nodes(T))] \in S[Cardinality(Nodes(T))]
  BY <1>5, FS_CardinalityType DEF Kept
<1> QED BY <1>6, <1>7

\* What the turns keep holds when the walk outwards ends.
LEMMA OutermostRun ==
  ASSUME NEW T, IsFiniteSet(Nodes(T)), NEW s, NEW n, NEW S, n \in S[0],
         \A i \in Nat : \A a \in S[i] : (IF T[s][a] = Nil THEN a ELSE T[s][a]) \in S[i + 1]
  PROVE  Outermost(T, s, n) \in S[Cardinality(Nodes(T))]
<1> DEFINE U == UNION {S[i] : i \in Nat}
           f == [a \in U |-> (IF T[s][a] = Nil THEN a ELSE T[s][a])]
           after == CHOOSE g : g = [i \in Nat |-> IF i = 0 THEN n ELSE (IF T[s][g[i - 1]] = Nil THEN g[i - 1] ELSE T[s][g[i - 1]])]
<1>1. f \in [U -> U] /\ n \in U /\ \A a \in U : f[a] = (IF T[s][a] = Nil THEN a ELSE T[s][a])
  OBVIOUS
<1> HIDE DEF f, U
<1>2. PICK r : IsIteration(U, f, n, r)
  BY <1>1, Iterates
<1>3. r = [i \in Nat |-> IF i = 0 THEN n ELSE (IF T[s][r[i - 1]] = Nil THEN r[i - 1] ELSE T[s][r[i - 1]])]
  <2>1. r = [i \in Nat |-> IF i = 0 THEN n ELSE f[r[i - 1]]]
    BY <1>2, Recursion
  <2>2. \A i \in Nat \ {0} : f[r[i - 1]] = (IF T[s][r[i - 1]] = Nil THEN r[i - 1] ELSE T[s][r[i - 1]])
    BY <1>1, <1>2 DEF IsIteration
  <2> QED BY <2>1, <2>2
<1>4. after = [i \in Nat |-> IF i = 0 THEN n ELSE (IF T[s][after[i - 1]] = Nil THEN after[i - 1] ELSE T[s][after[i - 1]])]
  BY <1>3
<1> HIDE DEF after
<1>5. Kept(S, after)
  <2>1. after[0] = n /\ \A i \in Nat : after[i + 1] = (IF T[s][after[i]] = Nil THEN after[i] ELSE T[s][after[i]])
    BY <1>4
  <2>2. ASSUME NEW i \in Nat, after[i] \in S[i] PROVE after[i + 1] \in S[i + 1]
    BY <2>1, <2>2
  <2> QED BY <2>1, <2>2, Keeps
<1>6. Outermost(T, s, n) = after[Cardinality(Nodes(T))]
  BY DEF Loop, Outermost, after
<1>7. after[Cardinality(Nodes(T))] \in S[Cardinality(Nodes(T))]
  BY <1>5, FS_CardinalityType DEF Kept
<1> QED BY <1>6, <1>7

\* What the turns keep holds when the climb ends.
LEMMA ClimbRun ==
  ASSUME NEW T, IsFiniteSet(Nodes(T)), NEW s, NEW n, NEW S, n \in S[0],
         \A i \in Nat : \A a \in S[i] : ClimbTurn(T, s, a) \in S[i + 1]
  PROVE  \E m \in S[Cardinality(Nodes(T))] : Climb(T, s, n) = T.parent[m]
<1> DEFINE U == UNION {S[i] : i \in Nat}
           f == [a \in U |-> ClimbTurn(T, s, a)]
           after == CHOOSE g : g = [i \in Nat |-> IF i = 0 THEN n ELSE ClimbTurn(T, s, g[i - 1])]
<1>1. f \in [U -> U] /\ n \in U /\ \A a \in U : f[a] = ClimbTurn(T, s, a)
  OBVIOUS
<1> HIDE DEF f, U
<1>2. PICK r : IsIteration(U, f, n, r)
  BY <1>1, Iterates
<1>3. r = [i \in Nat |-> IF i = 0 THEN n ELSE ClimbTurn(T, s, r[i - 1])]
  <2>1. r = [i \in Nat |-> IF i = 0 THEN n ELSE f[r[i - 1]]]
    BY <1>2, Recursion
  <2>2. \A i \in Nat \ {0} : f[r[i - 1]] = ClimbTurn(T, s, r[i - 1])
    BY <1>1, <1>2 DEF IsIteration
  <2> QED BY <2>1, <2>2
<1>4. after = [i \in Nat |-> IF i = 0 THEN n ELSE ClimbTurn(T, s, after[i - 1])]
  BY <1>3
<1> HIDE DEF after
<1>5. Kept(S, after)
  <2>1. after[0] = n /\ \A i \in Nat : after[i + 1] = ClimbTurn(T, s, after[i])
    BY <1>4
  <2>2. ASSUME NEW i \in Nat, after[i] \in S[i] PROVE after[i + 1] \in S[i + 1]
    BY <2>1, <2>2
  <2> QED BY <2>1, <2>2, Keeps
<1>6. Climb(T, s, n) = T.parent[after[Cardinality(Nodes(T))]]
  BY DEF Loop, Climb, after
<1>7. after[Cardinality(Nodes(T))] \in S[Cardinality(Nodes(T))]
  BY <1>5, FS_CardinalityType DEF Kept
<1> QED BY <1>6, <1>7

\* What the turns keep holds when RB_NFIND ends.
LEMMA NFindRun ==
  ASSUME NEW T, IsFiniteSet(Nodes(T)), NEW k, NEW S, [node |-> T.root, best |-> Nil] \in S[0],
         \A i \in Nat : \A a \in S[i] : NFindTurn(T, k, a) \in S[i + 1]
  PROVE  \E end \in S[Cardinality(Nodes(T))] : NFind(T, k) = IF end.node = Nil THEN end.best ELSE end.node
<1> DEFINE x == [node |-> T.root, best |-> Nil]
           U == UNION {S[i] : i \in Nat}
           f == [a \in U |-> NFindTurn(T, k, a)]
           after == CHOOSE g : g = [i \in Nat |-> IF i = 0 THEN x ELSE NFindTurn(T, k, g[i - 1])]
<1>1. f \in [U -> U] /\ x \in U /\ \A a \in U : f[a] = NFindTurn(T, k, a)
  OBVIOUS
<1> HIDE DEF f, U
<1>2. PICK r : IsIteration(U, f, x, r)
  BY <1>1, Iterates
<1>3. r = [i \in Nat |-> IF i = 0 THEN x ELSE NFindTurn(T, k, r[i - 1])]
  <2>1. r = [i \in Nat |-> IF i = 0 THEN x ELSE f[r[i - 1]]]
    BY <1>2, Recursion
  <2>2. \A i \in Nat \ {0} : f[r[i - 1]] = NFindTurn(T, k, r[i - 1])
    BY <1>1, <1>2 DEF IsIteration
  <2> QED BY <2>1, <2>2
<1>4. after = [i \in Nat |-> IF i = 0 THEN x ELSE NFindTurn(T, k, after[i - 1])]
  BY <1>3
<1> HIDE DEF after
<1>5. Kept(S, after)
  <2>1. after[0] = x /\ \A i \in Nat : after[i + 1] = NFindTurn(T, k, after[i])
    BY <1>4
  <2>2. ASSUME NEW i \in Nat, after[i] \in S[i] PROVE after[i + 1] \in S[i + 1]
    BY <2>1, <2>2
  <2> QED BY <2>1, <2>2, Keeps
<1>6. NFind(T, k) = IF after[Cardinality(Nodes(T))].node = Nil THEN after[Cardinality(Nodes(T))].best ELSE after[Cardinality(Nodes(T))].node
  BY DEF Loop, NFind, after
<1>7. after[Cardinality(Nodes(T))] \in S[Cardinality(Nodes(T))]
  BY <1>5, FS_CardinalityType DEF Kept
<1> QED BY <1>6, <1>7

\* What the turns keep holds when RB_REMOVE_COLOR ends.
LEMMA RemoveColorRun ==
  ASSUME NEW T, IsFiniteSet(Nodes(T)), NEW up, NEW n, NEW S, [tree |-> T, up |-> up, node |-> n] \in S[0],
         \A i \in Nat : \A a \in S[i] : RemoveColorTurn(a) \in S[i + 1]
  PROVE  \E end \in S[Cardinality(Nodes(T))] : RemoveColor(T, up, n) = Paint(end.tree, {end.node}, {})
<1> DEFINE x == [tree |-> T, up |-> up, node |-> n]
           U == UNION {S[i] : i \in Nat}
           f == [a \in U |-> RemoveColorTurn(a)]
           after == CHOOSE g : g = [i \in Nat |-> IF i = 0 THEN x ELSE RemoveColorTurn(g[i - 1])]
<1>1. f \in [U -> U] /\ x \in U /\ \A a \in U : f[a] = RemoveColorTurn(a)
  OBVIOUS
<1> HIDE DEF f, U
<1>2. PICK r : IsIteration(U, f, x, r)
  BY <1>1, Iterates
<1>3. r = [i \in Nat |-> IF i = 0 THEN x ELSE RemoveColorTurn(r[i - 1])]
  <2>1. r = [i \in Nat |-> IF i = 0 THEN x ELSE f[r[i - 1]]]
    BY <1>2, Recursion
  <2>2. \A i \in Nat \ {0} : f[r[i - 1]] = RemoveColorTurn(r[i - 1])
    BY <1>1, <1>2 DEF IsIteration
  <2> QED BY <2>1, <2>2
<1>4. after = [i \in Nat |-> IF i = 0 THEN x ELSE RemoveColorTurn(after[i - 1])]
  BY <1>3
<1> HIDE DEF after
<1>5. Kept(S, after)
  <2>1. after[0] = x /\ \A i \in Nat : after[i + 1] = RemoveColorTurn(after[i])
    BY <1>4
  <2>2. ASSUME NEW i \in Nat, after[i] \in S[i] PROVE after[i + 1] \in S[i + 1]
    BY <2>1, <2>2
  <2> QED BY <2>1, <2>2, Keeps
<1>6. RemoveColor(T, up, n) = Paint(after[Cardinality(Nodes(T))].tree, {after[Cardinality(Nodes(T))].node}, {})
  BY DEF Loop, RemoveColor, after
<1>7. after[Cardinality(Nodes(T))] \in S[Cardinality(Nodes(T))]
  BY <1>5, FS_CardinalityType DEF Kept
<1> QED BY <1>6, <1>7

\* What the turns keep holds when the clear ends.
LEMMA ClearRun ==
  ASSUME NEW T, IsFiniteSet(Nodes(T)), NEW S, [tree |-> T, node |-> Extreme(T, "left")] \in S[0],
         \A i \in Nat : \A a \in S[i] : ClearTurn(a) \in S[i + 1]
  PROVE  \E end \in S[Cardinality(Nodes(T))] : Clear(T) = end.tree
<1> DEFINE x == [tree |-> T, node |-> Extreme(T, "left")]
           U == UNION {S[i] : i \in Nat}
           f == [a \in U |-> ClearTurn(a)]
           after == CHOOSE g : g = [i \in Nat |-> IF i = 0 THEN x ELSE ClearTurn(g[i - 1])]
<1>1. f \in [U -> U] /\ x \in U /\ \A a \in U : f[a] = ClearTurn(a)
  OBVIOUS
<1> HIDE DEF f, U
<1>2. PICK r : IsIteration(U, f, x, r)
  BY <1>1, Iterates
<1>3. r = [i \in Nat |-> IF i = 0 THEN x ELSE ClearTurn(r[i - 1])]
  <2>1. r = [i \in Nat |-> IF i = 0 THEN x ELSE f[r[i - 1]]]
    BY <1>2, Recursion
  <2>2. \A i \in Nat \ {0} : f[r[i - 1]] = ClearTurn(r[i - 1])
    BY <1>1, <1>2 DEF IsIteration
  <2> QED BY <2>1, <2>2
<1>4. after = [i \in Nat |-> IF i = 0 THEN x ELSE ClearTurn(after[i - 1])]
  BY <1>3
<1> HIDE DEF after
<1>5. Kept(S, after)
  <2>1. after[0] = x /\ \A i \in Nat : after[i + 1] = ClearTurn(after[i])
    BY <1>4
  <2>2. ASSUME NEW i \in Nat, after[i] \in S[i] PROVE after[i + 1] \in S[i + 1]
    BY <2>1, <2>2
  <2> QED BY <2>1, <2>2, Keeps
<1>6. Clear(T) = after[Cardinality(Nodes(T))].tree
  BY DEF Loop, Clear, after
<1>7. after[Cardinality(Nodes(T))] \in S[Cardinality(Nodes(T))]
  BY <1>5, FS_CardinalityType DEF Kept
<1> QED BY <1>6, <1>7

-----------------------------------------------------------------------------
(* Subtrees, and the search. *)

\* A node of a subtree, but its topmost, is in the subtree of a child of that.
LEMMA Split ==
  ASSUME NEW T, NEW sub, Shape(T, sub), NEW n \in Nodes(T), NEW m \in sub[n], m # n
  PROVE  \E s \in Sides : m \in Sub(sub, T[s][n])
<1>1. "left" \in Sides /\ Opposite("left") \in Sides
  BY DEF Sides, Opposite
<1>2. sub[n] = {n} \cup Sub(sub, T["left"][n]) \cup Sub(sub, T[Opposite("left")][n])
  BY <1>1 DEF Shape, Branches
<1> QED BY <1>1, <1>2

\* The subtrees of n are smaller than its own.
LEMMA Smaller ==
  ASSUME NEW T, NEW sub, Shape(T, sub), IsFiniteSet(Nodes(T)), NEW n \in Nodes(T)
  PROVE  /\ IsFiniteSet(sub[n]) /\ Cardinality(sub[n]) \in Nat /\ Cardinality(sub[n]) > 0
         /\ Cardinality(Nodes(T)) \in Nat /\ Cardinality(sub[n]) <= Cardinality(Nodes(T))
         /\ \A s \in Sides : T[s][n] # Nil => Cardinality(sub[T[s][n]]) < Cardinality(sub[n])
<1>1. n \in sub[n] /\ sub[n] \subseteq Nodes(T)
  BY Kin
<1>2. IsFiniteSet(sub[n]) /\ Cardinality(sub[n]) \in Nat /\ Cardinality(sub[n]) <= Cardinality(Nodes(T)) /\ Cardinality(Nodes(T)) \in Nat
  BY <1>1, FS_Subset, FS_CardinalityType
<1>3. Cardinality(sub[n]) > 0
  <2>1. Cardinality(sub[n]) # 0
    BY <1>1, <1>2, FS_EmptySet
  <2> QED BY <2>1, <1>2
<1>4. ASSUME NEW s \in Sides, T[s][n] # Nil PROVE Cardinality(sub[T[s][n]]) < Cardinality(sub[n])
  <2>1. sub[T[s][n]] \subseteq sub[n] /\ n \notin sub[T[s][n]]
    BY <1>4, Kin DEF Sub
  <2>2. sub[T[s][n]] # sub[n]
    BY <2>1, <1>1
  <2> QED BY <2>1, <2>2, <1>2, FS_Subset, FS_CardinalityType
<1> QED BY <1>2, <1>3, <1>4

\* The subtree of a node of a subtree is in it, and so is the parent of such a node but
\* the topmost.
LEMMA Within ==
  ASSUME NEW T, NEW sub, Shape(T, sub), IsFiniteSet(Nodes(T)), NEW c \in Nodes(T), NEW n \in sub[c]
  PROVE  n \in Nodes(T) /\ sub[n] \subseteq sub[c] /\ (n # c => T.parent[n] \in sub[c])
<1> DEFINE D == Nodes(T)
           Holds(a) == \A m \in sub[a] : sub[m] \subseteq sub[a] /\ (m # a => T.parent[m] \in sub[a])
           Size == {i \in Nat : \A a \in D : Cardinality(sub[a]) <= i => Holds(a)}
<1>1. 0 \in Size
  BY Smaller
<1>2. ASSUME NEW i \in Nat, i \in Size PROVE i + 1 \in Size
  <2>1. SUFFICES ASSUME NEW a \in D, Cardinality(sub[a]) <= i + 1, NEW m \in sub[a], m # a
                 PROVE  sub[m] \subseteq sub[a] /\ T.parent[m] \in sub[a]
    OBVIOUS
  <2>2. PICK s \in Sides : m \in Sub(sub, T[s][a])
    BY <2>1, Split
  <2> DEFINE d == T[s][a]
  <2>3. d # Nil /\ d \in D /\ m \in sub[d] /\ sub[d] \subseteq sub[a] /\ T.parent[d] = a /\ a \in sub[a]
    BY <2>2, Kin DEF Sub
  <2>4. Cardinality(sub[d]) <= i
    <3>1. Cardinality(sub[d]) < Cardinality(sub[a]) /\ Cardinality(sub[a]) \in Nat /\ Cardinality(sub[d]) \in Nat
      BY <2>3, Smaller
    <3> QED BY <3>1, <2>1
  <2>5. Holds(d)
    BY <1>2, <2>3, <2>4
  <2> QED BY <2>3, <2>5
<1>3. \A i \in Nat : i \in Size
  <2> HIDE DEF Size
  <2> QED BY <1>1, <1>2, Induction
<1>4. Holds(c)
  BY <1>3, Smaller
<1> QED BY <1>4, Kin

\* A node outside the subtree of n is on one side of all its nodes.
LEMMA Apart ==
  ASSUME NEW T, NEW sub, Shape(T, sub), IsFiniteSet(Nodes(T)), NEW n \in Nodes(T), NEW a \in Nodes(T) \ sub[n]
  PROVE  \E z \in Sides : \A r \in sub[n] : Toward(z, a, r)
<1> DEFINE D == Nodes(T)
           Above == {Cardinality(sub[c]) : c \in {d \in D : a \in sub[d] /\ n \in sub[d]}}
<1>1. T.root \in D /\ sub[T.root] = D /\ OrderOn(D)
  BY Kids, Fields DEF Shape, Branches, Sub
<1>2. Above # {} /\ Above \subseteq Nat
  BY <1>1, Smaller
<1>3. PICK c \in D : a \in sub[c] /\ n \in sub[c] /\ \A y \in Above : Cardinality(sub[c]) <= y
  <2> HIDE DEF Above
  <2>1. PICK x \in Above : \A y \in Above : x <= y
    BY <1>2, LeastNat
  <2> QED BY <2>1 DEF Above
<1> HIDE DEF Above
<1>4. ASSUME NEW z \in Sides PROVE ~(a \in Sub(sub, T[z][c]) /\ n \in Sub(sub, T[z][c]))
  <2>1. SUFFICES ASSUME a \in Sub(sub, T[z][c]), n \in Sub(sub, T[z][c]) PROVE FALSE
    OBVIOUS
  <2>2. T[z][c] # Nil /\ T[z][c] \in D /\ a \in sub[T[z][c]] /\ n \in sub[T[z][c]]
    BY <2>1, Kin DEF Sub
  <2>3. Cardinality(sub[T[z][c]]) \in Above
    BY <2>2 DEF Above
  <2>4. Cardinality(sub[T[z][c]]) < Cardinality(sub[c]) /\ Cardinality(sub[c]) \in Nat /\ Cardinality(sub[T[z][c]]) \in Nat
    BY <2>2, Smaller
  <2> QED BY <2>3, <2>4, <1>3
<1>5. sub[n] \subseteq D /\ n \in sub[n]
  BY Kin
<1>6. n # c
  BY <1>3
<1>7. PICK q \in Sides : n \in Sub(sub, T[q][c])
  BY <1>3, <1>6, Split
<1>8. sub[n] \subseteq Sub(sub, T[q][c])
  <2>1. T[q][c] # Nil /\ T[q][c] \in D /\ n \in sub[T[q][c]]
    BY <1>7, Kids DEF Sub
  <2> QED BY <2>1, Within DEF Sub
<1>9. \A r \in sub[n] : Toward(q, r, c)
  BY <1>8 DEF Shape, Branches
<1>10. Opposite(q) \in Sides /\ \A x, y : Toward(Opposite(q), x, y) <=> Toward(q, y, x)
  BY SidesAre
<1>11. CASE a = c
  BY <1>9, <1>10, <1>11
<1>12. CASE a # c
  <2>1. a \in Sub(sub, T[Opposite(q)][c])
    <3>1. sub[c] = {c} \cup Sub(sub, T[q][c]) \cup Sub(sub, T[Opposite(q)][c])
      BY DEF Shape, Branches
    <3> QED BY <3>1, <1>3, <1>4, <1>7, <1>12
  <2>2. Toward(Opposite(q), a, c)
    BY <2>1, <1>10 DEF Shape, Branches
  <2>3. ASSUME NEW r \in sub[n] PROVE Toward(Opposite(q), a, r)
    <3>1. Toward(Opposite(q), c, r)
      BY <1>9, <1>10
    <3> QED BY <3>1, <2>2, <1>1, <1>5, <1>10, TowardOrder
  <2> QED BY <2>3, <1>10
<1> QED BY <1>11, <1>12

\* What the search for k keeps, after i turns: k, if it is a node, is under the node
\* reached, and it lies on the side of the path that the path takes.
Descending(T, sub, k, at, i) ==
  /\ at.up = Nil => at.node = T.root
  /\ at.up # Nil => \E s \in Sides : T[s][at.up] = at.node /\ Toward(s, k, at.up)
  /\ \A a \in Nodes(T), s \in Sides : at.up \in Sub(sub, T[s][a]) => Toward(s, k, a)
  /\ k \in Nodes(T) => k \in Sub(sub, at.node)
  /\ at.node \notin {Nil, k} => Cardinality(sub[at.node]) + i <= Cardinality(Nodes(T))

\* A turn of the search keeps this.
LEMMA DescendKeeps ==
  ASSUME NEW T, NEW sub, Shape(T, sub), IsFiniteSet(Nodes(T)), NEW k, OrderOn(Nodes(T) \cup {k}),
         NEW at \in [node : Nodes(T) \cup {Nil}, up : Nodes(T) \cup {Nil}], NEW i \in Nat,
         Descending(T, sub, k, at, i)
  PROVE  /\ DescendTurn(T, k, at) \in [node : Nodes(T) \cup {Nil}, up : Nodes(T) \cup {Nil}]
         /\ Descending(T, sub, k, DescendTurn(T, k, at), i + 1)
<1> DEFINE D == Nodes(T)
           m == at.node
           P == DescendTurn(T, k, at)
<1>1. CASE m = Nil \/ m = k
  <2>1. P = at
    <3>1. m = k => k = Nil \/ (~Less(k, k))
      BY DEF OrderOn
    <3> QED BY <3>1, <1>1 DEF DescendTurn
  <2> QED BY <2>1, <1>1 DEF Descending
<1>2. CASE m # Nil /\ m # k
  <2>1. m \in D
    BY <1>2
  <2>2. PICK s \in Sides : Toward(s, k, m)
    <3>1. Less(k, m) \/ Less(m, k)
      BY <1>2, <2>1 DEF OrderOn
    <3> QED BY <3>1 DEF Toward, Sides
  <2> DEFINE d == T[s][m]
  <2>3. P = [node |-> d, up |-> m]
    <3>1. ~(Less(k, m) /\ Less(m, k))
      BY <2>1 DEF OrderOn
    <3> QED BY <3>1, <2>2, <1>2 DEF DescendTurn, Toward, Sides
  <2>4. d \in D \cup {Nil}
    BY <2>1, Kids
  <2>5. ASSUME NEW a \in D, NEW z \in Sides, m \in Sub(sub, T[z][a]) PROVE Toward(z, k, a)
    <3>1. T[z][a] \in D /\ T[z][a] # Nil /\ m \in sub[T[z][a]] /\ Sub(sub, T[z][a]) = sub[T[z][a]]
      BY <2>5, Kids DEF Sub
    <3>2. m # T[z][a] => T.parent[m] \in Sub(sub, T[z][a])
      BY <3>1, Within
    <3>3. at.up # Nil => T.parent[m] = at.up
      BY <1>2, Kids DEF Descending
    <3>4. at.up = Nil => m = T.root
      BY DEF Descending
    <3>5. T[z][a] # T.root /\ T.parent[T[z][a]] = a
      BY <3>1, Kids
    <3>6. CASE at.up = Nil
      <4>1. T.parent[m] = Nil
        BY <3>4, <3>6, <2>1, Kin
      <4>2. Nil \notin Sub(sub, T[z][a])
        BY <3>1, Kin DEF Shape
      <4> QED BY <3>2, <3>4, <3>5, <3>6, <4>1, <4>2
    <3>7. CASE at.up # Nil /\ m # T[z][a]
      BY <3>2, <3>3, <3>7 DEF Descending
    <3>8. CASE at.up # Nil /\ m = T[z][a]
      <4>1. at.up = a
        BY <3>3, <3>5, <3>8
      <4>2. PICK q \in Sides : T[q][a] = m /\ Toward(q, k, a)
        BY <4>1, <3>8 DEF Descending
      <4>3. T[Opposite(z)][a] # T[z][a]
        BY <3>1, Kids
      <4>4. q = z
        BY <4>2, <4>3, <3>8, SidesAre
      <4> QED BY <4>2, <4>4
    <3> QED BY <3>6, <3>7, <3>8
  <2>6. k \in D => k \in Sub(sub, d)
    <3>1. SUFFICES ASSUME k \in D PROVE k \in Sub(sub, d)
      OBVIOUS
    <3>2. k \in sub[m]
      BY <3>1, <1>2 DEF Descending, Sub
    <3>3. PICK q \in Sides : k \in Sub(sub, T[q][m])
      BY <3>2, <2>1, <1>2, Split
    <3>4. Toward(q, k, m)
      BY <3>3, <2>1 DEF Shape, Branches
    <3>5. q = s
      BY <3>1, <3>4, <2>1, <2>2, SidesAre, TowardOrder DEF Shape
    <3> QED BY <3>3, <3>5
  <2>7. d # Nil => Cardinality(sub[d]) + (i + 1) <= Cardinality(D)
    <3>1. SUFFICES ASSUME d # Nil PROVE Cardinality(sub[d]) + (i + 1) <= Cardinality(D)
      OBVIOUS
    <3>2. Cardinality(sub[m]) + i <= Cardinality(D)
      BY <1>2 DEF Descending
    <3>3. Cardinality(sub[d]) < Cardinality(sub[m]) /\ Cardinality(sub[d]) \in Nat /\ Cardinality(sub[m]) \in Nat /\ Cardinality(D) \in Nat
      BY <3>1, <2>1, <2>4, Smaller
    <3> QED BY <3>2, <3>3
  <2> HIDE DEF P, d
  <2>8. P.node = d /\ P.up = m
    BY <2>3
  <2>9. Descending(T, sub, k, P, i + 1)
    BY <2>1, <2>2, <2>5, <2>6, <2>7, <2>8, Kids DEF Descending, d
  <2> QED BY <2>1, <2>3, <2>4, <2>9 DEF P
<1> QED BY <1>1, <1>2

\* The search ends at k, or below the node under which k belongs, on its side of all the
\* nodes above.
LEMMA DescendIs ==
  ASSUME NEW T, NEW sub, Shape(T, sub), IsFiniteSet(Nodes(T)), NEW k, OrderOn(Nodes(T) \cup {k})
  PROVE  /\ Descend(T, k).node = IF k \in Nodes(T) THEN k ELSE Nil
         /\ Descend(T, k).up \in Nodes(T) \cup {Nil}
         /\ Descending(T, sub, k, Descend(T, k), Cardinality(Nodes(T)))
<1> DEFINE D == Nodes(T)
           Typed == [node : D \cup {Nil}, up : D \cup {Nil}]
           x == [node |-> T.root, up |-> Nil]
           S == [i \in Nat |-> {at \in Typed : Descending(T, sub, k, at, i)}]
           end == Descend(T, k)
<1>1. T.root \in D \cup {Nil} /\ Nil \notin D /\ Sub(sub, T.root) = D
  BY Fields DEF Shape, Branches
<1>2. Cardinality(D) \in Nat
  BY FS_CardinalityType
<1>3. x \in S[0]
  <2>1. x \in Typed
    BY <1>1
  <2>2. ASSUME NEW a \in D, NEW s \in Sides PROVE Nil \notin Sub(sub, T[s][a])
    BY <1>1, Kin
  <2>3. x.node # Nil => Cardinality(sub[x.node]) + 0 <= Cardinality(D)
    BY <1>1, <1>2 DEF Sub
  <2>4. x.node = T.root /\ x.up = Nil
    OBVIOUS
  <2> HIDE DEF x
  <2>5. Descending(T, sub, k, x, 0)
    BY <2>2, <2>3, <2>4, <1>1 DEF Descending
  <2> QED BY <2>1, <2>5
<1>4. \A i \in Nat : \A a \in S[i] : DescendTurn(T, k, a) \in S[i + 1]
  <2>1. ASSUME NEW i \in Nat, NEW a \in S[i] PROVE DescendTurn(T, k, a) \in S[i + 1]
    <3>1. a \in Typed /\ Descending(T, sub, k, a, i) /\ i + 1 \in Nat
      OBVIOUS
    <3>2. DescendTurn(T, k, a) \in Typed /\ Descending(T, sub, k, DescendTurn(T, k, a), i + 1)
      BY <3>1, DescendKeeps
    <3> QED BY <3>1, <3>2
  <2> QED BY <2>1
<1> HIDE DEF end
<1>5. end \in S[Cardinality(D)]
  <2> HIDE DEF S
  <2> QED BY <1>3, <1>4, DescendRun DEF end
<1>6. end \in Typed /\ Descending(T, sub, k, end, Cardinality(D))
  BY <1>2, <1>5
<1>7. end.node = Nil \/ end.node = k
  <2>1. SUFFICES ASSUME end.node \notin {Nil, k} PROVE FALSE
    OBVIOUS
  <2>2. Cardinality(sub[end.node]) + Cardinality(D) <= Cardinality(D)
    BY <2>1, <1>6 DEF Descending
  <2>3. Cardinality(sub[end.node]) \in Nat /\ Cardinality(sub[end.node]) > 0
    BY <2>1, <1>6, Smaller
  <2> QED BY <2>2, <2>3, <1>2
<1>8. end.node = IF k \in D THEN k ELSE Nil
  <2>1. k \in D => end.node # Nil
    BY <1>6 DEF Descending, Sub
  <2> QED BY <2>1, <1>1, <1>6, <1>7
<1> QED BY <1>6, <1>8 DEF end

\* RB_FIND returns the node equal to k, which is k here, or Nil.
THEOREM FindIs ==
  ASSUME NEW T, NEW sub, Shape(T, sub), IsFiniteSet(Nodes(T)), NEW k, OrderOn(Nodes(T) \cup {k})
  PROVE  Find(T, k) = IF k \in Nodes(T) THEN k ELSE Nil
  BY DescendIs DEF Find

-----------------------------------------------------------------------------
(* RB_INSERT. *)

\* P is T with the red leaf n under up on side s.
LeafAdded(T, up, s, n, P) ==
  /\ P \in TreesOn(Nodes(T) \cup {n})
  /\ P.root = (IF up = Nil THEN n ELSE T.root) /\ P.red = T.red \cup {n}
  /\ \A z \in Sides : P[z][n] = Nil
  /\ \A z \in Sides, m \in Nodes(T) : P[z][m] = IF m = up /\ z = s THEN n ELSE T[z][m]
  /\ P.parent[n] = up /\ \A m \in Nodes(T) : P.parent[m] = T.parent[m]

\* A tree on fewer nodes, in a larger set of them.
LEMMA TypedMore ==
  ASSUME NEW D, NEW T \in TreesOn(D), NEW E, D \subseteq E
  PROVE  T.root \in E \cup {Nil} /\ T.left \in [D -> E \cup {Nil}] /\ T.right \in [D -> E \cup {Nil}]
         /\ T.parent \in [D -> E \cup {Nil}] /\ T.red \in SUBSET E
  BY DEF TreesOn

\* AddLeaf does this.
LEMMA AddLeafIs ==
  ASSUME NEW D, Nil \notin D, NEW T \in TreesOn(D), NEW n, n \notin D, n # Nil, NEW up \in D \cup {Nil}
  PROVE  LeafAdded(T, up, IF Less(n, up) THEN "left" ELSE "right", n, AddLeaf(T, up, n))
<1> DEFINE E == D \cup {n}
           V == E \cup {Nil}
           l == With(T.left, n, Nil)
           r == With(T.right, n, Nil)
           p == With(T.parent, n, up)
           leaf == [T EXCEPT !.left = l, !.right = r, !.parent = p, !.red = @ \cup {n}]
           s == IF Less(n, up) THEN "left" ELSE "right"
           P == AddLeaf(T, up, n)
<1>1. /\ T.root \in V /\ T.left \in [D -> V] /\ T.right \in [D -> V] /\ T.parent \in [D -> V] /\ T.red \in SUBSET E
      /\ Nodes(T) = D /\ up \in V /\ Nil \in V /\ n \in V
  BY TypedMore, Fields
<1>2. /\ l \in [E -> V] /\ l[n] = Nil /\ \A k \in D : l[k] = T.left[k]
      /\ r \in [E -> V] /\ r[n] = Nil /\ \A k \in D : r[k] = T.right[k]
      /\ p \in [E -> V] /\ p[n] = up /\ \A k \in D : p[k] = T.parent[k]
  <2> HIDE DEF V
  <2>1. l \in [E -> V] /\ l[n] = Nil /\ \A k \in D : l[k] = T.left[k]
    BY <1>1 DEF With
  <2>2. r \in [E -> V] /\ r[n] = Nil /\ \A k \in D : r[k] = T.right[k]
    BY <1>1 DEF With
  <2>3. p \in [E -> V] /\ p[n] = up /\ \A k \in D : p[k] = T.parent[k]
    BY <1>1 DEF With
  <2> QED BY <2>1, <2>2, <2>3
<1> HIDE DEF l, r, p
<1>3. /\ leaf \in TreesOn(E) /\ leaf.root = T.root /\ leaf.left = l /\ leaf.right = r
      /\ leaf.parent = p /\ leaf.red = T.red \cup {n}
  BY <1>1, <1>2 DEF TreesOn
<1>4. P = IF up = Nil THEN [leaf EXCEPT !.root = n] ELSE SetChild(leaf, s, up, n)
  BY DEF AddLeaf, l, r, p
<1> HIDE DEF leaf, P
<1>5. ASSUME NEW z \in Sides PROVE leaf[z][n] = Nil /\ \A m \in D : leaf[z][m] = T[z][m]
  BY <1>2, <1>3 DEF Sides
<1>6. CASE up = Nil
  <2>1. P \in TreesOn(E) /\ P.root = n /\ P.left = leaf.left /\ P.right = leaf.right /\ P.parent = leaf.parent /\ P.red = leaf.red
    BY <1>3, <1>4, <1>6 DEF TreesOn
  <2>2. \A z \in Sides : P[z] = leaf[z]
    BY <2>1 DEF Sides
  <2> QED BY <1>1, <1>2, <1>3, <1>5, <1>6, <2>1, <2>2 DEF LeafAdded, P
<1>7. CASE up # Nil
  <2>1. up \in D /\ s \in Sides
    BY <1>7 DEF Sides
  <2> HIDE DEF s
  <2>2. ChildSet(E, leaf, s, up, n, P)
    BY <2>1, <1>3, <1>4, <1>7, SetChildIs
  <2>3. leaf[s] \in [E -> V]
    BY <2>1, <1>2, <1>3 DEF Sides
  <2>4. ASSUME NEW z \in Sides PROVE P[z][n] = Nil /\ \A m \in D : P[z][m] = IF m = up /\ z = s THEN n ELSE T[z][m]
    BY <2>1, <2>2, <2>3, <1>5, SidesAre DEF ChildSet
  <2>5. LeafAdded(T, up, s, n, P)
    BY <1>1, <1>2, <1>3, <1>7, <2>2, <2>4 DEF LeafAdded, ChildSet
  <2> QED BY <2>5 DEF P, s
<1> QED BY <1>6, <1>7

\* A leaf hung where the search for it ends leaves the tree in order and every way down
\* with as many black nodes; only the leaf may have a red parent.
LEMMA LeafShape ==
  ASSUME NEW T, NEW sub, Shape(T, sub), IsFiniteSet(Nodes(T)), NEW bh, Heights(T, bh), RedUnder(T, Nil),
         NEW n, n \notin Nodes(T), n # Nil, OrderOn(Nodes(T) \cup {n}),
         NEW at, Descending(T, sub, n, at, Cardinality(Nodes(T))), at.up \in Nodes(T) \cup {Nil}, at.node = Nil,
         NEW s \in Sides, at.up # Nil => Toward(s, n, at.up),
         NEW P, LeafAdded(T, at.up, s, n, P)
  PROVE  \E sub2, bh2 : Shape(P, sub2) /\ Nodes(P) = Nodes(T) \cup {n} /\ Heights(P, bh2) /\ RedUnder(P, n)
<1> DEFINE D == Nodes(T)
           E == D \cup {n}
           up == at.up
           sub2 == [m \in E |-> IF m = n THEN {n} ELSE IF up \in sub[m] THEN sub[m] \cup {n} ELSE sub[m]]
           bh2 == [m \in E |-> IF m = n THEN 0 ELSE bh[m]]
<1>1. T \in TreesOn(D) /\ Nil \notin D /\ T.root \in D \cup {Nil} /\ Sub(sub, T.root) = D /\ sub \in [D -> SUBSET D]
  BY Fields DEF Shape, Branches
<1>2. ASSUME NEW m \in D, NEW z \in Sides
      PROVE  /\ T[z][m] \in D \cup {Nil} /\ T[z][m] # n
             /\ T[z][m] # Nil => T.parent[T[z][m]] = m /\ T[z][m] # T.root
  BY Kids
<1>3. /\ P \in TreesOn(E) /\ Nodes(P) = E /\ Nil \notin E
      /\ P.root = (IF up = Nil THEN n ELSE T.root) /\ P.red = T.red \cup {n} /\ P.parent[n] = up
  BY <1>1, Fields DEF LeafAdded
<1>4. ASSUME NEW z \in Sides
      PROVE  P[z][n] = Nil /\ \A m \in D : P[z][m] = IF m = up /\ z = s THEN n ELSE T[z][m]
  BY DEF LeafAdded
<1>5. \A m \in D : P.parent[m] = T.parent[m]
  BY DEF LeafAdded
<1>6. up # Nil => T[s][up] = Nil
  <2>1. SUFFICES ASSUME up # Nil PROVE T[s][up] = Nil
    OBVIOUS
  <2>2. PICK z \in Sides : T[z][up] = Nil /\ Toward(z, n, up)
    BY <2>1 DEF Descending
  <2>3. z = s
    BY <2>1, <2>2, TowardOrder, SidesAre
  <2> QED BY <2>2, <2>3
<1>7. up = Nil => D = {} /\ T.root = Nil
  BY <1>1 DEF Descending, Sub
<1>8. up # Nil => T.root # Nil /\ up \in sub[T.root] /\ T.root \in D
  BY <1>1 DEF Sub
<1> HIDE DEF up, E
<1>9. Linked(P)
  <2>1. P.root # Nil => P.parent[P.root] = Nil
    <3>1. T.root # Nil => T.parent[T.root] = Nil
      BY DEF Shape, Linked
    <3> QED BY <3>1, <1>1, <1>3, <1>5, <1>7, <1>8
  <2>2. ASSUME NEW m \in E, m # P.root PROVE P.parent[m] \in E /\ \E z \in Sides : P[z][P.parent[m]] = m
    <3>1. CASE m = n
      <4>1. up # Nil /\ up \in D /\ P.parent[m] = up
        BY <3>1, <2>2, <1>3 DEF up
      <4> QED BY <4>1, <3>1, <1>4 DEF E
    <3>2. CASE m # n
      <4>1. m \in D /\ m # T.root /\ up # Nil
        BY <3>2, <2>2, <1>3, <1>7 DEF E
      <4>2. PICK z \in Sides : T[z][T.parent[m]] = m /\ T.parent[m] \in D
        BY <4>1, Kin
      <4>3. P[z][T.parent[m]] = m
        BY <4>1, <4>2, <1>1, <1>4, <1>6
      <4> QED BY <4>1, <4>2, <4>3, <1>5 DEF E
    <3> QED BY <3>1, <3>2
  <2>3. ASSUME NEW m \in E, NEW z \in Sides, P[z][m] # Nil PROVE P.parent[P[z][m]] = m
    <3>1. m \in D
      BY <2>3, <1>4 DEF E
    <3> QED BY <3>1, <2>3, <1>2, <1>3, <1>4, <1>5
  <2> QED BY <2>1, <2>2, <2>3, <1>3 DEF Linked
<1>10. Branches(P, sub2)
  <2>1. /\ sub2 \in [E -> SUBSET E] /\ sub2[n] = {n}
        /\ \A m \in D : sub2[m] = IF up \in sub[m] THEN sub[m] \cup {n} ELSE sub[m]
    <3>1. ASSUME NEW m \in E PROVE sub2[m] \in SUBSET E
      BY <1>1 DEF E
    <3> QED BY <3>1 DEF E
  <2> HIDE DEF sub2
  <2>2. Sub(sub2, P.root) = E
    <3>1. CASE up = Nil
      BY <3>1, <2>1, <1>3, <1>7 DEF Sub, E
    <3>2. CASE up # Nil
      BY <3>2, <2>1, <1>1, <1>3, <1>8 DEF Sub, E
    <3> QED BY <3>1, <3>2
  <2>3. ASSUME NEW m \in D \cup {Nil} PROVE Sub(sub2, m) = IF up \in Sub(sub, m) THEN Sub(sub, m) \cup {n} ELSE Sub(sub, m)
    BY <2>1, <1>1 DEF Sub
  <2>4. Sub(sub2, n) = {n} /\ Sub(sub2, Nil) = {}
    BY <2>1 DEF Sub
  <2>5. ASSUME NEW m \in E, NEW z \in Sides
        PROVE  /\ sub2[m] = {m} \cup Sub(sub2, P[z][m]) \cup Sub(sub2, P[Opposite(z)][m])
               /\ \A k \in Sub(sub2, P[z][m]) : Toward(z, k, m)
    <3>1. CASE m = n
      BY <3>1, <2>1, <2>4, <1>4, SidesAre
    <3>2. CASE m # n
      <4>1. m \in D
        BY <3>2 DEF E
      <4>2. /\ sub[m] = {m} \cup Sub(sub, T[z][m]) \cup Sub(sub, T[Opposite(z)][m])
            /\ \A k \in Sub(sub, T[z][m]) : Toward(z, k, m)
        BY <4>1 DEF Shape, Branches
      <4>3. ASSUME NEW q \in Sides
            PROVE  Sub(sub2, P[q][m]) = Sub(sub, T[q][m]) \cup
                     (IF (m = up /\ q = s) \/ up \in Sub(sub, T[q][m]) THEN {n} ELSE {})
        <5>1. CASE m = up /\ q = s
          BY <5>1, <4>1, <2>4, <1>1, <1>4, <1>6 DEF Sub
        <5>2. CASE ~(m = up /\ q = s)
          <6>1. P[q][m] = T[q][m] /\ T[q][m] \in D \cup {Nil}
            BY <5>2, <4>1, <1>2, <1>4
          <6> QED BY <5>2, <6>1, <2>3
        <5> QED BY <5>1, <5>2
      <4>4. up \in sub[m] <=> up = m \/ up \in Sub(sub, T[z][m]) \/ up \in Sub(sub, T[Opposite(z)][m])
        BY <4>2
      <4>5. sub2[m] = {m} \cup Sub(sub2, P[z][m]) \cup Sub(sub2, P[Opposite(z)][m])
        <5>1. Opposite(z) \in Sides /\ \A q \in Sides : q = z \/ q = Opposite(z)
          BY SidesAre
        <5>2. n \in sub2[m] => m = up \/ up \in Sub(sub, T[z][m]) \/ up \in Sub(sub, T[Opposite(z)][m])
          BY <4>1, <4>4, <2>1, <1>1
        <5>3. sub2[m] \ {n} = sub[m] /\ n \notin sub[m] /\ (up \in sub[m] <=> n \in sub2[m])
          <6>1. sub[m] \subseteq D /\ n \notin D
            BY <4>1, <1>1
          <6>2. sub2[m] = IF up \in sub[m] THEN sub[m] \cup {n} ELSE sub[m]
            BY <4>1, <2>1
          <6>3. n \notin sub[m]
            BY <6>1
          <6> QED BY <6>2, <6>3
        <5>4. s = z \/ s = Opposite(z)
          BY <5>1
        <5> QED BY <5>1, <5>2, <5>3, <5>4, <4>2, <4>3, <4>4
      <4>6. ASSUME NEW k \in Sub(sub2, P[z][m]) PROVE Toward(z, k, m)
        <5>1. CASE k \in Sub(sub, T[z][m])
          BY <5>1, <4>2
        <5>2. CASE k = n /\ m = up /\ z = s
          BY <5>2, <4>1, <1>1 DEF up
        <5>3. CASE k = n /\ up \in Sub(sub, T[z][m])
          BY <5>3, <4>1 DEF Descending, up
        <5> QED BY <5>1, <5>2, <5>3, <4>3, <4>6
      <4> QED BY <4>5, <4>6
    <3> QED BY <3>1, <3>2
  <2> QED BY <2>1, <2>2, <2>5, <1>3 DEF Branches
<1>11. Heights(P, bh2)
  <2>1. bh \in [D -> Nat] /\ \A m \in D, z \in Sides : bh[m] = Bh(bh, T[z][m]) + Weight(T, m)
    BY DEF Heights
  <2>2. bh2 \in [E -> Nat] /\ bh2[n] = 0 /\ \A m \in D : bh2[m] = bh[m]
    BY <2>1 DEF E
  <2> HIDE DEF bh2
  <2>3. ASSUME NEW m \in E, NEW z \in Sides PROVE bh2[m] = Bh(bh2, P[z][m]) + Weight(P, m)
    <3>1. CASE m = n
      BY <3>1, <2>2, <1>3, <1>4 DEF Bh, Weight
    <3>2. CASE m # n
      <4>1. m \in D /\ Weight(P, m) = Weight(T, m)
        BY <3>2, <1>3 DEF E, Weight
      <4>2. Bh(bh2, P[z][m]) = Bh(bh, T[z][m])
        BY <4>1, <2>2, <1>1, <1>2, <1>3, <1>4, <1>6 DEF Bh
      <4> QED BY <4>1, <4>2, <2>1, <2>2
    <3> QED BY <3>1, <3>2
  <2> QED BY <2>2, <2>3, <1>3 DEF Heights
<1>12. RedUnder(P, n)
  <2>1. ASSUME NEW m \in T.red PROVE m \in D /\ m # T.root /\ m # n /\ \A z \in Sides : T[z][m] \notin T.red
    BY <1>1, Kids DEF RedUnder
  <2>2. ASSUME NEW m \in P.red, m = P.root PROVE m = n
    BY <2>1, <2>2, <1>3
  <2>3. ASSUME NEW m \in P.red, NEW z \in Sides, P[z][m] \in P.red PROVE P[z][m] = n
    <3>1. CASE m = n
      BY <3>1, <2>3, <1>3, <1>4, Kids DEF E
    <3>2. CASE m # n
      BY <3>2, <2>1, <2>3, <1>3, <1>4
    <3> QED BY <3>1, <3>2
  <2> QED BY <2>2, <2>3 DEF RedUnder
<1> QED BY <1>3, <1>9, <1>10, <1>11, <1>12 DEF Shape, E

\* The tree is in order, the root is black, no red node has a red parent, and every way
\* down from a node has as many black nodes as any other.
Good(T) ==
  /\ IsFiniteSet(Nodes(T))
  /\ \E sub, bh : Shape(T, sub) /\ Heights(T, bh) /\ RedUnder(T, Nil)

\* The ways down through side s of up, if up is a node, are one black node short.
Gap(up, s, n, z) == IF n = up /\ z = s THEN 1 ELSE 0

\* The heights agree at n, but for the gap.
Level(T, bh, up, s, n) ==
  \A z \in Sides : bh[n] = Bh(bh, T[z][n]) + Weight(T, n) + Gap(up, s, n, z)

\* The heights of a tree whose ways through side s of up are one black node short.
HeightsShort(T, bh, up, s) ==
  bh \in [Nodes(T) -> Nat] /\ \A n \in Nodes(T) : Level(T, bh, up, s, n)

\* No red node but n has a red child or is the root; only n may hang red under it.
RedBut(T, n) ==
  \A m \in T.red \ {n} : m # T.root /\ \A s \in Sides : T[s][m] \in T.red => T[s][m] = n

\* Without such a node the heights agree.
LEMMA NotShort ==
  ASSUME NEW T, T \in TreesOn(Nodes(T)), Nil \notin Nodes(T), NEW bh, NEW s
  PROVE  HeightsShort(T, bh, Nil, s) <=> Heights(T, bh)
<1>1. ASSUME NEW n \in Nodes(T), NEW z PROVE Gap(Nil, s, n, z) = 0
  BY DEF Gap
<1>2. ASSUME bh \in [Nodes(T) -> Nat], NEW n \in Nodes(T), NEW z \in Sides
      PROVE  bh[n] \in Nat /\ (Weight(T, n) = 0 \/ Weight(T, n) = 1) /\ Bh(bh, T[z][n]) \in Nat
  BY <1>2, Fields DEF Weight, Bh
<1>3. ASSUME HeightsShort(T, bh, Nil, s) PROVE Heights(T, bh)
  <2>1. bh \in [Nodes(T) -> Nat]
    BY <1>3 DEF HeightsShort
  <2>2. ASSUME NEW n \in Nodes(T), NEW z \in Sides PROVE bh[n] = Bh(bh, T[z][n]) + Weight(T, n)
    <3>1. bh[n] = (Bh(bh, T[z][n]) + Weight(T, n)) + 0
      BY <1>1, <1>3 DEF HeightsShort, Level
    <3> QED BY <3>1, <2>1, <1>2
  <2> QED BY <2>1, <2>2 DEF Heights
<1>4. ASSUME Heights(T, bh) PROVE HeightsShort(T, bh, Nil, s)
  <2>1. bh \in [Nodes(T) -> Nat]
    BY <1>4 DEF Heights
  <2>2. ASSUME NEW n \in Nodes(T), NEW z \in Sides
        PROVE  bh[n] = Bh(bh, T[z][n]) + Weight(T, n) + Gap(Nil, s, n, z)
    <3>1. bh[n] = Bh(bh, T[z][n]) + Weight(T, n)
      BY <1>4 DEF Heights
    <3>2. Gap(Nil, s, n, z) = 0
      BY <1>1
    <3> QED BY <3>1, <3>2, <2>1, <1>2
  <2> QED BY <2>1, <2>2 DEF HeightsShort, Level
<1> QED BY <1>3, <1>4

\* The last assignment of both repairs: a node painted black, the root or the red node
\* where a black one is missing.
LEMMA LastPaint ==
  ASSUME NEW T, NEW sub, Shape(T, sub), IsFiniteSet(Nodes(T)), NEW up, NEW s \in Sides, NEW bh,
         HeightsShort(T, bh, up, s), NEW n,
         (up = Nil /\ n = T.root) \/ (up \in Nodes(T) /\ T[s][up] = n /\ n \in T.red), RedBut(T, n)
  PROVE  Good(Paint(T, {n}, {})) /\ Nodes(Paint(T, {n}, {})) = Nodes(T)
<1> DEFINE D == Nodes(T)
           P == Paint(T, {n}, {})
           bh2 == IF n \in T.red THEN [bh EXCEPT ![n] = @ + 1] ELSE bh
<1>1. /\ Shape(P, sub) /\ Nodes(P) = D /\ P.root = T.root /\ P.red = (T.red \ {n}) \cup {}
      /\ \A z \in Sides : P[z] = T[z]
  BY PaintShape
<1>2. Nil \notin D /\ T.red \subseteq D /\ T.root \in D \cup {Nil}
  BY Kids, Fields
<1>3. bh \in [D -> Nat] /\ \A m \in D : Level(T, bh, up, s, m)
  BY DEF HeightsShort
<1> HIDE DEF P
<1>4. bh2 \in [D -> Nat] /\ \A m \in D : bh2[m] = IF m = n /\ n \in T.red THEN bh[m] + 1 ELSE bh[m]
  BY <1>2, <1>3
<1> HIDE DEF bh2
<1>5. Heights(P, bh2)
  <2>1. ASSUME NEW m \in D, NEW z \in Sides PROVE bh2[m] = Bh(bh2, P[z][m]) + Weight(P, m)
    <3>1. bh[m] = Bh(bh, T[z][m]) + Weight(T, m) + Gap(up, s, m, z) /\ bh[m] \in Nat
      BY <1>3 DEF Level
    <3>2. T[z][m] \in D \cup {Nil} /\ T[z][m] # m /\ (T[z][m] # Nil => T[z][m] # T.root /\ T.parent[T[z][m]] = m /\ T[Opposite(z)][m] # T[z][m])
      BY Kids
    <3>3. Bh(bh, T[z][m]) \in Nat
      BY <3>2, <1>3 DEF Bh
    <3>4. Bh(bh2, P[z][m]) = Bh(bh, T[z][m]) + (IF T[z][m] = n /\ n \in T.red THEN 1 ELSE 0)
      BY <3>2, <3>3, <1>1, <1>2, <1>4 DEF Bh
    <3>5. T[z][m] = n /\ n \in T.red <=> m = up /\ z = s /\ n \in T.red
      <4>1. up \in D => (T[s][up] # Nil => T.parent[T[s][up]] = up /\ T[Opposite(s)][up] # T[s][up])
        BY Kids
      <4> QED BY <4>1, <3>2, <1>2, SidesAre
    <3>6. Gap(up, s, m, z) = IF T[z][m] = n /\ n \in T.red THEN 1 ELSE 0
      BY <3>5, <1>2 DEF Gap
    <3>7. bh2[m] + Weight(T, m) = bh[m] + Weight(P, m)
      BY <3>1, <1>1, <1>4 DEF Weight
    <3>8. (Weight(T, m) = 0 \/ Weight(T, m) = 1) /\ (Weight(P, m) = 0 \/ Weight(P, m) = 1) /\ bh2[m] \in Nat
      BY <1>4 DEF Weight
    <3> QED BY <3>1, <3>3, <3>4, <3>6, <3>7, <3>8
  <2> QED BY <2>1, <1>1, <1>4 DEF Heights
<1>6. RedUnder(P, Nil)
  BY <1>1 DEF RedUnder, RedBut
<1> QED BY <1>1, <1>5, <1>6 DEF Good, P

\* RB_INSERT puts n into the tree, and the tree stays in order and balanced.
THEOREM InsertIs ==
  ASSUME NEW T, Good(T), NEW n, n # Nil, OrderOn(Nodes(T) \cup {n})
  PROVE  Good(Insert(T, n)) /\ Nodes(Insert(T, n)) = Nodes(T) \cup {n}
<1> DEFINE D == Nodes(T)
           E == D \cup {n}
           at == Descend(T, n)
           P == AddLeaf(T, at.up, n)
           s == IF Less(n, at.up) THEN "left" ELSE "right"
<1>1. PICK sub, bh : Shape(T, sub) /\ Heights(T, bh) /\ RedUnder(T, Nil)
  BY DEF Good
<1>2. IsFiniteSet(D) /\ IsFiniteSet(E)
  BY FS_AddElement DEF Good
<1>3. /\ at.node = (IF n \in D THEN n ELSE Nil)
      /\ at.up \in D \cup {Nil} /\ Descending(T, sub, n, at, Cardinality(D))
  BY <1>1, <1>2, DescendIs
<1>4. Insert(T, n) = IF at.node # Nil THEN T ELSE InsertColor(P, n)
  BY DEF Insert
<1> HIDE DEF at
<1>5. CASE n \in D
  BY <1>3, <1>4, <1>5
<1>6. CASE n \notin D
  <2>1. T \in TreesOn(D) /\ Nil \notin D
    BY <1>1, Kids
  <2>2. LeafAdded(T, at.up, s, n, P)
    BY <2>1, <1>3, <1>6, AddLeafIs
  <2>3. s \in Sides /\ (at.up # Nil => Toward(s, n, at.up))
    <3>1. at.up # Nil => Less(n, at.up) \/ Less(at.up, n)
      BY <1>3, <1>6 DEF OrderOn
    <3> QED BY <3>1 DEF Sides, Toward
  <2> HIDE DEF P, s
  <2>4. PICK sub2, bh2 : Shape(P, sub2) /\ Nodes(P) = E /\ Heights(P, bh2) /\ RedUnder(P, n)
    BY <2>2, <2>3, <1>1, <1>2, <1>3, <1>6, LeafShape
  <2> DEFINE Typed == [tree : TreesOn(E), node : E]
             x == [tree |-> P, node |-> n]
             S == [i \in Nat |-> {a \in Typed : Inserting(E, a, i)}]
  <2>5. x \in S[0]
    <3>1. n \in P.red /\ P \in TreesOn(E)
      BY <2>2 DEF LeafAdded
    <3>2. Cardinality(sub2[n]) > 0
      BY <2>4, <1>2, Smaller
    <3>3. Inserting(E, x, 0)
      BY <3>1, <3>2, <2>4 DEF Inserting
    <3> QED BY <3>1, <3>3
  <2>6. \A i \in Nat : \A a \in S[i] : InsertColorTurn(a) \in S[i + 1]
    <3>1. ASSUME NEW i \in Nat, NEW a \in S[i] PROVE InsertColorTurn(a) \in S[i + 1]
      <4>1. a \in Typed /\ Inserting(E, a, i) /\ i + 1 \in Nat
        OBVIOUS
      <4>2. InsertColorTurn(a) \in Typed /\ Inserting(E, InsertColorTurn(a), i + 1)
        BY <4>1, <1>2, InsertTurn
      <4> QED BY <4>1, <4>2
    <3> QED BY <3>1
  <2>7. PICK end \in S[Cardinality(E)] : InsertColor(P, n) = Paint(end.tree, {end.tree.root}, {})
    <3> HIDE DEF S
    <3> QED BY <2>4, <2>5, <2>6, <1>2, InsertColorRun
  <2>8. Inserting(E, end, Cardinality(E)) /\ Cardinality(E) \in Nat
    BY <2>7, <1>2, FS_CardinalityType
  <2>9. PICK sub3, bh3 : /\ Shape(end.tree, sub3) /\ Nodes(end.tree) = E /\ Heights(end.tree, bh3)
                         /\ end.node \in end.tree.red /\ RedUnder(end.tree, end.node)
                         /\ end.tree.parent[end.node] \in end.tree.red => Cardinality(sub3[end.node]) > Cardinality(E)
    BY <2>8 DEF Inserting
  <2>10. end.tree.parent[end.node] \notin end.tree.red
    <3>1. end.node \in E
      BY <2>9, Kids
    <3>2. Cardinality(sub3[end.node]) <= Cardinality(E) /\ Cardinality(sub3[end.node]) \in Nat
      BY <3>1, <2>9, <1>2, Smaller
    <3> QED BY <3>2, <2>8, <2>9
  <2>11. RedBut(end.tree, end.tree.root)
    <3>1. ASSUME NEW m \in end.tree.red, NEW z \in Sides, end.tree[z][m] \in end.tree.red PROVE FALSE
      <4>1. end.tree[z][m] = end.node /\ m \in E /\ end.node # Nil
        BY <3>1, <2>9, Kids DEF RedUnder
      <4>2. end.tree.parent[end.node] = m
        BY <4>1, <2>9, Kids
      <4> QED BY <4>2, <3>1, <2>10
    <3> QED BY <3>1 DEF RedBut
  <2>12. HeightsShort(end.tree, bh3, Nil, "left") /\ "left" \in Sides
    BY <2>9, Kids, NotShort DEF Sides
  <2>13. Good(Paint(end.tree, {end.tree.root}, {})) /\ Nodes(Paint(end.tree, {end.tree.root}, {})) = E
    BY <2>9, <2>11, <2>12, <1>2, LastPaint
  <2> QED BY <2>7, <2>13, <1>3, <1>4, <1>6 
<1> QED BY <1>5, <1>6

-----------------------------------------------------------------------------
(* RB_REMOVE_COLOR. *)

\* What a rotation of a painted tree makes of its pointers.
Turned(T, s, x, T2) ==
  LET o == Opposite(s)
      y == T[o][x]
  IN /\ T2.root = IF x = T.root THEN y ELSE T.root
     /\ \A n \in Nodes(T) : T2[o][n] = IF n = x THEN T[s][y] ELSE IF T[o][n] = x THEN y ELSE T[o][n]
     /\ \A n \in Nodes(T) : T2[s][n] = IF n = y THEN x ELSE IF T[s][n] = x THEN y ELSE T[s][n]

\* The colors and the subtrees after a rotation of a painted tree.
LEMMA PaintRotate ==
  ASSUME NEW T, NEW sub, Shape(T, sub), NEW s \in Sides, NEW x \in Nodes(T), T[Opposite(s)][x] # Nil,
         NEW b, NEW r \in SUBSET Nodes(T)
  PROVE  LET T2 == Rotate(Paint(T, b, r), s, x) IN
         /\ Shape(T2, RotatedSub(T, sub, s, x)) /\ Nodes(T2) = Nodes(T)
         /\ T2.red = (T.red \ b) \cup r /\ Turned(T, s, x, T2)
<1> DEFINE P == Paint(T, b, r)
           T2 == Rotate(P, s, x)
<1>1. /\ Shape(P, sub) /\ Nodes(P) = Nodes(T) /\ P.root = T.root
      /\ \A z \in Sides : P[z] = T[z]
      /\ P.red = (T.red \ b) \cup r
  BY PaintShape
<1> HIDE DEF P
<1>2. Opposite(s) \in Sides
  BY SidesAre
<1>3. P[s] = T[s] /\ P[Opposite(s)] = T[Opposite(s)]
  BY <1>1, <1>2
<1>4. Rotated(P, s, x, T2)
  BY <1>1, <1>3, RotateIs
<1> HIDE DEF T2
<1>5. Shape(T2, RotatedSub(P, sub, s, x)) /\ Nodes(T2) = Nodes(P)
  BY <1>1, <1>3, <1>4, RotateShape
<1>6. RotatedSub(P, sub, s, x) = RotatedSub(T, sub, s, x)
  BY <1>3 DEF RotatedSub
<1>7. T2.red = (T.red \ b) \cup r /\ Turned(T, s, x, T2)
  BY <1>1, <1>3, <1>4 DEF Rotated, Turned
<1> QED BY <1>1, <1>5, <1>6, <1>7 DEF P, T2

\* The nodes that a rotation leaves alone keep the heights that their children keep.
LEMMA RotateLevel ==
  ASSUME NEW T, NEW sub, Shape(T, sub), NEW s \in Sides, NEW x \in Nodes(T), NEW y \in Nodes(T), T[Opposite(s)][x] = y,
         NEW T2, Turned(T, s, x, T2), NEW bh, NEW bh2, NEW up, NEW q, bh2[y] = bh[x],
         NEW m \in Nodes(T), m # x, m # y, Level(T, bh, up, q, m), bh2[m] = bh[m], Weight(T2, m) = Weight(T, m),
         \A z \in Sides : T[z][m] \notin {Nil, x} => bh2[T[z][m]] = bh[T[z][m]]
  PROVE  Level(T2, bh2, up, q, m)
<1>1. ASSUME NEW z \in Sides PROVE T2[z][m] = IF T[z][m] = x THEN y ELSE T[z][m]
  BY SidesAre DEF Turned
<1>2. x # Nil /\ y # Nil
  BY Kids
<1>3. ASSUME NEW z \in Sides PROVE Bh(bh2, T2[z][m]) = Bh(bh, T[z][m])
  BY <1>1, <1>2 DEF Bh
<1>4. ASSUME NEW z \in Sides PROVE bh2[m] = Bh(bh2, T2[z][m]) + Weight(T2, m) + Gap(up, q, m, z)
  BY <1>3 DEF Level
<1> QED BY <1>4 DEF Level

\* The black node n, or Nil, on side s of up: the ways down through it are one black
\* node short.
Lacking(T, sub, bh, up, s, n) ==
  /\ Shape(T, sub) /\ HeightsShort(T, bh, up, s) /\ RedBut(T, n)
  /\ s \in Sides /\ up \in Nodes(T) /\ T[s][up] = n /\ n \notin T.red

\* What the height of its sibling says of it.
LEMMA SiblingIs ==
  ASSUME NEW T, NEW sub, NEW bh, NEW up, NEW s, NEW n, Lacking(T, sub, bh, up, s, n), NEW y, y = T[Opposite(s)][up]
  PROVE  /\ y \in Nodes(T) /\ y # up /\ y # n /\ up # n /\ T.parent[y] = up /\ y # T.root
         /\ bh \in [Nodes(T) -> Nat] /\ Bh(bh, n) \in Nat
         /\ bh[y] = Bh(bh, n) + 1 /\ bh[up] = bh[y] + Weight(T, up)
         /\ \A z \in Sides : bh[y] = Bh(bh, T[z][y]) + Weight(T, y) /\ (n # Nil => T[z][y] # n) /\ T[z][y] # up /\ Bh(bh, T[z][y]) \in Nat
<1> DEFINE D == Nodes(T)
           o == Opposite(s)
<1>1. Shape(T, sub) /\ s \in Sides /\ up \in D /\ T[s][up] = n /\ n \notin T.red
  BY DEF Lacking
<1>2. o \in Sides /\ o # s /\ Opposite(o) = s
  BY <1>1, SidesAre
<1>3. Nil \notin D /\ n \in D \cup {Nil} /\ y \in D \cup {Nil} /\ y # up /\ n # up /\ (n # Nil => T.parent[n] = up)
  BY <1>1, <1>2, Kids
<1>4. bh \in [D -> Nat] /\ \A m \in D : Level(T, bh, up, s, m)
  BY DEF Lacking, HeightsShort
<1>5. bh[up] = Bh(bh, n) + Weight(T, up) + 1 /\ bh[up] = Bh(bh, y) + Weight(T, up) + 0
  <2>1. Level(T, bh, up, s, up) /\ Gap(up, s, up, s) = 1 /\ Gap(up, s, up, o) = 0
    BY <1>1, <1>2, <1>4 DEF Gap
  <2> QED BY <2>1, <1>1, <1>2 DEF Level
<1>6. Bh(bh, n) \in Nat /\ Bh(bh, y) \in Nat /\ bh[up] \in Nat /\ (Weight(T, up) = 0 \/ Weight(T, up) = 1)
  BY <1>1, <1>3, <1>4 DEF Bh, Weight
<1>7. Bh(bh, y) = Bh(bh, n) + 1 /\ y # Nil
  <2>1. Bh(bh, y) = Bh(bh, n) + 1
    BY <1>5, <1>6
  <2> QED BY <2>1, <1>6 DEF Bh
<1>8. y \in D /\ y # n /\ Bh(bh, y) = bh[y] /\ T.parent[y] = up /\ y # T.root
  <2>1. y \in D /\ T.parent[y] = up /\ y # T.root /\ T[s][up] # y
    BY <1>1, <1>2, <1>3, <1>7, Kids
  <2> QED BY <2>1, <1>1, <1>7 DEF Bh
<1>9. ASSUME NEW z \in Sides PROVE bh[y] = Bh(bh, T[z][y]) + Weight(T, y) /\ (n # Nil => T[z][y] # n) /\ T[z][y] # up /\ Bh(bh, T[z][y]) \in Nat
  <2>1. bh[y] = Bh(bh, T[z][y]) + Weight(T, y) + 0
    BY <1>3, <1>4, <1>8 DEF Level, Gap
  <2>2. T[z][y] \in D \cup {Nil} /\ T[z][y] # y /\ (T[z][y] # Nil => T.parent[T[z][y]] = y)
    BY <1>1, <1>8, Kids
  <2>3. Bh(bh, T[z][y]) \in Nat /\ bh[y] \in Nat /\ (Weight(T, y) = 0 \/ Weight(T, y) = 1)
    BY <2>2, <1>4, <1>8 DEF Bh, Weight
  <2>4. T[z][y] # up
    <3>1. T[z][y] # Nil => T[z][y] # T.parent[y]
      BY <1>1, <1>8, Kin
    <3> QED BY <3>1, <1>1, <1>3, <1>8
  <2>5. n # Nil => T[z][y] # n
    BY <2>2, <1>3, <1>8
  <2> QED BY <2>1, <2>3, <2>4, <2>5
<1> QED BY <1>1, <1>3, <1>4, <1>5, <1>6, <1>7, <1>8, <1>9

\* A rotation leaves the subtrees of the other nodes as they are.
LEMMA RotatedSubElsewhere ==
  ASSUME NEW T, NEW sub, Shape(T, sub), NEW s \in Sides, NEW x \in Nodes(T), NEW n \in Nodes(T) \cup {Nil}, n # x, n # T[Opposite(s)][x]
  PROVE  Sub(RotatedSub(T, sub, s, x), n) = Sub(sub, n)
<1>1. sub \in [Nodes(T) -> SUBSET Nodes(T)]
  BY DEF Shape, Branches
<1>2. n # Nil => RotatedSub(T, sub, s, x)[n] = sub[n]
  BY <1>1 DEF RotatedSub
<1> QED BY <1>2 DEF Sub

\* The first step of RB_REMOVE_COLOR: the sibling is black afterwards.
LEMMA BlackSiblingKeeps ==
  ASSUME NEW T, NEW sub, NEW bh, NEW up, NEW s, NEW n, Lacking(T, sub, bh, up, s, n),
         NEW P, P = BlackSibling(T, s, up)
  PROVE  \E sub2, bh2 :
           /\ Lacking(P, sub2, bh2, up, s, n) /\ Nodes(P) = Nodes(T)
           /\ P[Opposite(s)][up] \in Nodes(P) \ P.red /\ Sub(sub2, n) = Sub(sub, n)
<1> DEFINE D == Nodes(T)
           o == Opposite(s)
           y == T[o][up]
           inner == T[s][y]
           outer == T[o][y]
           sub2 == RotatedSub(T, sub, s, up)
           bh2 == [bh EXCEPT ![up] = bh[y], ![y] = bh[up]]
<1>1. Shape(T, sub) /\ s \in Sides /\ up \in D /\ T[s][up] = n /\ n \notin T.red /\ RedBut(T, n) /\ \A m \in D : Level(T, bh, up, s, m)
  BY DEF Lacking, HeightsShort
<1>2. o \in Sides /\ o # s /\ Opposite(o) = s /\ \A z \in Sides : z = s \/ z = o
  BY <1>1, SidesAre
<1>3. /\ y \in D /\ y # up /\ y # n /\ up # n /\ T.parent[y] = up /\ y # T.root
      /\ bh \in [D -> Nat] /\ Bh(bh, n) \in Nat /\ bh[y] = Bh(bh, n) + 1 /\ bh[up] = bh[y] + Weight(T, up)
  BY SiblingIs
<1>4. /\ bh[y] = Bh(bh, inner) + Weight(T, y) /\ inner # up /\ Bh(bh, inner) \in Nat
      /\ bh[y] = Bh(bh, outer) + Weight(T, y) /\ outer # up /\ Bh(bh, outer) \in Nat
  BY <1>1, <1>2, SiblingIs
<1>5. T.red \subseteq D /\ Nil \notin D /\ inner \in D \cup {Nil} /\ outer \in D \cup {Nil} /\ inner # y /\ outer # y
  BY <1>1, <1>2, <1>3, Kids
<1>6. CASE y \notin T.red
  BY <1>1, <1>3, <1>6 DEF BlackSibling
<1>7. CASE y \in T.red
  <2>1. P = Rotate(Paint(T, {y}, {up}), s, up)
    BY <1>7 DEF BlackSibling
  <2>2. y # Nil
    BY <1>3, <1>5
  <2>3. Shape(P, sub2) /\ Nodes(P) = D /\ P.red = (T.red \ {y}) \cup {up} /\ Turned(T, s, up, P)
    BY <2>1, <2>2, <1>1, PaintRotate
  <2>4. Sub(sub2, n) = Sub(sub, n)
    <3>1. n \in D \cup {Nil}
      BY <1>1, Kids
    <3> QED BY <3>1, <1>1, <1>3, RotatedSubElsewhere
  <2> HIDE DEF sub2
  <2>5. /\ P.root = (IF up = T.root THEN y ELSE T.root) /\ P[s][up] = n /\ P[o][up] = inner /\ P[s][y] = up /\ P[o][y] = outer
        /\ \A m \in D, z \in Sides : m # up /\ m # y => P[z][m] = IF T[z][m] = up THEN y ELSE T[z][m]
    BY <2>3, <1>1, <1>2, <1>3, <1>4 DEF Turned
  <2>6. up \notin T.red /\ inner \notin T.red /\ outer \notin T.red
    <3>1. \A m \in T.red, z \in Sides : m # n /\ T[z][m] \in T.red => T[z][m] = n
      BY <1>1 DEF RedBut
    <3> QED BY <3>1, <1>1, <1>2, <1>3, <1>7
  <2>7. Weight(T, y) = 0 /\ Weight(T, up) = 1 /\ Weight(P, y) = 1 /\ Weight(P, up) = 0
    BY <2>3, <2>6, <1>3, <1>7 DEF Weight
  <2>8. inner # Nil /\ Bh(bh, inner) = bh[y] /\ Bh(bh, outer) = bh[y]
    <3>1. Bh(bh, inner) = bh[y] /\ Bh(bh, outer) = bh[y]
      BY <2>7, <1>4
    <3> QED BY <3>1, <1>3 DEF Bh
  <2>9. bh2 \in [D -> Nat] /\ bh2[up] = bh[y] /\ bh2[y] = bh[up] /\ \A m \in D : m # up /\ m # y => bh2[m] = bh[m]
    BY <1>1, <1>3
  <2> HIDE DEF bh2, inner, outer, y
  <2>10. ASSUME NEW m \in D \cup {Nil}, m # up, m # y PROVE Bh(bh2, m) = Bh(bh, m)
    BY <2>9, <2>10 DEF Bh
  <2>11. Bh(bh2, n) = Bh(bh, n) /\ Bh(bh2, inner) = bh[y] /\ Bh(bh2, outer) = bh[y] /\ Bh(bh2, up) = bh[y]
    <3>1. n \in D \cup {Nil}
      BY <1>1, Kids
    <3> QED BY <3>1, <2>8, <2>9, <2>10, <1>1, <1>3, <1>4, <1>5 DEF Bh
  <2>12. Level(P, bh2, up, s, up)
    <3>1. ASSUME NEW z \in Sides PROVE bh2[up] = Bh(bh2, P[z][up]) + Weight(P, up) + Gap(up, s, up, z)
      BY <2>5, <2>7, <2>9, <2>11, <1>2, <1>3 DEF Gap
    <3> QED BY <3>1 DEF Level
  <2>13. Level(P, bh2, up, s, y)
    <3>1. ASSUME NEW z \in Sides PROVE bh2[y] = Bh(bh2, P[z][y]) + Weight(P, y) + Gap(up, s, y, z)
      BY <2>5, <2>7, <2>9, <2>11, <1>2, <1>3 DEF Gap
    <3> QED BY <3>1 DEF Level
  <2>14. ASSUME NEW m \in D, m # up, m # y PROVE Level(P, bh2, up, s, m)
    <3>1. \A z \in Sides : T[z][m] \notin {Nil, up} => bh2[T[z][m]] = bh[T[z][m]]
      <4>1. ASSUME NEW z \in Sides, T[z][m] \notin {Nil, up} PROVE T[z][m] \in D /\ T[z][m] # y
        BY <4>1, <2>14, <1>1, <1>3, Kids
      <4> QED BY <4>1, <2>9
    <3>2. Weight(P, m) = Weight(T, m)
      BY <2>3, <2>14 DEF Weight
    <3>3. bh2[y] = bh[up] /\ bh2[m] = bh[m] /\ Level(T, bh, up, s, m) /\ T[Opposite(s)][up] = y
      BY <2>9, <2>14, <1>1 DEF y
    <3> QED BY <3>1, <3>2, <3>3, <2>3, <2>14, <1>1, <1>3, RotateLevel
  <2>15. HeightsShort(P, bh2, up, s)
    BY <2>3, <2>9, <2>12, <2>13, <2>14 DEF HeightsShort
  <2>16. RedBut(P, n)
    <3>1. ASSUME NEW m \in T.red, m # n PROVE m # T.root /\ \A z \in Sides : T[z][m] \in T.red => T[z][m] = n
      BY <3>1, <1>1 DEF RedBut
    <3>2. ASSUME NEW m \in P.red, m # n PROVE m # P.root /\ \A z \in Sides : P[z][m] \in P.red => P[z][m] = n
      <4>1. CASE m = up
        BY <4>1, <2>3, <2>5, <2>6, <1>1, <1>2, <1>3, <1>4
      <4>2. CASE m # up
        <5>1. m \in T.red /\ m # y /\ m \in D
          BY <4>2, <3>2, <2>3, <1>5
        <5> QED BY <5>1, <4>2, <3>1, <3>2, <2>3, <2>5
      <4> QED BY <4>1, <4>2
    <3> QED BY <3>2 DEF RedBut
  <2>17. n \notin P.red /\ P[o][up] \in D \ P.red
    BY <2>3, <2>5, <2>6, <2>8, <1>1, <1>3, <1>4, <1>5
  <2> QED BY <2>3, <2>4, <2>5, <2>15, <2>16, <2>17, <1>1 DEF Lacking
<1> QED BY <1>6, <1>7

\* A black sibling without red children turns red, and the gap moves up.
LEMMA RepaintSibling ==
  ASSUME NEW T, NEW sub, NEW bh, NEW up, NEW s, NEW n, Lacking(T, sub, bh, up, s, n),
         NEW y, y = T[Opposite(s)][up], y \notin T.red, \A z \in Sides : T[z][y] \notin T.red,
         NEW P, P = Paint(T, {}, {y})
  PROVE  \E bh2 : \E q \in Sides :
           /\ Shape(P, sub) /\ Nodes(P) = Nodes(T) /\ RedBut(P, up) /\ P.parent = T.parent /\ P.root = T.root
           /\ HeightsShort(P, bh2, T.parent[up], q) /\ (T.parent[up] # Nil => P[q][T.parent[up]] = up)
<1> DEFINE D == Nodes(T)
           o == Opposite(s)
           top == T.parent[up]
           bh2 == [bh EXCEPT ![up] = bh[up] - 1, ![y] = bh[y] - 1]
<1>1. Shape(T, sub) /\ s \in Sides /\ up \in D /\ T[s][up] = n /\ n \notin T.red /\ RedBut(T, n) /\ \A m \in D : Level(T, bh, up, s, m)
  BY DEF Lacking, HeightsShort
<1>2. o \in Sides /\ o # s /\ Opposite(o) = s /\ \A z \in Sides : z = s \/ z = o
  BY <1>1, SidesAre
<1>3. /\ y \in D /\ y # up /\ y # n /\ up # n /\ T.parent[y] = up /\ y # T.root
      /\ bh \in [D -> Nat] /\ Bh(bh, n) \in Nat /\ bh[y] = Bh(bh, n) + 1 /\ bh[up] = bh[y] + Weight(T, up)
      /\ \A z \in Sides : bh[y] = Bh(bh, T[z][y]) + Weight(T, y) /\ T[z][y] # up /\ Bh(bh, T[z][y]) \in Nat
  BY SiblingIs
<1>4. T.red \subseteq D /\ Nil \notin D
  BY <1>1, Kids
<1>5. ASSUME NEW m \in D, NEW z \in Sides
      PROVE  /\ T[z][m] \in D \cup {Nil} /\ T[z][m] # m
             /\ T[z][m] # Nil => T[z][m] # T.root /\ T.parent[T[z][m]] = m /\ T[Opposite(z)][m] # T[z][m]
  BY <1>1, Kids
<1>6. top \in D \cup {Nil} /\ top # up /\ (up # T.root <=> top \in D)
  BY <1>1, Kin
<1>7. PICK q \in Sides : top # Nil => T[q][top] = up
  BY <1>1, <1>4, <1>6, Kin
<1>8. {y} \in SUBSET D
  BY <1>3
<1>9. /\ Shape(P, sub) /\ Nodes(P) = D /\ P.root = T.root /\ P.parent = T.parent
      /\ \A z \in Sides : P[z] = T[z]
      /\ P.red = T.red \cup {y}
  BY <1>1, <1>8, PaintShape
<1>10. bh2 \in [D -> Nat] /\ \A m \in D : bh2[m] = IF m = up \/ m = y THEN bh[m] - 1 ELSE bh[m]
  <2>1. bh[up] \in Nat /\ bh[up] - 1 \in Nat /\ bh[y] - 1 \in Nat
    BY <1>1, <1>3 DEF Weight
  <2> QED BY <2>1, <1>1, <1>3
<1> HIDE DEF bh2, top
<1>11. ASSUME NEW m \in D, NEW z \in Sides PROVE bh2[m] = Bh(bh2, P[z][m]) + Weight(P, m) + Gap(top, q, m, z)
  <2>1. P[z][m] = T[z][m] /\ bh[m] = Bh(bh, T[z][m]) + Weight(T, m) + Gap(up, s, m, z) /\ bh[m] \in Nat
    BY <1>1, <1>3, <1>9 DEF Level
  <2>2. CASE m = y
    <3>1. bh[y] = Bh(bh, T[z][y]) + 1 /\ Bh(bh, T[z][y]) \in Nat
      BY <1>3 DEF Weight
    <3>2. Bh(bh2, T[z][y]) = Bh(bh, T[z][y])
      BY <1>3, <1>5, <1>10 DEF Bh
    <3>3. Gap(top, q, y, z) = 0
      <4>1. y = top => up # T.parent[y]
        BY <1>1, <1>4, <1>5, <1>7, <1>3, Kin
      <4> QED BY <4>1, <1>3 DEF Gap
    <3>4. Weight(P, y) = 0 /\ bh2[y] = bh[y] - 1
      BY <1>3, <1>9, <1>10 DEF Weight
    <3> QED BY <3>1, <3>2, <3>3, <3>4, <2>1, <2>2
  <2>3. CASE m = up
    <3>1. Weight(P, up) = Weight(T, up) /\ (Weight(T, up) = 0 \/ Weight(T, up) = 1) /\ bh2[up] = bh[up] - 1
      BY <1>1, <1>3, <1>9, <1>10 DEF Weight
    <3>2. Bh(bh2, P[z][up]) = Bh(bh, n)
      <4>1. CASE z = s
        <5>1. P[z][up] = n /\ n \in D \cup {Nil}
          BY <4>1, <1>1, <1>5, <1>9
        <5>2. Bh(bh2, n) = Bh(bh, n)
          BY <5>1, <1>3, <1>10 DEF Bh
        <5> QED BY <5>1, <5>2
      <4>2. CASE z = o
        <5>1. P[z][up] = y
          BY <4>2, <1>2, <1>9
        <5>2. bh2[y] = bh[y] - 1
          BY <1>3, <1>10
        <5>3. Bh(bh2, y) = bh2[y]
          BY <1>3, <1>4 DEF Bh
        <5> QED BY <5>1, <5>2, <5>3, <1>3
      <4> QED BY <4>1, <4>2, <1>2
    <3>3. Gap(top, q, up, z) = 0
      BY <1>6 DEF Gap
    <3> QED BY <3>1, <3>2, <3>3, <2>3, <1>3
  <2>4. CASE m # y /\ m # up
    <3>1. bh2[m] = bh[m] /\ Weight(P, m) = Weight(T, m) /\ Gap(up, s, m, z) = 0
      BY <2>4, <1>9, <1>10 DEF Weight, Gap
    <3>2. T[z][m] \in D \cup {Nil} /\ T[z][m] # y
      BY <2>4, <1>3, <1>4, <1>5
    <3>3. T[z][m] = up <=> m = top /\ z = q
      <4>1. m = top /\ z = q => T[z][m] = up
        BY <1>4, <1>7
      <4>2. T[z][m] = up => m = top
        BY <1>1, <1>4, <1>5 DEF top
      <4>3. T[z][m] = up /\ m = top => z = q
        BY <1>1, <1>4, <1>5, <1>7, SidesAre
      <4> QED BY <4>1, <4>2, <4>3
    <3>4. Bh(bh, T[z][m]) \in Nat /\ (T[z][m] = up => Bh(bh, T[z][m]) = bh[up])
      BY <3>2, <1>1, <1>3, <1>4 DEF Bh
    <3>5. Bh(bh2, T[z][m]) = Bh(bh, T[z][m]) - Gap(top, q, m, z)
      <4>1. Gap(top, q, m, z) = IF T[z][m] = up THEN 1 ELSE 0
        BY <3>3 DEF Gap
      <4> QED BY <4>1, <3>2, <3>4, <1>1, <1>4, <1>10 DEF Bh
    <3>6. (Weight(T, m) = 0 \/ Weight(T, m) = 1) /\ (Gap(top, q, m, z) = 0 \/ Gap(top, q, m, z) = 1)
      BY DEF Weight, Gap
    <3> QED BY <3>1, <3>4, <3>5, <3>6, <2>1
  <2> QED BY <2>2, <2>3, <2>4
<1>12. HeightsShort(P, bh2, top, q)
  BY <1>9, <1>10, <1>11 DEF HeightsShort, Level
<1>13. RedBut(P, up)
  <2>1. ASSUME NEW m \in T.red PROVE m # T.root /\ \A z \in Sides : T[z][m] \notin T.red
    BY <1>1 DEF RedBut
  <2>2. ASSUME NEW m \in P.red, m # up PROVE m # P.root /\ \A z \in Sides : P[z][m] \in P.red => P[z][m] = up
    <3>1. CASE m = y
      <4>1. \A z \in Sides : P[z][y] = T[z][y] /\ T[z][y] # y
        <5>1. \A z \in Sides : P[z] = T[z]
          BY <1>9
        <5>2. \A z \in Sides : T[z][y] # y
          BY <1>3, <1>5
        <5> QED BY <5>1, <5>2
      <4> QED BY <3>1, <4>1, <1>3, <1>9
    <3>2. CASE m # y
      <4>1. m \in T.red /\ m \in D
        BY <3>2, <2>2, <1>4, <1>9
      <4>2. \A z \in Sides : T[z][m] # y
        BY <4>1, <2>2, <1>3, <1>4, <1>5
      <4>3. \A z \in Sides : P[z] = T[z]
        BY <1>9
      <4> QED BY <4>1, <4>2, <4>3, <2>1, <1>9, SMTT(40)
    <3> QED BY <3>1, <3>2
  <2> QED BY <2>2 DEF RedBut
<1>14. top # Nil => P[q][top] = up
  BY <1>7, <1>9
<1> QED BY <1>9, <1>12, <1>13, <1>14 DEF top

\* The outer child of the sibling is red afterwards.
LEMMA RedNephewKeeps ==
  ASSUME NEW T, NEW sub, NEW bh, NEW up, NEW s, NEW n, Lacking(T, sub, bh, up, s, n),
         NEW y, y = T[Opposite(s)][up], y \notin T.red, \E z \in Sides : T[z][y] \in T.red,
         NEW P, P = RedNephew(T, s, up)
  PROVE  \E sub2, bh2 :
           /\ Lacking(P, sub2, bh2, up, s, n) /\ Nodes(P) = Nodes(T)
           /\ P[Opposite(s)][up] \in Nodes(P) \ P.red /\ P[Opposite(s)][P[Opposite(s)][up]] \in P.red
<1> DEFINE D == Nodes(T)
           o == Opposite(s)
           w == T[s][y]
           outer == T[o][y]
           a == T[o][w]
           b == T[s][w]
           sub2 == RotatedSub(T, sub, o, y)
           bh2 == [bh EXCEPT ![y] = bh[w], ![w] = bh[y]]
<1>1. Shape(T, sub) /\ s \in Sides /\ up \in D /\ T[s][up] = n /\ n \notin T.red /\ RedBut(T, n) /\ \A m \in D : Level(T, bh, up, s, m)
  BY DEF Lacking, HeightsShort
<1>2. o \in Sides /\ o # s /\ Opposite(o) = s /\ \A z \in Sides : z = s \/ z = o
  BY <1>1, SidesAre
<1>3. /\ y \in D /\ y # up /\ y # n /\ up # n /\ T.parent[y] = up /\ y # T.root /\ bh \in [D -> Nat]
  BY SiblingIs
<1>4. T.red \subseteq D /\ Nil \notin D
  BY <1>1, Kids
<1>5. CASE outer \in T.red
  BY <1>1, <1>3, <1>5 DEF RedNephew
<1>6. CASE outer \notin T.red
  <2>1. P = Rotate(Paint(T, {w}, {y}), o, y) /\ w \in T.red
    BY <1>2, <1>6 DEF RedNephew
  <2>2. w \in D /\ w # Nil /\ w # n /\ w # up /\ w # y /\ outer # up /\ outer # y /\ T.parent[w] = y
    <3>1. w \in D /\ w # Nil
      BY <2>1, <1>4
    <3>2. w # n
      BY <2>1, <1>1
    <3>3. w # up /\ outer # up
      BY <1>1, <1>2, SiblingIs
    <3> QED BY <3>1, <3>2, <3>3, <1>1, <1>2, <1>3, Kids
  <2>3. Shape(P, sub2) /\ Nodes(P) = D /\ P.red = (T.red \ {w}) \cup {y} /\ Turned(T, o, y, P)
    <3> DEFINE R == Rotate(Paint(T, {w}, {y}), o, y)
    <3>1. T[Opposite(o)][y] # Nil /\ {y} \in SUBSET D
      BY <2>2, <1>2, <1>3
    <3>2. Shape(R, sub2) /\ Nodes(R) = D /\ R.red = (T.red \ {w}) \cup {y} /\ Turned(T, o, y, R)
      <4> HIDE DEF o, w
      <4> QED BY <3>1, <1>1, <1>2, <1>3, PaintRotate
    <3> HIDE DEF R, sub2
    <3>3. P = R
      BY <2>1 DEF R
    <3> QED BY <3>2, <3>3
  <2>4. a \in D \cup {Nil} /\ b \in D \cup {Nil} /\ a # w /\ b # w /\ a # y /\ b # y
    <3>1. a \in D \cup {Nil} /\ b \in D \cup {Nil} /\ a # w /\ b # w
      BY <2>2, <1>1, <1>2, Kids
    <3>2. (a # Nil => a # T.parent[w]) /\ (b # Nil => b # T.parent[w])
      BY <2>2, <1>1, <1>2, Kin
    <3> QED BY <3>1, <3>2, <2>2, <1>3, <1>4
  <2> HIDE DEF sub2
  <2>5. /\ P.root = T.root /\ P[s][up] = n /\ P[o][up] = w /\ P[s][y] = a /\ P[o][y] = outer /\ P[o][w] = y /\ P[s][w] = b
        /\ \A m \in D, z \in Sides : m # y /\ m # w => P[z][m] = IF T[z][m] = y THEN w ELSE T[z][m]
    <3>1. T[s][y] = w /\ T[o][y] = outer /\ T[o][w] = a /\ T[s][w] = b /\ T[s][up] = n /\ T[o][up] = y
      BY <1>1
    <3> HIDE DEF w, outer, a, b, o
    <3>2. P.root = T.root /\ \A m \in D : /\ P[s][m] = IF m = y THEN a ELSE IF T[s][m] = y THEN w ELSE T[s][m]
                                         /\ P[o][m] = IF m = w THEN y ELSE IF T[o][m] = y THEN w ELSE T[o][m]
      BY <2>3, <3>1, <1>2, <1>3 DEF Turned
    <3>3. P[s][up] = n /\ P[o][up] = w /\ P[s][y] = a
      BY <3>1, <3>2, <2>2, <1>1, <1>3
    <3>4. P[o][y] = outer /\ outer # y
      BY <3>1, <3>2, <2>2, <1>3
    <3>5. P[o][w] = y /\ P[s][w] = b
      BY <3>1, <3>2, <2>2, <2>4
    <3>6. ASSUME NEW m \in D, NEW z \in Sides, m # y, m # w PROVE P[z][m] = IF T[z][m] = y THEN w ELSE T[z][m]
      BY <3>2, <3>6, <1>2
    <3> QED BY <3>2, <3>3, <3>4, <3>5, <3>6
  <2>6. a \notin T.red /\ b \notin T.red
    BY <2>1, <2>2, <1>1, <1>2 DEF RedBut
  <2>7. Weight(T, y) = 1 /\ Weight(T, w) = 0 /\ Weight(P, y) = 0 /\ Weight(P, w) = 1
    BY <2>1, <2>2, <2>3 DEF Weight
  <2>8. /\ bh[y] = bh[w] + 1 /\ Bh(bh, outer) = bh[w] /\ Bh(bh, a) = bh[w] /\ Bh(bh, b) = bh[w] /\ bh[w] \in Nat
    <3>1. bh[y] = Bh(bh, w) + 1 /\ bh[y] = Bh(bh, outer) + 1 /\ Bh(bh, outer) \in Nat
      BY <2>7, <1>1, <1>2, SiblingIs
    <3>2. bh[w] \in Nat /\ Bh(bh, w) = bh[w]
      BY <2>2, <1>3 DEF Bh
    <3>3. bh[w] = Bh(bh, a) + 0 + 0 /\ bh[w] = Bh(bh, b) + 0 + 0
      BY <2>2, <2>7, <1>1, <1>2 DEF Level, Gap
    <3>4. Bh(bh, a) \in Nat /\ Bh(bh, b) \in Nat
      BY <2>4, <1>3 DEF Bh
    <3> QED BY <3>1, <3>2, <3>3, <3>4
  <2>9. bh2 \in [D -> Nat] /\ bh2[y] = bh[w] /\ bh2[w] = bh[y] /\ \A m \in D : m # w /\ m # y => bh2[m] = bh[m]
    BY <2>2, <1>3
  <2> HIDE DEF bh2, a, b, outer, w
  <2>10. Bh(bh2, a) = bh[w] /\ Bh(bh2, b) = bh[w] /\ Bh(bh2, outer) = bh[w] /\ Bh(bh2, y) = bh[w]
    <3>1. outer \in D \cup {Nil} /\ outer # w
      BY <2>2, <1>1, <1>2, <1>3, Kids DEF outer, w
    <3> QED BY <3>1, <2>2, <2>4, <2>8, <2>9, <1>3, <1>4 DEF Bh
  <2>11. Level(P, bh2, up, s, y)
    <3>1. ASSUME NEW z \in Sides PROVE bh2[y] = Bh(bh2, P[z][y]) + Weight(P, y) + Gap(up, s, y, z)
      BY <2>5, <2>7, <2>8, <2>9, <2>10, <1>2, <1>3 DEF Gap
    <3> QED BY <3>1 DEF Level
  <2>12. Level(P, bh2, up, s, w)
    <3>1. ASSUME NEW z \in Sides PROVE bh2[w] = Bh(bh2, P[z][w]) + Weight(P, w) + Gap(up, s, w, z)
      BY <2>2, <2>5, <2>7, <2>8, <2>9, <2>10, <1>2 DEF Gap
    <3> QED BY <3>1 DEF Level
  <2>13. ASSUME NEW m \in D, m # y, m # w PROVE Level(P, bh2, up, s, m)
    <3>1. \A z \in Sides : T[z][m] \notin {Nil, y} => bh2[T[z][m]] = bh[T[z][m]]
      <4>1. ASSUME NEW z \in Sides, T[z][m] \notin {Nil, y} PROVE T[z][m] \in D /\ T[z][m] # w
        BY <4>1, <2>2, <2>13, <1>1, Kids
      <4> QED BY <4>1, <2>9
    <3>2. Weight(P, m) = Weight(T, m)
      BY <2>3, <2>13 DEF Weight
    <3>3. bh2[w] = bh[y] /\ bh2[m] = bh[m] /\ Level(T, bh, up, s, m) /\ T[Opposite(o)][y] = w
      BY <2>9, <2>13, <1>1, <1>2 DEF w
    <3> QED BY <3>1, <3>2, <3>3, <2>2, <2>3, <2>13, <1>1, <1>2, <1>3, RotateLevel
  <2>14. HeightsShort(P, bh2, up, s)
    BY <2>3, <2>9, <2>11, <2>12, <2>13 DEF HeightsShort
  <2>15. RedBut(P, n)
    <3>1. ASSUME NEW m \in T.red, m # n PROVE m # T.root /\ \A z \in Sides : T[z][m] \in T.red => T[z][m] = n
      BY <3>1, <1>1 DEF RedBut
    <3>2. ASSUME NEW m \in P.red, m # n PROVE m # P.root /\ \A z \in Sides : P[z][m] \in P.red => P[z][m] = n
      <4>1. CASE m = y
        BY <4>1, <2>2, <2>3, <2>4, <2>5, <2>6, <1>2, <1>3, <1>6
      <4>2. CASE m # y
        <5>1. m \in T.red /\ m # w /\ m \in D
          BY <4>2, <3>2, <2>3, <1>4
        <5> QED BY <5>1, <4>2, <3>1, <3>2, <2>2, <2>3, <2>5
      <4> QED BY <4>1, <4>2
    <3> QED BY <3>2 DEF RedBut
  <2>16. n \notin P.red /\ P[o][up] \in D \ P.red /\ P[o][P[o][up]] \in P.red
    BY <2>2, <2>3, <2>5, <1>1, <1>3
  <2> QED BY <2>3, <2>5, <2>14, <2>15, <2>16, <1>1 DEF Lacking
<1> QED BY <1>5, <1>6

\* The last rotation of RB_REMOVE_COLOR closes the gap.
LEMMA RaiseSiblingKeeps ==
  ASSUME NEW T, NEW sub, NEW bh, NEW up, NEW s, NEW n, Lacking(T, sub, bh, up, s, n),
         NEW y, y = T[Opposite(s)][up], y \notin T.red, T[Opposite(s)][y] \in T.red,
         NEW P, P = RaiseSibling(T, s, up)
  PROVE  \E sub2, bh2 : Shape(P, sub2) /\ Nodes(P) = Nodes(T) /\ Heights(P, bh2) /\ RedUnder(P, Nil)
<1> DEFINE D == Nodes(T)
           o == Opposite(s)
           inner == T[s][y]
           outer == T[o][y]
           black == {y, up, outer}
           red == IF up \in T.red THEN {y} ELSE {}
           sub2 == RotatedSub(T, sub, s, up)
           bh2 == [bh EXCEPT ![up] = bh[y], ![y] = bh[up], ![outer] = bh[y]]
<1>1. Shape(T, sub) /\ s \in Sides /\ up \in D /\ T[s][up] = n /\ n \notin T.red /\ RedBut(T, n) /\ \A m \in D : Level(T, bh, up, s, m)
  BY DEF Lacking, HeightsShort
<1>2. o \in Sides /\ o # s /\ Opposite(o) = s /\ \A z \in Sides : z = s \/ z = o
  BY <1>1, SidesAre
<1>3. /\ y \in D /\ y # up /\ y # n /\ up # n /\ T.parent[y] = up /\ y # T.root
      /\ bh \in [D -> Nat] /\ Bh(bh, n) \in Nat /\ bh[y] = Bh(bh, n) + 1 /\ bh[up] = bh[y] + Weight(T, up)
  BY SiblingIs
<1>4. T.red \subseteq D /\ Nil \notin D
  BY <1>1, Kids
<1>5. /\ outer \in D /\ outer # up /\ outer # y /\ T.parent[outer] = y /\ outer # n
      /\ inner \in D \cup {Nil} /\ inner # up /\ inner # y /\ inner # outer
  <2>1. outer \in D /\ outer # n
    BY <1>1, <1>4
  <2>2. inner # up /\ outer # up
    BY <1>1, <1>2, SiblingIs
  <2> QED BY <2>1, <2>2, <1>1, <1>2, <1>3, <1>4, Kids
<1>6. P = Rotate(Paint(T, black, red), s, up)
  BY DEF RaiseSibling
<1>7. red \in SUBSET D /\ T[Opposite(s)][up] # Nil
  BY <1>3, <1>4
<1>8. Shape(P, sub2) /\ Nodes(P) = D /\ P.red = (T.red \ black) \cup red /\ Turned(T, s, up, P)
  <2> HIDE DEF red, black
  <2> QED BY <1>1, <1>6, <1>7, PaintRotate
<1> HIDE DEF sub2
<1>9. /\ P.root = (IF up = T.root THEN y ELSE T.root) /\ P[s][up] = n /\ P[o][up] = inner /\ P[s][y] = up /\ P[o][y] = outer
      /\ \A m \in D, z \in Sides : m # up /\ m # y => P[z][m] = IF T[z][m] = up THEN y ELSE T[z][m]
  BY <1>8, <1>1, <1>2, <1>3, <1>5 DEF Turned
<1>10. /\ P.red = (T.red \ {y, up, outer}) \cup (IF up \in T.red THEN {y} ELSE {})
  BY <1>8
<1> HIDE DEF red, black
<1>11. /\ Weight(T, y) = 1 /\ Weight(P, up) = 1 /\ Weight(P, outer) = 1 /\ Weight(P, y) = Weight(T, up)
       /\ (Weight(T, up) = 0 \/ Weight(T, up) = 1)
  BY <1>10, <1>3, <1>5 DEF Weight
<1>12. Bh(bh, inner) = Bh(bh, n) /\ bh[outer] = Bh(bh, n) /\ bh[outer] \in Nat
  <2>1. bh[y] = Bh(bh, inner) + 1 /\ bh[y] = Bh(bh, outer) + 1 /\ Bh(bh, inner) \in Nat
    BY <1>1, <1>2, <1>11, SiblingIs
  <2>2. Bh(bh, outer) = bh[outer] /\ bh[outer] \in Nat
    BY <1>3, <1>4, <1>5 DEF Bh
  <2> QED BY <2>1, <2>2, <1>3
<1>13. /\ bh2 \in [D -> Nat] /\ bh2[up] = bh[y] /\ bh2[y] = bh[up] /\ bh2[outer] = bh[y]
       /\ \A m \in D : m # up /\ m # y /\ m # outer => bh2[m] = bh[m]
  BY <1>1, <1>3, <1>5
<1> HIDE DEF bh2, inner, outer
<1>14. Bh(bh2, n) = Bh(bh, n) /\ Bh(bh2, inner) = Bh(bh, n) /\ Bh(bh2, outer) = bh[y] /\ Bh(bh2, up) = bh[y]
  <2>1. n \in D \cup {Nil}
    BY <1>1, Kids
  <2> QED BY <2>1, <1>1, <1>3, <1>4, <1>5, <1>12, <1>13 DEF Bh
<1>15. ASSUME NEW m \in D, m # up PROVE Level(T, bh, Nil, s, m)
  <2>1. \A z : Gap(Nil, s, m, z) = Gap(up, s, m, z)
    BY <1>4, <1>15 DEF Gap
  <2> QED BY <2>1, <1>1 DEF Level
<1>16. Level(P, bh2, Nil, s, up)
  <2>1. ASSUME NEW z \in Sides PROVE bh2[up] = Bh(bh2, P[z][up]) + Weight(P, up) + Gap(Nil, s, up, z)
    BY <1>1, <1>2, <1>3, <1>4, <1>9, <1>11, <1>13, <1>14 DEF Gap
  <2> QED BY <2>1 DEF Level
<1>17. Level(P, bh2, Nil, s, y)
  <2>1. ASSUME NEW z \in Sides PROVE bh2[y] = Bh(bh2, P[z][y]) + Weight(P, y) + Gap(Nil, s, y, z)
    BY <1>2, <1>3, <1>4, <1>9, <1>11, <1>13, <1>14 DEF Gap
  <2> QED BY <2>1 DEF Level
<1>18. ASSUME NEW m \in D, m # up, m # y, NEW z \in Sides, T[z][m] \notin {Nil, up} PROVE bh2[T[z][m]] = bh[T[z][m]] /\ T[z][m] \in D
  <2>1. T[z][m] \in D /\ T.parent[T[z][m]] = m
    BY <1>1, <1>18, Kids
  <2> QED BY <2>1, <1>3, <1>5, <1>13, <1>18
<1>19. Level(P, bh2, Nil, s, outer)
  <2>1. ASSUME NEW z \in Sides PROVE bh2[outer] = Bh(bh2, P[z][outer]) + Weight(P, outer) + Gap(Nil, s, outer, z)
    <3>1. bh[outer] = Bh(bh, T[z][outer]) + Weight(T, outer) + Gap(Nil, s, outer, z)
      BY <1>5, <1>15 DEF Level
    <3>2. T[z][outer] # up
      <4>1. up \notin Sub(sub, y)
        BY <1>1, <1>2, Kin
      <4>2. Sub(sub, outer) \subseteq sub[y]
        BY <1>1, <1>2, <1>3, Kin DEF outer
      <4>3. Sub(sub, T[z][outer]) \subseteq sub[outer] /\ up \in sub[up]
        BY <1>1, <1>5, Kin
      <4>4. Sub(sub, outer) = sub[outer] /\ Sub(sub, y) = sub[y] /\ Sub(sub, up) = sub[up]
        BY <1>1, <1>3, <1>4, <1>5 DEF Sub
      <4> QED BY <4>1, <4>2, <4>3, <4>4
    <3>3. P[z][outer] = T[z][outer]
      BY <3>2, <1>5, <1>9
    <3>4. Bh(bh2, T[z][outer]) = Bh(bh, T[z][outer])
      BY <3>2, <1>5, <1>18 DEF Bh
    <3>5. Weight(T, outer) = 0 /\ Gap(Nil, s, outer, z) = 0
      BY <1>4, <1>5 DEF Weight, Gap, outer
    <3>6. Bh(bh, T[z][outer]) \in Nat
      BY <1>1, <1>3, <1>5, Kids DEF Bh
    <3> QED BY <3>1, <3>3, <3>4, <3>5, <3>6, <1>3, <1>11, <1>12, <1>13
  <2> QED BY <2>1 DEF Level
<1>20. ASSUME NEW m \in D, m # up, m # y, m # outer PROVE Level(P, bh2, Nil, s, m)
  <2>1. \A z \in Sides : T[z][m] \notin {Nil, up} => bh2[T[z][m]] = bh[T[z][m]]
    BY <1>18, <1>20
  <2>2. Weight(P, m) = Weight(T, m)
    BY <1>10, <1>20 DEF Weight
  <2>3. bh2[y] = bh[up] /\ bh2[m] = bh[m] /\ Level(T, bh, Nil, s, m)
    BY <1>13, <1>15, <1>20
  <2> QED BY <2>1, <2>2, <2>3, <1>1, <1>3, <1>8, <1>20, RotateLevel
<1>21. HeightsShort(P, bh2, Nil, s)
  BY <1>8, <1>13, <1>16, <1>17, <1>19, <1>20 DEF HeightsShort
<1>22. Heights(P, bh2)
  BY <1>8, <1>21, Kids, NotShort
<1>23. RedUnder(P, Nil)
  <2>1. ASSUME NEW m \in T.red PROVE m # T.root /\ \A z \in Sides : T[z][m] \notin T.red
    BY <1>1 DEF RedBut
  <2>2. ASSUME NEW m \in P.red PROVE m # P.root /\ \A z \in Sides : P[z][m] \notin P.red
    <3>1. CASE m = y
      BY <3>1, <2>1, <2>2, <1>2, <1>3, <1>5, <1>9, <1>10
    <3>2. CASE m # y
      <4>1. m \in T.red /\ m # up /\ m # outer /\ m \in D
        BY <3>2, <2>2, <1>4, <1>10
      <4>2. m # P.root
        BY <3>2, <4>1, <2>1, <1>9
      <4>3. ASSUME NEW z \in Sides PROVE P[z][m] \notin P.red
        <5>1. P[z][m] = IF T[z][m] = up THEN y ELSE T[z][m]
          BY <3>2, <4>1, <1>9
        <5>2. T[z][m] # y
          BY <4>1, <1>1, <1>3, <1>4, Kids
        <5> QED BY <5>1, <5>2, <4>1, <2>1, <1>10
      <4> QED BY <4>2, <4>3
    <3> QED BY <3>1, <3>2
  <2> QED BY <2>2 DEF RedUnder
<1> QED BY <1>8, <1>22, <1>23

\* Node n hangs under up on side s, or is the root.
Placed(T, up, s, n) == (up = Nil /\ n = T.root) \/ (up \in Nodes(T) /\ T[s][up] = n)

\* What the loop of RB_REMOVE_COLOR keeps, after i turns: the tree is in order, the ways
\* down through node alone are one black node short, no red node but node has a red
\* parent, and the subtree of node has i nodes at least as long as the loop goes on.
Removing(D, at, i) ==
  \E sub, bh : \E s \in Sides :
    /\ Shape(at.tree, sub) /\ Nodes(at.tree) = D /\ HeightsShort(at.tree, bh, at.up, s)
    /\ RedBut(at.tree, at.node) /\ Placed(at.tree, at.up, s, at.node)
    /\ at.node \notin at.tree.red /\ at.node # at.tree.root => Cardinality(Sub(sub, at.node)) >= i

\* A turn of the loop of RB_REMOVE_COLOR keeps this.
LEMMA RemoveTurn ==
  ASSUME NEW D, IsFiniteSet(D), NEW i \in Nat,
         NEW at \in [tree : TreesOn(D), up : D \cup {Nil}, node : D \cup {Nil}], Removing(D, at, i)
  PROVE  /\ RemoveColorTurn(at) \in [tree : TreesOn(D), up : D \cup {Nil}, node : D \cup {Nil}]
         /\ Removing(D, RemoveColorTurn(at), i + 1)
<1> DEFINE T == at.tree
           n == at.node
           up == at.up
           R == RemoveColorTurn(at)
<1>1. PICK sub, bh : \E s \in Sides :
        /\ Shape(T, sub) /\ Nodes(T) = D /\ HeightsShort(T, bh, up, s) /\ RedBut(T, n) /\ Placed(T, up, s, n)
        /\ n \notin T.red /\ n # T.root => Cardinality(Sub(sub, n)) >= i
  BY DEF Removing
<1>2. PICK s \in Sides :
        /\ Shape(T, sub) /\ Nodes(T) = D /\ HeightsShort(T, bh, up, s) /\ RedBut(T, n) /\ Placed(T, up, s, n)
        /\ n \notin T.red /\ n # T.root => Cardinality(Sub(sub, n)) >= i
  BY <1>1
<1> HIDE DEF R
<1>3. CASE n \in T.red \/ n = T.root
  <2>1. R = at
    BY <1>3 DEF RemoveColorTurn, R
  <2>2. Removing(D, at, i + 1)
    BY <1>2, <1>3 DEF Removing
  <2> QED BY <2>1, <2>2 DEF R
<1>4. CASE n \notin T.red /\ n # T.root
  <2> DEFINE o == Opposite(s)
             P == BlackSibling(T, s, up)
             y == P[o][up]
             Q == RedNephew(P, s, up)
             raised == RaiseSibling(Q, s, up)
  <2>1. Lacking(T, sub, bh, up, s, n)
    BY <1>2, <1>4 DEF Lacking, Placed
  <2>2. s = IF T.left[up] = n THEN "left" ELSE "right"
    <3>1. T[Opposite(s)][up] # n
      BY <2>1, SiblingIs
    <3>2. T[s][up] = n
      BY <2>1 DEF Lacking
    <3> QED BY <3>1, <3>2 DEF Sides, Opposite
  <2>3. R = IF \A z \in Sides : P[z][y] \notin P.red
            THEN [tree |-> Paint(P, {}, {y}), up |-> P.parent[up], node |-> up]
            ELSE [tree |-> raised, up |-> Nil, node |-> raised.root]
    BY <1>4, <2>2 DEF RemoveColorTurn, R
  <2>4. PICK sub2, bh2 : /\ Lacking(P, sub2, bh2, up, s, n) /\ Nodes(P) = D
                         /\ y \in D \ P.red /\ Sub(sub2, n) = Sub(sub, n)
    BY <2>1, <1>2, BlackSiblingKeeps
  <2> HIDE DEF P, Q, raised
  <2>5. CASE \A z \in Sides : P[z][y] \notin P.red
    <3> DEFINE A == Paint(P, {}, {y})
    <3>1. R = [tree |-> A, up |-> P.parent[up], node |-> up]
      BY <2>3, <2>5
    <3> HIDE DEF A
    <3>2. PICK bh3 : \E q \in Sides :
            /\ Shape(A, sub2) /\ Nodes(A) = D /\ RedBut(A, up) /\ A.parent = P.parent /\ A.root = P.root
            /\ HeightsShort(A, bh3, P.parent[up], q) /\ (P.parent[up] # Nil => A[q][P.parent[up]] = up)
      BY <2>4, <2>5, RepaintSibling DEF A
    <3>3. PICK q \in Sides :
            /\ Shape(A, sub2) /\ Nodes(A) = D /\ RedBut(A, up) /\ A.parent = P.parent /\ A.root = P.root
            /\ HeightsShort(A, bh3, P.parent[up], q) /\ (P.parent[up] # Nil => A[q][P.parent[up]] = up)
      BY <3>2
    <3>4. up \in D /\ A \in TreesOn(D) /\ Nil \notin D /\ P.parent[up] \in D \cup {Nil} /\ (P.parent[up] = Nil => up = A.root)
      <4>1. up \in D
        BY <2>4 DEF Lacking
      <4>2. A.parent[up] \in D \cup {Nil} /\ (A.parent[up] = Nil <=> up = A.root)
        BY <4>1, <3>3, Kin
      <4> QED BY <4>1, <4>2, <3>3, Kids
    <3>5. Placed(A, P.parent[up], q, up)
      BY <3>3, <3>4 DEF Placed
    <3>6. Cardinality(Sub(sub2, up)) >= i + 1
      <4>1. P[s][up] = n /\ Shape(P, sub2)
        BY <2>4 DEF Lacking
      <4>2. up \notin Sub(sub2, n) /\ Sub(sub2, n) \subseteq sub2[up] /\ up \in sub2[up] /\ sub2[up] \subseteq D
        BY <4>1, <2>4, <3>4, Kin
      <4>3. IsFiniteSet(sub2[up])
        BY <4>2, FS_Subset
      <4>4. Cardinality(Sub(sub2, n)) < Cardinality(sub2[up]) /\ Cardinality(Sub(sub2, n)) \in Nat /\ Cardinality(sub2[up]) \in Nat
        BY <4>2, <4>3, FS_Subset, FS_CardinalityType
      <4>5. Cardinality(Sub(sub2, n)) >= i
        BY <2>4, <1>2, <1>4
      <4> QED BY <4>4, <4>5, <3>4 DEF Sub
    <3>7. R.tree = A /\ R.up = P.parent[up] /\ R.node = up
      BY <3>1
    <3>8. Removing(D, R, i + 1)
      BY <3>3, <3>5, <3>6, <3>7 DEF Removing
    <3> QED BY <3>1, <3>4, <3>8 DEF R
  <2>6. CASE \E z \in Sides : P[z][y] \in P.red
    <3>1. R = [tree |-> raised, up |-> Nil, node |-> raised.root]
      BY <2>3, <2>6
    <3>2. PICK sub3, bh3 : /\ Lacking(Q, sub3, bh3, up, s, n) /\ Nodes(Q) = D
                           /\ Q[o][up] \in D \ Q.red /\ Q[o][Q[o][up]] \in Q.red
      BY <2>4, <2>6, RedNephewKeeps DEF Q
    <3>3. PICK sub4, bh4 : Shape(raised, sub4) /\ Nodes(raised) = D /\ Heights(raised, bh4) /\ RedUnder(raised, Nil)
      BY <3>2, RaiseSiblingKeeps DEF raised
    <3>4. raised \in TreesOn(D) /\ Nil \notin D /\ raised.root \in D \cup {Nil} /\ raised.red \subseteq D
      BY <3>3, Kids, Fields
    <3>5. HeightsShort(raised, bh4, Nil, s)
      BY <3>3, <3>4, NotShort
    <3>6. RedBut(raised, raised.root)
      BY <3>3, <3>4 DEF RedBut, RedUnder
    <3>7. Placed(raised, Nil, s, raised.root)
      BY DEF Placed
    <3>8. R.tree = raised /\ R.up = Nil /\ R.node = raised.root
      BY <3>1
    <3>9. Removing(D, R, i + 1)
      BY <3>3, <3>5, <3>6, <3>7, <3>8 DEF Removing
    <3> QED BY <3>1, <3>4, <3>9 DEF R
  <2> QED BY <2>5, <2>6
<1> QED BY <1>3, <1>4

\* RB_REMOVE_COLOR makes a balanced tree of one that is one black node short in one place.
LEMMA RemoveColorIs ==
  ASSUME NEW T, NEW sub, Shape(T, sub), IsFiniteSet(Nodes(T)), NEW up \in Nodes(T) \cup {Nil}, NEW s \in Sides,
         NEW bh, HeightsShort(T, bh, up, s), NEW n, RedBut(T, n), Placed(T, up, s, n)
  PROVE  Good(RemoveColor(T, up, n)) /\ Nodes(RemoveColor(T, up, n)) = Nodes(T)
<1> DEFINE D == Nodes(T)
           Typed == [tree : TreesOn(D), up : D \cup {Nil}, node : D \cup {Nil}]
           x == [tree |-> T, up |-> up, node |-> n]
           S == [i \in Nat |-> {a \in Typed : Removing(D, a, i)}]
<1>1. T \in TreesOn(D) /\ Nil \notin D /\ n \in D \cup {Nil} /\ T.root \in D \cup {Nil}
  BY Kids, Fields DEF Placed
<1>2. x \in S[0]
  <2>1. Cardinality(Sub(sub, n)) >= 0
    <3>1. Sub(sub, n) \subseteq D
      BY <1>1, Kin DEF Sub
    <3> QED BY <3>1, FS_Subset, FS_CardinalityType
  <2>2. Removing(D, x, 0)
    BY <2>1 DEF Removing
  <2> QED BY <2>2, <1>1
<1>3. \A i \in Nat : \A a \in S[i] : RemoveColorTurn(a) \in S[i + 1]
  <2>1. ASSUME NEW i \in Nat, NEW a \in S[i] PROVE RemoveColorTurn(a) \in S[i + 1]
    <3>1. a \in Typed /\ Removing(D, a, i) /\ i + 1 \in Nat
      OBVIOUS
    <3>2. RemoveColorTurn(a) \in Typed /\ Removing(D, RemoveColorTurn(a), i + 1)
      BY <3>1, RemoveTurn
    <3> QED BY <3>1, <3>2
  <2> QED BY <2>1
<1>4. PICK end \in S[Cardinality(D)] : RemoveColor(T, up, n) = Paint(end.tree, {end.node}, {})
  <2> HIDE DEF S
  <2> QED BY <1>2, <1>3, RemoveColorRun
<1>5. Removing(D, end, Cardinality(D)) /\ end \in Typed /\ Cardinality(D) \in Nat
  BY <1>4, FS_CardinalityType
<1>6. PICK sub2, bh2 : \E q \in Sides :
        /\ Shape(end.tree, sub2) /\ Nodes(end.tree) = D /\ HeightsShort(end.tree, bh2, end.up, q)
        /\ RedBut(end.tree, end.node) /\ Placed(end.tree, end.up, q, end.node)
        /\ end.node \notin end.tree.red /\ end.node # end.tree.root => Cardinality(Sub(sub2, end.node)) >= Cardinality(D)
  BY <1>5 DEF Removing
<1>7. PICK q \in Sides :
        /\ Shape(end.tree, sub2) /\ Nodes(end.tree) = D /\ HeightsShort(end.tree, bh2, end.up, q)
        /\ RedBut(end.tree, end.node) /\ Placed(end.tree, end.up, q, end.node)
        /\ end.node \notin end.tree.red /\ end.node # end.tree.root => Cardinality(Sub(sub2, end.node)) >= Cardinality(D)
  BY <1>6
<1>8. CASE end.up = Nil
  BY <1>1, <1>4, <1>7, <1>8, LastPaint DEF Placed
<1>9. CASE end.up # Nil
  <2>1. end.up \in D /\ end.tree[q][end.up] = end.node
    BY <1>7, <1>9 DEF Placed
  <2>2. end.node # end.tree.root
    <3>1. end.node # Nil => end.node # end.tree.root
      BY <2>1, <1>7, Kids
    <3>2. end.tree.root # Nil
      BY <2>1, <1>7 DEF Shape, Branches, Sub
    <3> QED BY <3>1, <3>2
  <2>3. Sub(sub2, end.node) \subseteq D /\ end.up \notin Sub(sub2, end.node)
    <3>1. Sub(sub2, end.node) \subseteq sub2[end.up] /\ sub2[end.up] \subseteq D /\ end.up \notin Sub(sub2, end.node)
      BY <2>1, <1>7, Kin
    <3> QED BY <3>1
  <2>4. Cardinality(Sub(sub2, end.node)) < Cardinality(D) /\ Cardinality(Sub(sub2, end.node)) \in Nat
    <3>1. Sub(sub2, end.node) # D
      BY <2>1, <2>3
    <3> QED BY <3>1, <2>3, FS_Subset, FS_CardinalityType
  <2>5. end.node \in end.tree.red
    BY <2>2, <2>4, <1>5, <1>7
  <2> QED BY <2>1, <2>5, <1>4, <1>7, LastPaint
<1> QED BY <1>8, <1>9

-----------------------------------------------------------------------------
(* RB_REMOVE. *)

\* What the walk from n to side s keeps, after i turns: every node of the subtree is under
\* the node m reached, or m lies on side s of it.
Outward(T, sub, s, n, m, i) ==
  /\ m \in sub[n] /\ sub[m] \subseteq sub[n]
  /\ \A a \in sub[n] : a \in sub[m] \/ Toward(s, m, a)
  /\ T[s][m] # Nil => Cardinality(sub[m]) + i <= Cardinality(Nodes(T))

\* A turn of the walk keeps this.
LEMMA OutwardKeeps ==
  ASSUME NEW T, NEW sub, Shape(T, sub), IsFiniteSet(Nodes(T)), NEW s \in Sides, NEW n \in Nodes(T),
         NEW m \in Nodes(T), NEW i \in Nat, Outward(T, sub, s, n, m, i), NEW m2, m2 = T[s][m], m2 # Nil
  PROVE  m2 \in Nodes(T) /\ Outward(T, sub, s, n, m2, i + 1)
<1> DEFINE D == Nodes(T)
           o == Opposite(s)
<1>1. m2 \in D /\ m2 \in sub[m2] /\ sub[m2] \subseteq sub[m] /\ o \in Sides
  <2>1. m2 \in D
    BY Kids
  <2>2. Sub(sub, m2) \subseteq sub[m] /\ m2 \in sub[m2]
    BY <2>1, Kin
  <2> QED BY <2>1, <2>2, SidesAre DEF Sub
<1>2. OrderOn(D) /\ sub[n] \subseteq D
  BY Kids, Kin
<1>3. Toward(s, m2, m)
  BY <1>1 DEF Shape, Branches, Sub
<1>4. ASSUME NEW a \in sub[n], a \notin sub[m2] PROVE Toward(s, m2, a)
  <2>1. CASE a = m
    BY <2>1, <1>3
  <2>2. CASE a \notin sub[m]
    <3>1. Toward(s, m, a) /\ a \in D
      BY <2>2, <1>2 DEF Outward
    <3> QED BY <3>1, <1>1, <1>2, <1>3, TowardOrder
  <2>3. CASE a \in sub[m] /\ a # m
    <3>1. a \in Sub(sub, T[o][m])
      <4>1. sub[m] = {m} \cup Sub(sub, T[s][m]) \cup Sub(sub, T[o][m])
        BY DEF Shape, Branches
      <4> QED BY <4>1, <2>3, <1>4 DEF Sub
    <3>2. Toward(o, a, m)
      BY <3>1, <1>1 DEF Shape, Branches
    <3>3. Toward(s, m, a) /\ a \in D
      BY <3>2, <1>2, SidesAre
    <3> QED BY <3>3, <1>1, <1>2, <1>3, TowardOrder
  <2> QED BY <2>1, <2>2, <2>3
<1>5. Cardinality(sub[m2]) + (i + 1) <= Cardinality(D)
  <2>1. Cardinality(sub[m2]) < Cardinality(sub[m]) /\ Cardinality(sub[m]) \in Nat /\ Cardinality(sub[m2]) \in Nat /\ Cardinality(D) \in Nat
    BY <1>1, Smaller
  <2> QED BY <2>1 DEF Outward
<1> QED BY <1>1, <1>4, <1>5 DEF Outward

\* The outermost node of a subtree on side s lies on that side of its other nodes.
LEMMA OutermostIs ==
  ASSUME NEW T, NEW sub, Shape(T, sub), IsFiniteSet(Nodes(T)), NEW s \in Sides, NEW n \in Nodes(T)
  PROVE  LET m == Outermost(T, s, n) IN
         /\ m \in sub[n] /\ m \in Nodes(T) /\ T[s][m] = Nil /\ sub[m] \subseteq sub[n]
         /\ \A a \in sub[n] \ {m} : Toward(s, m, a)
<1> DEFINE D == Nodes(T)
           S == [i \in Nat |-> {m \in D : Outward(T, sub, s, n, m, i)}]
           end == Outermost(T, s, n)
<1>1. n \in sub[n] /\ sub[n] \subseteq D /\ Cardinality(D) \in Nat /\ Cardinality(sub[n]) <= Cardinality(D) /\ Cardinality(sub[n]) \in Nat
  BY Kin, Smaller
<1>2. n \in S[0]
  <2>1. Outward(T, sub, s, n, n, 0)
    BY <1>1 DEF Outward
  <2> QED BY <2>1
<1>3. \A i \in Nat : \A a \in S[i] : (IF T[s][a] = Nil THEN a ELSE T[s][a]) \in S[i + 1]
  <2>1. ASSUME NEW i \in Nat, NEW a \in S[i] PROVE (IF T[s][a] = Nil THEN a ELSE T[s][a]) \in S[i + 1]
    <3>1. a \in D /\ Outward(T, sub, s, n, a, i) /\ i + 1 \in Nat
      OBVIOUS
    <3>2. CASE T[s][a] = Nil
      <4>1. Outward(T, sub, s, n, a, i + 1)
        BY <3>1, <3>2 DEF Outward
      <4> QED BY <3>1, <3>2, <4>1
    <3>3. CASE T[s][a] # Nil
      <4>1. T[s][a] \in D /\ Outward(T, sub, s, n, T[s][a], i + 1)
        BY <3>1, <3>3, OutwardKeeps
      <4> QED BY <3>1, <3>3, <4>1
    <3> QED BY <3>2, <3>3
  <2> QED BY <2>1
<1> HIDE DEF end
<1>4. end \in S[Cardinality(D)]
  <2> HIDE DEF S
  <2> QED BY <1>2, <1>3, OutermostRun DEF end
<1>5. end \in D /\ Outward(T, sub, s, n, end, Cardinality(D))
  BY <1>1, <1>4
<1>6. T[s][end] = Nil
  <2>1. Cardinality(sub[end]) \in Nat /\ Cardinality(sub[end]) > 0
    BY <1>5, Smaller
  <2> QED BY <2>1, <1>1, <1>5 DEF Outward
<1>7. ASSUME NEW a \in sub[n], a # end PROVE Toward(s, end, a)
  <2>1. CASE a \in sub[end]
    <3>1. sub[end] = {end} \cup Sub(sub, T[s][end]) \cup Sub(sub, T[Opposite(s)][end])
      BY <1>5 DEF Shape, Branches
    <3>2. a \in Sub(sub, T[Opposite(s)][end])
      BY <3>1, <2>1, <1>6, <1>7 DEF Sub
    <3>3. Toward(Opposite(s), a, end)
      BY <3>2, <1>5, SidesAre DEF Shape, Branches
    <3> QED BY <3>3, SidesAre
  <2>2. CASE a \notin sub[end]
    BY <2>2, <1>5 DEF Outward
  <2> QED BY <2>1, <2>2
<1> QED BY <1>5, <1>6, <1>7 DEF Outward, end

\* P is T without n: its child c, if it has one, is in its place.
Unhung(T, n, c, P) ==
  /\ P \in TreesOn(Nodes(T) \ {n}) /\ P.red = T.red \ {n}
  /\ P.root = IF n = T.root THEN c ELSE T.root
  /\ \A m \in Nodes(T) \ {n}, z \in Sides : P[z][m] = IF T[z][m] = n THEN c ELSE T[z][m]
  /\ \A m \in Nodes(T) \ {n} : P.parent[m] = IF m = c THEN T.parent[n] ELSE T.parent[m]

\* The only child of n, or Nil.
OnlyChild(T, n, c) == \E z \in Sides : T[z][n] = Nil /\ T[Opposite(z)][n] = c

\* n hangs on side s of its parent, and nowhere else.
HangsOn(T, D, s, n) == \A m \in D, z \in Sides : T[z][m] = n <=> m = T.parent[n] /\ z = s

\* The tree without a node that has one child at most is a search tree.
LEMMA UnhungShape ==
  ASSUME NEW T, NEW sub, Shape(T, sub), NEW n \in Nodes(T), NEW c, OnlyChild(T, n, c), NEW P, Unhung(T, n, c, P)
  PROVE  /\ \E sub2 : Shape(P, sub2)
         /\ Nodes(P) = Nodes(T) \ {n}
         /\ c \in Nodes(P) \cup {Nil} /\ T.parent[n] \in Nodes(P) \cup {Nil}
         /\ \E s \in Sides : Placed(P, T.parent[n], s, c) /\ HangsOn(T, Nodes(P), s, n)
<1> DEFINE D == Nodes(T)
           E == D \ {n}
           up == T.parent[n]
           sub2 == [m \in E |-> sub[m] \ {n}]
<1>1. T \in TreesOn(D) /\ Nil \notin D /\ OrderOn(D) /\ T.root \in D /\ sub \in [D -> SUBSET D] /\ sub[T.root] = D
  BY Fields DEF Shape, Branches, Sub
<1>2. ASSUME NEW m \in D, NEW z \in Sides
      PROVE  /\ T[z][m] \in D \cup {Nil} /\ T[z][m] # m
             /\ T[z][m] # Nil => T[z][m] # T.root /\ T.parent[T[z][m]] = m /\ T[Opposite(z)][m] # T[z][m]
  BY Kids
<1>3. PICK q \in Sides : T[q][n] = Nil /\ T[Opposite(q)][n] = c
  BY DEF OnlyChild
<1>4. \A z \in Sides : z = q \/ z = Opposite(q)
  BY SidesAre
<1>6. c # Nil => c \in E /\ T.parent[c] = n /\ c # T.root
  BY <1>2, <1>3, SidesAre
<1>7. up \in E \cup {Nil} /\ (n # T.root <=> up \in D) /\ (n = T.root <=> up = Nil) /\ up # n
  BY Kin
<1>8. /\ P \in TreesOn(E) /\ Nodes(P) = E
      /\ P.root = IF n = T.root THEN c ELSE T.root
  BY Fields DEF Unhung
<1>9. ASSUME NEW m \in E
      PROVE  /\ \A z \in Sides : P[z][m] = IF T[z][m] = n THEN c ELSE T[z][m]
             /\ P.parent[m] = IF m = c THEN up ELSE T.parent[m]
  BY DEF Unhung
<1>10. ASSUME NEW m \in D, m # T.root PROVE T.parent[m] \in D /\ \E z \in Sides : T[z][T.parent[m]] = m
  BY <1>10, Kin
<1>11. \A m \in D, z \in Sides : T[z][m] = n => m = up
  BY <1>1, <1>2
<1> HIDE DEF E, up, sub2
<1>12. Linked(P)
  <2>1. P.root # Nil => P.parent[P.root] = Nil
    <3>1. T.parent[T.root] = Nil
      BY <1>1 DEF Shape, Linked
    <3>2. CASE n = T.root
      BY <3>2, <1>6, <1>7, <1>8, <1>9
    <3>3. CASE n # T.root
      <4>1. T.root \in E /\ T.root # c
        BY <3>3, <1>1, <1>6 DEF E
      <4> QED BY <3>1, <3>3, <4>1, <1>8, <1>9
    <3> QED BY <3>2, <3>3
  <2>2. ASSUME NEW m \in E, m # P.root PROVE P.parent[m] \in E /\ \E z \in Sides : P[z][P.parent[m]] = m
    <3>1. CASE m = c
      <4>1. n # T.root /\ up \in E
        BY <3>1, <2>2, <1>1, <1>7, <1>8
      <4>2. PICK z \in Sides : T[z][up] = n
        BY <4>1, <1>10 DEF up
      <4> QED BY <3>1, <4>1, <4>2, <1>9
    <3>2. CASE m # c
      <4>1. m # T.root
        BY <3>2, <2>2, <1>8 DEF E
      <4>2. PICK z \in Sides : T.parent[m] \in D /\ T[z][T.parent[m]] = m
        BY <4>1, <1>10 DEF E
      <4>3. T.parent[m] # n
        BY <3>2, <4>2, <1>1, <1>3, <1>4 DEF E
      <4>4. m # n /\ T.parent[m] \in E
        BY <4>2, <4>3 DEF E
      <4> QED BY <3>2, <4>2, <4>4, <1>9
    <3> QED BY <3>1, <3>2
  <2>3. ASSUME NEW m \in E, NEW z \in Sides, P[z][m] # Nil PROVE P.parent[P[z][m]] = m
    <3>1. CASE T[z][m] = n
      BY <3>1, <2>3, <1>6, <1>9, <1>11 DEF E
    <3>2. CASE T[z][m] # n
      <4>1. P[z][m] = T[z][m] /\ T[z][m] \in E /\ T.parent[T[z][m]] = m
        BY <3>2, <2>3, <1>2, <1>9 DEF E
      <4>2. T[z][m] # c
        BY <4>1, <1>1, <1>6 DEF E
      <4> QED BY <4>1, <4>2, <1>9
    <3> QED BY <3>1, <3>2
  <2> QED BY <2>1, <2>2, <2>3, <1>8 DEF Linked
<1>13. Branches(P, sub2)
  <2>1. sub2 \in [E -> SUBSET E] /\ \A m \in E : sub2[m] = sub[m] \ {n}
    <3>1. ASSUME NEW m \in E PROVE sub[m] \ {n} \in SUBSET E
      BY <1>1 DEF E
    <3> QED BY <3>1 DEF sub2
  <2>2. /\ sub[n] = {n} \cup Sub(sub, c) /\ n \notin Sub(sub, c)
    <3>1. sub[n] = {n} \cup Sub(sub, T[q][n]) \cup Sub(sub, T[Opposite(q)][n])
      BY DEF Shape, Branches
    <3>2. n \notin Sub(sub, T[Opposite(q)][n])
      BY SidesAre, Kin
    <3> QED BY <3>1, <3>2, <1>3 DEF Sub
  <2>3. Sub(sub2, c) = Sub(sub, c)
    <3>1. CASE c = Nil
      BY <3>1 DEF Sub
    <3>2. CASE c # Nil
      <4>1. c \in E
        BY <3>2, <1>6
      <4>2. sub2[c] = sub[c] \ {n} /\ Sub(sub2, c) = sub2[c] /\ Sub(sub, c) = sub[c]
        BY <3>2, <4>1, <2>1 DEF Sub
      <4> QED BY <4>2, <2>2
    <3> QED BY <3>1, <3>2
  <2>4. Sub(sub2, P.root) = E
    <3>1. CASE n = T.root
      BY <3>1, <2>2, <2>3, <1>1, <1>8 DEF E
    <3>2. CASE n # T.root
      BY <3>2, <2>1, <1>1, <1>8 DEF E, Sub
    <3> QED BY <3>1, <3>2
  <2>5. ASSUME NEW m \in E, NEW z \in Sides PROVE Sub(sub2, P[z][m]) = Sub(sub, T[z][m]) \ {n}
    <3>1. CASE T[z][m] = n
      <4>1. P[z][m] = c /\ Sub(sub, n) = sub[n]
        BY <3>1, <1>1, <1>9 DEF Sub
      <4> QED BY <4>1, <3>1, <2>2, <2>3
    <3>2. CASE T[z][m] # n
      <4>1. P[z][m] = T[z][m] /\ T[z][m] \in E \cup {Nil}
        BY <3>2, <1>2, <1>9 DEF E
      <4> QED BY <4>1, <2>1 DEF Sub
    <3> QED BY <3>1, <3>2
  <2>6. ASSUME NEW m \in E, NEW z \in Sides
        PROVE  /\ sub2[m] = {m} \cup Sub(sub2, P[z][m]) \cup Sub(sub2, P[Opposite(z)][m])
               /\ \A k \in Sub(sub2, P[z][m]) : Toward(z, k, m)
    <3>1. /\ sub[m] = {m} \cup Sub(sub, T[z][m]) \cup Sub(sub, T[Opposite(z)][m])
          /\ \A k \in Sub(sub, T[z][m]) : Toward(z, k, m)
      BY DEF Shape, Branches, E
    <3>2. m # n /\ Opposite(z) \in Sides
      BY SidesAre DEF E
    <3> QED BY <3>1, <3>2, <2>1, <2>5
  <2> QED BY <2>1, <2>4, <2>6, <1>8 DEF Branches
<1>14. OrderOn(E)
  BY <1>1 DEF OrderOn, E
<1>15. \E s \in Sides : Placed(P, up, s, c) /\ \A m \in E, z \in Sides : T[z][m] = n <=> m = up /\ z = s
  <2>1. CASE n = T.root
    BY <2>1, <1>1, <1>2, <1>7, <1>8 DEF Placed, E
  <2>2. CASE n # T.root
    <3>1. up \in E
      BY <2>2, <1>1, <1>7 
    <3>2. PICK s \in Sides : T[s][up] = n
      BY <2>2, <1>10 DEF up
    <3>3. Placed(P, up, s, c)
      BY <3>1, <3>2, <1>8, <1>9 DEF Placed
    <3>4. \A m \in E, z \in Sides : T[z][m] = n <=> m = up /\ z = s
      <4>1. T[Opposite(s)][up] # n
        BY <3>1, <3>2, <1>1, <1>2 DEF E
      <4> QED BY <3>1, <3>2, <4>1, <1>11, SidesAre DEF E
    <3> QED BY <3>3, <3>4
  <2> QED BY <2>1, <2>2
<1>16. c \in E \cup {Nil} /\ up \in E \cup {Nil}
  BY <1>6, <1>7
<1> QED BY <1>1, <1>8, <1>12, <1>13, <1>14, <1>15, <1>16 DEF Shape, HangsOn, E, up

\* The heights without n: nothing is missing if it was red, a black node if it was black.
LEMMA UnhungHeights ==
  ASSUME NEW T, NEW sub, Shape(T, sub), NEW bh, Heights(T, bh), RedUnder(T, Nil),
         NEW n \in Nodes(T), NEW c, OnlyChild(T, n, c), NEW P, Unhung(T, n, c, P), Nodes(P) = Nodes(T) \ {n},
         NEW up, up = IF n \in T.red THEN Nil ELSE T.parent[n], NEW s \in Sides,
         HangsOn(T, Nodes(P), s, n)
  PROVE  /\ \E bh2 : HeightsShort(P, bh2, up, s)
         /\ RedBut(P, c)
         /\ n \in T.red => RedUnder(P, Nil)
<1> DEFINE D == Nodes(T)
           E == Nodes(P)
           bh2 == [m \in E |-> bh[m]]
<1>1. Nil \notin D /\ T.red \subseteq D /\ E = D \ {n}
  BY Kids
<1>0. \A m \in E, z \in Sides : T[z][m] = n <=> m = T.parent[n] /\ z = s
  BY DEF HangsOn
<1>2. PICK q \in Sides : T[q][n] = Nil /\ T[Opposite(q)][n] = c
  BY DEF OnlyChild
<1>3. c \in E \cup {Nil}
  BY <1>1, <1>2, Kids, SidesAre
<1>4. ASSUME NEW m \in E, NEW z \in Sides PROVE P[z][m] = IF T[z][m] = n THEN c ELSE T[z][m]
  BY <1>1 DEF Unhung
<1>5. P.red = T.red \ {n} /\ P.root = IF n = T.root THEN c ELSE T.root
  BY DEF Unhung
<1>6. bh \in [D -> Nat] /\ \A m \in D, z \in Sides : bh[m] = Bh(bh, T[z][m]) + Weight(T, m)
  BY DEF Heights
<1>7. bh[n] = Bh(bh, c) + Weight(T, n) /\ Bh(bh, c) \in Nat
  BY <1>1, <1>2, <1>3, <1>6, SidesAre DEF Bh
<1>8. bh2 \in [E -> Nat] /\ \A m \in E : bh2[m] = bh[m]
  BY <1>1, <1>6
<1> HIDE DEF bh2, E
<1>9. ASSUME NEW m \in E PROVE Level(P, bh2, up, s, m)
  <2>1. ASSUME NEW z \in Sides PROVE bh2[m] = Bh(bh2, P[z][m]) + Weight(P, m) + Gap(up, s, m, z)
    <3>1. bh[m] = Bh(bh, T[z][m]) + Weight(T, m) /\ bh[m] \in Nat /\ m \in D /\ bh2[m] = bh[m]
      BY <1>1, <1>6, <1>8
    <3>2. Weight(P, m) = Weight(T, m) /\ (Weight(T, m) = 0 \/ Weight(T, m) = 1)
      BY <1>1, <1>5 DEF Weight
    <3>3. CASE T[z][m] = n
      <4>1. P[z][m] = c /\ Bh(bh, n) = bh[n] /\ bh[n] \in Nat
        BY <3>3, <1>1, <1>4, <1>6 DEF Bh
      <4>2. Bh(bh2, c) = Bh(bh, c)
        BY <1>3, <1>8 DEF Bh
      <4>3. Gap(up, s, m, z) = Weight(T, n)
        BY <3>1, <3>3, <1>0, <1>1 DEF Gap, Weight, E
      <4>4. bh2[m] = bh[n] + Weight(T, m) /\ bh[n] = Bh(bh2, c) + Weight(T, n)
        BY <3>1, <3>3, <4>1, <4>2, <1>7
      <4>5. Weight(T, n) \in Nat /\ Weight(T, m) \in Nat /\ Bh(bh2, c) \in Nat
        BY <3>2, <4>2, <1>7 DEF Weight
      <4> HIDE DEF Weight
      <4>6. bh2[m] = Bh(bh2, c) + Weight(P, m) + Gap(up, s, m, z)
        BY <3>2, <4>3, <4>4, <4>5
      <4> QED BY <4>1, <4>6
    <3>4. CASE T[z][m] # n
      <4>1. P[z][m] = T[z][m] /\ T[z][m] \in E \cup {Nil}
        BY <3>1, <3>4, <1>1, <1>4, Kids
      <4>2. Bh(bh2, T[z][m]) = Bh(bh, T[z][m]) /\ Bh(bh, T[z][m]) \in Nat
        BY <4>1, <1>1, <1>6, <1>8 DEF Bh
      <4>3. Gap(up, s, m, z) = 0
        BY <3>1, <3>4, <1>0, <1>1 DEF Gap, E
      <4> QED BY <3>1, <3>2, <4>1, <4>2, <4>3
    <3> QED BY <3>3, <3>4
  <2> QED BY <2>1 DEF Level
<1>10. HeightsShort(P, bh2, up, s)
  BY <1>8, <1>9 DEF HeightsShort, E
<1>11. ASSUME NEW m \in T.red PROVE m \in D /\ m # T.root /\ \A z \in Sides : T[z][m] \notin T.red
  BY <1>1, Kids DEF RedUnder
<1>12. ASSUME NEW m \in P.red PROVE m # c => m # P.root
  BY <1>5, <1>11
<1>13. ASSUME NEW m \in P.red, NEW z \in Sides, P[z][m] \in P.red PROVE P[z][m] = c /\ T[z][m] = n /\ n \notin T.red
  <2>1. m \in E /\ m \in T.red
    BY <1>1, <1>5, <1>11
  <2> QED BY <2>1, <1>4, <1>5, <1>11, <1>13
<1>14. RedBut(P, c)
  BY <1>12, <1>13 DEF RedBut
<1>15. n \in T.red => RedUnder(P, Nil)
  <2>1. n \in T.red => c \notin T.red /\ n # T.root
    BY <1>2, <1>11, SidesAre
  <2> QED BY <2>1, <1>5, <1>11, <1>12, <1>13 DEF RedUnder
<1> QED BY <1>10, <1>14, <1>15 DEF E

\* Node n in the place of old.
Put(m, old, n) == IF m = old THEN n ELSE m

\* Q is P with n for old, which is new to it.
Renamed(P, old, n, Q) ==
  /\ Q \in TreesOn((Nodes(P) \ {old}) \cup {n}) /\ Q.root = Put(P.root, old, n)
  /\ \A m \in Nodes(P) : Put(m, old, n) \in Q.red <=> m \in P.red
  /\ \A m \in Nodes(P) : Q.parent[Put(m, old, n)] = Put(P.parent[m], old, n)
  /\ \A m \in Nodes(P), z \in Sides : Q[z][Put(m, old, n)] = Put(P[z][m], old, n)

\* n has the place of old in the order.
Beside(D, old, n) == \A a \in D \ {old}, z \in Sides : Toward(z, a, n) <=> Toward(z, a, old)

\* The subtrees after that.
RenamedSub(E, sub, old, n) ==
  [m \in (E \ {old}) \cup {n} |-> {Put(a, old, n) : a \in sub[Put(m, n, old)]}]

\* Putting n for old is undone by putting old for n.
LEMMA PutIs ==
  ASSUME NEW D, NEW old \in D, NEW n, n \notin D, Nil \notin D, n # Nil
  PROVE  /\ \A m \in D : Put(m, old, n) \in (D \ {old}) \cup {n} /\ Put(Put(m, old, n), n, old) = m
         /\ \A m \in (D \ {old}) \cup {n} : Put(m, n, old) \in D /\ Put(Put(m, n, old), old, n) = m
         /\ Put(Nil, old, n) = Nil
         /\ \A m \in D \cup {Nil} : Put(m, old, n) = Nil <=> m = Nil
         /\ \A m, k \in D \cup {Nil} : Put(m, old, n) = Put(k, old, n) <=> m = k
  BY DEF Put

\* A search tree stays one when a node gives its place to its neighbour in the order.
LEMMA RenamedShape ==
  ASSUME NEW P, NEW sub, Shape(P, sub), NEW old \in Nodes(P), NEW n, n \notin Nodes(P), n # Nil,
         OrderOn(Nodes(P) \cup {n}), Beside(Nodes(P), old, n), NEW Q, Renamed(P, old, n, Q)
  PROVE  Shape(Q, RenamedSub(Nodes(P), sub, old, n)) /\ Nodes(Q) = (Nodes(P) \ {old}) \cup {n}
<1> DEFINE D == Nodes(P)
           E == (D \ {old}) \cup {n}
           sub2 == RenamedSub(D, sub, old, n)
           r(m) == Put(m, old, n)
           b(m) == Put(m, n, old)
<1>1. P \in TreesOn(D) /\ Nil \notin D /\ OrderOn(D) /\ Linked(P) /\ Branches(P, sub)
  BY DEF Shape
<1>2. /\ \A m \in D : r(m) \in E /\ b(r(m)) = m
      /\ \A m \in E : b(m) \in D /\ r(b(m)) = m
      /\ r(Nil) = Nil
      /\ \A m \in D \cup {Nil} : r(m) = Nil <=> m = Nil
      /\ \A m, k \in D \cup {Nil} : r(m) = r(k) <=> m = k
  BY <1>1, PutIs
<1>3. /\ Q \in TreesOn(E) /\ Q.root = r(P.root)
      /\ \A m \in D : Q.parent[r(m)] = r(P.parent[m])
      /\ \A m \in D, z \in Sides : Q[z][r(m)] = r(P[z][m])
  BY DEF Renamed
<1>4. Nodes(Q) = E
  BY <1>3, Fields
<1>5. /\ P.root \in D \cup {Nil}
      /\ \A m \in D : P.parent[m] \in D \cup {Nil}
      /\ \A m \in D, z \in Sides : P[z][m] \in D \cup {Nil}
  BY <1>1, Fields
<1>6. /\ sub \in [D -> SUBSET D] /\ Sub(sub, P.root) = D
      /\ \A m \in D, s \in Sides : sub[m] = {m} \cup Sub(sub, P[s][m]) \cup Sub(sub, P[Opposite(s)][m])
      /\ \A m \in D, s \in Sides : \A k \in Sub(sub, P[s][m]) : Toward(s, k, m)
  BY <1>1 DEF Branches
<1>7. /\ P.root # Nil => P.parent[P.root] = Nil
      /\ \A m \in D : m = P.root \/ (P.parent[m] \in D /\ \E s \in Sides : P[s][P.parent[m]] = m)
      /\ \A m \in D, s \in Sides : P[s][m] = Nil \/ P.parent[P[s][m]] = m
  BY <1>1 DEF Linked
<1>8. ASSUME NEW a \in D, NEW m \in D, NEW z \in Sides, Toward(z, a, m) PROVE Toward(z, r(a), r(m))
  <2>1. a # m
    BY <1>8, <1>1, TowardOrder
  <2>2. CASE m = old
    BY <2>1, <2>2, <1>8 DEF Beside, Put
  <2>3. CASE a = old
    <3>1. Toward(Opposite(z), m, old) /\ Opposite(z) \in Sides
      BY <2>3, <1>8, SidesAre
    <3>2. Toward(Opposite(z), m, n)
      BY <3>1, <2>1, <2>3 DEF Beside
    <3>3. Toward(z, n, m)
      BY <3>2, SidesAre
    <3> QED BY <3>3, <2>1, <2>3 DEF Put
  <2>4. CASE a # old /\ m # old
    BY <2>4, <1>8 DEF Put
  <2> QED BY <2>2, <2>3, <2>4
<1>9. sub2 = [m \in E |-> {r(a) : a \in sub[b(m)]}]
  BY DEF RenamedSub
<1>10. OrderOn(E)
  BY DEF OrderOn
<1> HIDE DEF sub2, E, r, b, D
<1>11. Linked(Q)
  <2>1. Q.root # Nil => Q.parent[Q.root] = Nil
    BY <1>2, <1>3, <1>5, <1>7
  <2>2. ASSUME NEW m \in E PROVE m = Q.root \/ (Q.parent[m] \in E /\ \E s \in Sides : Q[s][Q.parent[m]] = m)
    <3>1. b(m) \in D /\ r(b(m)) = m
      BY <1>2
    <3>2. CASE b(m) = P.root
      BY <3>1, <3>2, <1>3
    <3>3. CASE b(m) # P.root
      <4>1. P.parent[b(m)] \in D /\ \E s \in Sides : P[s][P.parent[b(m)]] = b(m)
        BY <3>1, <3>3, <1>7
      <4>2. Q.parent[m] = r(P.parent[b(m)])
        BY <3>1, <1>3
      <4> QED BY <3>1, <4>1, <4>2, <1>2, <1>3
    <3> QED BY <3>2, <3>3
  <2>3. ASSUME NEW m \in E, NEW s \in Sides, Q[s][m] # Nil PROVE Q.parent[Q[s][m]] = m
    <3>1. b(m) \in D /\ r(b(m)) = m
      BY <1>2
    <3>2. Q[s][m] = r(P[s][b(m)])
      BY <3>1, <1>3
    <3>3. P[s][b(m)] \in D /\ P.parent[P[s][b(m)]] = b(m)
      BY <2>3, <3>1, <3>2, <1>2, <1>5, <1>7
    <3> QED BY <3>1, <3>2, <3>3, <1>3
  <2> QED BY <2>1, <2>2, <2>3, <1>4 DEF Linked
<1>12. ASSUME NEW x \in D \cup {Nil} PROVE Sub(sub2, r(x)) = {r(a) : a \in Sub(sub, x)}
  <2>1. CASE x = Nil
    BY <2>1, <1>2 DEF Sub
  <2>2. CASE x # Nil
    <3>1. x \in D /\ r(x) \in E /\ b(r(x)) = x /\ r(x) # Nil
      BY <2>2, <1>2
    <3> QED BY <3>1, <2>2, <1>9 DEF Sub
  <2> QED BY <2>1, <2>2
<1>13. Branches(Q, sub2)
  <2>1. sub2 \in [E -> SUBSET E]
    <3>1. ASSUME NEW m \in E PROVE {r(a) : a \in sub[b(m)]} \in SUBSET E
      BY <1>2, <1>6
    <3> QED BY <3>1, <1>9
  <2>2. Sub(sub2, Q.root) = E
    <3>1. Sub(sub2, Q.root) = {r(a) : a \in D}
      BY <1>3, <1>5, <1>6, <1>12
    <3> QED BY <3>1, <1>2
  <2>3. ASSUME NEW m \in E, NEW s \in Sides
        PROVE  /\ sub2[m] = {m} \cup Sub(sub2, Q[s][m]) \cup Sub(sub2, Q[Opposite(s)][m])
               /\ \A k \in Sub(sub2, Q[s][m]) : Toward(s, k, m)
    <3>1. b(m) \in D /\ r(b(m)) = m /\ Opposite(s) \in Sides
      BY <1>2, SidesAre
    <3>2. /\ Q[s][m] = r(P[s][b(m)]) /\ P[s][b(m)] \in D \cup {Nil}
          /\ Q[Opposite(s)][m] = r(P[Opposite(s)][b(m)]) /\ P[Opposite(s)][b(m)] \in D \cup {Nil}
      BY <3>1, <1>3, <1>5
    <3>3. /\ Sub(sub2, Q[s][m]) = {r(a) : a \in Sub(sub, P[s][b(m)])}
          /\ Sub(sub2, Q[Opposite(s)][m]) = {r(a) : a \in Sub(sub, P[Opposite(s)][b(m)])}
      BY <3>2, <1>12
    <3>4. sub[b(m)] = {b(m)} \cup Sub(sub, P[s][b(m)]) \cup Sub(sub, P[Opposite(s)][b(m)])
      BY <3>1, <1>6
    <3>5. sub2[m] = {r(a) : a \in sub[b(m)]}
      BY <1>9
    <3>6. sub2[m] = {m} \cup Sub(sub2, Q[s][m]) \cup Sub(sub2, Q[Opposite(s)][m])
      BY <3>1, <3>3, <3>4, <3>5
    <3>7. ASSUME NEW k \in Sub(sub2, Q[s][m]) PROVE Toward(s, k, m)
      <4>1. PICK a \in Sub(sub, P[s][b(m)]) : k = r(a)
        BY <3>3
      <4>2. a \in D /\ Toward(s, a, b(m))
        BY <3>1, <3>4, <1>6
      <4> QED BY <4>1, <4>2, <3>1, <1>8
    <3> QED BY <3>6, <3>7
  <2> QED BY <2>1, <2>2, <2>3, <1>4 DEF Branches
<1>14. Nil \notin E
  BY <1>1 DEF E
<1> QED BY <1>3, <1>4, <1>10, <1>11, <1>13, <1>14 DEF Shape, sub2, E, D

\* The colors and the heights go with the place.
LEMMA RenamedHeights ==
  ASSUME NEW P, NEW sub, Shape(P, sub), NEW old \in Nodes(P), NEW n, n \notin Nodes(P), n # Nil,
         NEW Q, Renamed(P, old, n, Q), Nodes(Q) = (Nodes(P) \ {old}) \cup {n},
         NEW up \in Nodes(P) \cup {Nil}, NEW s \in Sides, NEW c \in Nodes(P) \cup {Nil}
  PROVE  /\ \A bh : HeightsShort(P, bh, up, s) => \E bh2 : HeightsShort(Q, bh2, Put(up, old, n), s)
         /\ RedBut(P, c) => RedBut(Q, Put(c, old, n))
         /\ RedUnder(P, Nil) => RedUnder(Q, Nil)
         /\ Placed(P, up, s, c) => Placed(Q, Put(up, old, n), s, Put(c, old, n))
<1> DEFINE D == Nodes(P)
           E == Nodes(Q)
           r(m) == Put(m, old, n)
           b(m) == Put(m, n, old)
<1>1. P \in TreesOn(D) /\ Nil \notin D /\ P.red \subseteq D /\ P.root \in D \cup {Nil} /\ \A m \in D, z \in Sides : P[z][m] \in D \cup {Nil}
  BY Kids, Fields
<1>2. /\ \A m \in D : r(m) \in E /\ b(r(m)) = m
      /\ \A m \in E : b(m) \in D /\ r(b(m)) = m
      /\ r(Nil) = Nil
      /\ \A m \in D \cup {Nil} : r(m) = Nil <=> m = Nil
      /\ \A m, k \in D \cup {Nil} : r(m) = r(k) <=> m = k
  BY <1>1, PutIs
<1>3. /\ Q \in TreesOn(E) /\ Q.root = r(P.root)
      /\ \A m \in D : r(m) \in Q.red <=> m \in P.red
      /\ \A m \in D, z \in Sides : Q[z][r(m)] = r(P[z][m])
  BY DEF Renamed
<1>4. Q.red \subseteq E /\ Nil \notin E
  BY <1>1, <1>3, Fields
<1> HIDE DEF r, b, D, E
<1>5. ASSUME NEW m \in E
      PROVE  /\ b(m) \in D /\ r(b(m)) = m /\ (m \in Q.red <=> b(m) \in P.red)
             /\ \A z \in Sides : Q[z][m] = r(P[z][b(m)]) /\ P[z][b(m)] \in D \cup {Nil}
  BY <1>1, <1>2, <1>3
<1>6. ASSUME NEW k \in D \cup {Nil} PROVE r(k) \in Q.red <=> k \in P.red
  BY <1>1, <1>2, <1>3, <1>4
<1>7. ASSUME NEW bh, HeightsShort(P, bh, up, s)
      PROVE  \E h : HeightsShort(Q, h, r(up), s)
  <2> DEFINE bh2 == [m \in E |-> bh[b(m)]]
  <2>1. bh \in [D -> Nat] /\ \A m \in D : Level(P, bh, up, s, m)
    BY <1>7 DEF HeightsShort, D
  <2>2. bh2 \in [E -> Nat] /\ \A m \in E : bh2[m] = bh[b(m)]
    BY <2>1, <1>2
  <2> HIDE DEF bh2
  <2>3. ASSUME NEW m \in E, NEW z \in Sides PROVE bh2[m] = Bh(bh2, Q[z][m]) + Weight(Q, m) + Gap(r(up), s, m, z)
    <3>1. bh[b(m)] = Bh(bh, P[z][b(m)]) + Weight(P, b(m)) + Gap(up, s, b(m), z)
      BY <2>1, <1>5 DEF Level
    <3>2. Weight(Q, m) = Weight(P, b(m))
      BY <1>5 DEF Weight
    <3>3. Gap(r(up), s, m, z) = Gap(up, s, b(m), z)
      <4>1. r(up) = m <=> up = b(m)
        BY <1>2, <1>5 DEF D
      <4> QED BY <4>1 DEF Gap
    <3>4. Bh(bh2, Q[z][m]) = Bh(bh, P[z][b(m)])
      <4>1. Q[z][m] = r(P[z][b(m)]) /\ P[z][b(m)] \in D \cup {Nil}
        BY <1>5
      <4>2. CASE P[z][b(m)] = Nil
        BY <4>1, <4>2, <1>2 DEF Bh
      <4>3. CASE P[z][b(m)] \in D
        <5>1. Q[z][m] \in E /\ Q[z][m] # Nil /\ b(Q[z][m]) = P[z][b(m)] /\ P[z][b(m)] # Nil
          BY <4>1, <4>3, <1>1, <1>2
        <5> QED BY <5>1, <2>2 DEF Bh
      <4> QED BY <4>1, <4>2, <4>3
    <3>5. bh2[m] = bh[b(m)]
      BY <2>2
    <3> QED BY <3>1, <3>2, <3>3, <3>4, <3>5
  <2>4. \A m \in E : Level(Q, bh2, r(up), s, m)
    BY <2>3 DEF Level
  <2> QED BY <2>2, <2>4 DEF HeightsShort, E
<1>8. ASSUME RedBut(P, c) PROVE RedBut(Q, r(c))
  <2>1. ASSUME NEW m \in Q.red \ {r(c)} PROVE m # Q.root /\ \A z \in Sides : Q[z][m] \in Q.red => Q[z][m] = r(c)
    <3>1. m \in E /\ b(m) \in P.red \ {c}
      <4>1. m \in E
        BY <1>4
      <4> QED BY <4>1, <1>5
    <3>2. b(m) # P.root /\ \A z \in Sides : P[z][b(m)] \in P.red => P[z][b(m)] = c
      BY <3>1, <1>8 DEF RedBut
    <3>3. m # Q.root
      BY <3>1, <3>2, <1>1, <1>2, <1>3
    <3>4. ASSUME NEW z \in Sides, Q[z][m] \in Q.red PROVE Q[z][m] = r(c)
      <4>1. Q[z][m] = r(P[z][b(m)]) /\ P[z][b(m)] \in D \cup {Nil}
        BY <3>1, <1>5
      <4> QED BY <4>1, <3>2, <3>4, <1>6
    <3> QED BY <3>3, <3>4
  <2> QED BY <2>1 DEF RedBut
<1>9. ASSUME RedUnder(P, Nil) PROVE RedUnder(Q, Nil)
  <2>1. ASSUME NEW m \in Q.red PROVE m # Q.root /\ \A z \in Sides : Q[z][m] \notin Q.red
    <3>1. m \in E /\ b(m) \in P.red
      BY <1>4, <1>5
    <3>2. b(m) # P.root /\ \A z \in Sides : P[z][b(m)] \notin P.red
      BY <3>1, <1>9, <1>1 DEF RedUnder
    <3>3. m # Q.root
      BY <3>1, <3>2, <1>1, <1>2, <1>3
    <3>4. ASSUME NEW z \in Sides PROVE Q[z][m] \notin Q.red
      <4>1. Q[z][m] = r(P[z][b(m)]) /\ P[z][b(m)] \in D \cup {Nil}
        BY <3>1, <1>5
      <4> QED BY <4>1, <3>2, <1>6
    <3> QED BY <3>3, <3>4
  <2> QED BY <2>1 DEF RedUnder
<1>10. ASSUME Placed(P, up, s, c) PROVE Placed(Q, r(up), s, r(c))
  <2>1. CASE up = Nil /\ c = P.root
    BY <2>1, <1>2, <1>3 DEF Placed
  <2>2. CASE up \in D /\ P[s][up] = c
    BY <2>2, <1>2, <1>3 DEF Placed, E
  <2> QED BY <2>1, <2>2, <1>10 DEF Placed, D
<1> QED BY <1>7, <1>8, <1>9, <1>10 DEF r, b, E

\* S is T with the child c of n in the place of n, which still points into the tree.
Spliced(D, T, n, c, S) ==
  /\ S \in TreesOn(D) /\ S.red = T.red /\ S.root = IF n = T.root THEN c ELSE T.root
  /\ \A m \in D, z \in Sides : S[z][m] = IF T[z][m] = n THEN c ELSE T[z][m]
  /\ \A m \in D : S.parent[m] = IF m = c THEN T.parent[n] ELSE T.parent[m]

\* No pointer of S leads to n.
Loose(D, S, n) ==
  S.root # n /\ \A m \in D \ {n} : S.parent[m] # n /\ \A z \in Sides : S[z][m] # n

\* F is S without n.
Forgotten(D, S, n, F) ==
  /\ F \in TreesOn(D \ {n}) /\ F.root = S.root /\ F.red = S.red \ {n}
  /\ \A m \in D \ {n} : F.parent[m] = S.parent[m] /\ \A z \in Sides : F[z][m] = S[z][m]

\* Forget does this to a node that no pointer leads to.
LEMMA ForgetIs ==
  ASSUME NEW D, NEW S \in TreesOn(D), NEW n, Loose(D, S, n), n # Nil
  PROVE  Forgotten(D, S, n, Forget(S, n))
<1> DEFINE F == Forget(S, n)
           E == D \ {n}
           V == E \cup {Nil}
           l == Restrict(S.left, Nodes(S) \ {n})
           r == Restrict(S.right, Nodes(S) \ {n})
           p == Restrict(S.parent, Nodes(S) \ {n})
           red == S.red \ {n}
           G == [S EXCEPT !.left = l, !.right = r, !.parent = p, !.red = red]
<1>1. Nodes(S) = D /\ S.root \in V /\ red \in SUBSET E
  BY Fields DEF Loose
<1>2. l = [m \in E |-> S["left"][m]] /\ r = [m \in E |-> S["right"][m]] /\ p = [m \in E |-> S.parent[m]]
  <2>1. E = Nodes(S) \ {n}
    BY <1>1
  <2>2. E \subseteq DOMAIN S.left /\ E \subseteq DOMAIN S.right /\ E \subseteq DOMAIN S.parent
    BY DEF TreesOn
  <2> HIDE DEF E
  <2> QED BY <2>1, <2>2 DEF Restrict
<1>3. l \in [E -> V] /\ r \in [E -> V] /\ p \in [E -> V]
  <2>1. ASSUME NEW m \in E
        PROVE  S["left"][m] \in V /\ S["right"][m] \in V /\ S.parent[m] \in V
    BY Fields DEF Loose, Sides
  <2> HIDE DEF V, E, l, r, p
  <2> QED BY <2>1, <1>2
<1>6. F = G
  BY DEF Forget
<1> HIDE DEF l, r, p, red
<1>4. G \in TreesOn(E) /\ G.root = S.root /\ G.left = l /\ G.right = r /\ G.parent = p /\ G.red = red
  BY <1>1, <1>3 DEF TreesOn
<1> HIDE DEF F, G
<1>5. ASSUME NEW m \in E PROVE F.parent[m] = S.parent[m] /\ \A z \in Sides : F[z][m] = S[z][m]
  BY <1>2, <1>4, <1>6 DEF Sides
<1> QED BY <1>4, <1>5, <1>6 DEF Forgotten, F, red

\* A node other than the root hangs under its parent.
LEMMA HangsIs ==
  ASSUME NEW T, NEW sub, Shape(T, sub), NEW n \in Nodes(T), n # T.root
  PROVE  T.parent[n] \in Nodes(T) /\ Hangs(T, T.parent[n], n)
<1>1. T.parent[n] \in Nodes(T)
  BY Kin
<1>2. PICK z \in Sides : T[z][T.parent[n]] = n
  BY Kin
<1>3. n # Nil
  BY Kids
<1>4. T[Opposite(z)][T.parent[n]] # n
  BY <1>1, <1>2, <1>3, Kids
<1> QED BY <1>1, <1>2, <1>4 DEF Hangs

\* Splice does this, and no pointer leads to n afterwards.
LEMMA SpliceIs ==
  ASSUME NEW T, NEW sub, Shape(T, sub), NEW n \in Nodes(T), NEW c, OnlyChild(T, n, c)
  PROVE  /\ c = IF T.left[n] = Nil THEN T.right[n] ELSE T.left[n]
         /\ Spliced(Nodes(T), T, n, c, Splice(T, n))
         /\ Loose(Nodes(T), Splice(T, n), n)
<1> DEFINE D == Nodes(T)
           up == T.parent[n]
           A == SetParent(T, c, up)
           S == Splice(T, n)
<1>1. T \in TreesOn(D) /\ Nil \notin D /\ up \in D \cup {Nil} /\ (up = Nil <=> n = T.root)
  BY Kids, Kin
<1>2. c = IF T.left[n] = Nil THEN T.right[n] ELSE T.left[n]
  BY DEF OnlyChild, Sides, Opposite
<1>3. PICK q \in Sides : T[q][n] = Nil /\ T[Opposite(q)][n] = c
  BY DEF OnlyChild
<1>4. c \in D \cup {Nil} /\ c # n /\ (c # Nil => T.parent[c] = n /\ c # T.root)
  BY <1>1, <1>3, Kids, SidesAre
<1>5. S = Replace(A, up, n, c)
  BY <1>2 DEF Splice
<1> HIDE DEF D, A, S
<1>6. ParentSet(D, T, c, up, A)
  BY <1>1, <1>4, SetParentIs DEF A
<1>7. up # Nil => Hangs(A, up, n)
  <2>1. up # Nil => up \in D /\ Hangs(T, up, n)
    BY <1>1, HangsIs DEF D
  <2>2. \A z \in Sides : A[z] = T[z]
    BY <1>6 DEF ParentSet
  <2> QED BY <2>1, <2>2, SidesAre DEF Hangs
<1>8. Replaced(D, A, up, n, c, S)
  <2>1. A \in TreesOn(D) /\ n \in D
    BY <1>6 DEF ParentSet, D
  <2> QED BY <2>1, <1>1, <1>4, <1>5, <1>7, ReplaceIs
<1>9. Spliced(D, T, n, c, S)
  <2>1. ASSUME NEW m \in D, NEW z \in Sides PROVE S[z][m] = IF T[z][m] = n THEN c ELSE T[z][m]
    <3>1. T[z][m] = n => m = up
      BY <1>1, Kids DEF D
    <3> QED BY <3>1, <1>6, <1>8 DEF ParentSet, Replaced
  <2>2. \A m \in D : S.parent[m] = IF m = c THEN up ELSE T.parent[m]
    BY <1>6, <1>8 DEF ParentSet, Replaced
  <2>3. S \in TreesOn(D) /\ S.red = T.red /\ S.root = IF n = T.root THEN c ELSE T.root
    BY <1>1, <1>6, <1>8 DEF ParentSet, Replaced
  <2> QED BY <2>1, <2>2, <2>3 DEF Spliced
<1>10. Loose(D, S, n)
  <2>1. S.root # n
    BY <1>4, <1>9 DEF Spliced
  <2>2. ASSUME NEW m \in D \ {n} PROVE S.parent[m] # n /\ \A z \in Sides : S[z][m] # n
    <3>1. up # n
      BY Kin
    <3>2. T.parent[m] = n => m = c
      <4>1. SUFFICES ASSUME T.parent[m] = n PROVE m = c
        OBVIOUS
      <4>2. m # T.root
        BY <4>1, <1>1, Kin DEF D
      <4>3. PICK z \in Sides : T[z][n] = m
        BY <4>1, <4>2, Kin DEF D
      <4>4. m # Nil
        BY <1>1
      <4> QED BY <4>3, <4>4, <1>3, SidesAre
    <3> QED BY <3>1, <3>2, <1>4, <1>9 DEF Spliced
  <2> QED BY <2>1, <2>2 DEF Loose
<1> QED BY <1>2, <1>9, <1>10 DEF S, D

\* A node with at most one child is taken out of the tree.
LEMMA TakenIs ==
  ASSUME NEW T, NEW sub, Shape(T, sub), NEW n \in Nodes(T), NEW c, OnlyChild(T, n, c)
  PROVE  Unhung(T, n, c, Forget(Splice(T, n), n))
<1> DEFINE S == Splice(T, n)
           D == Nodes(T)
<1>1. Spliced(D, T, n, c, S) /\ Loose(D, S, n) /\ n # Nil
  BY SpliceIs, Kids
<1> HIDE DEF S
<1>2. Forgotten(D, S, n, Forget(S, n))
  BY <1>1, ForgetIs DEF Spliced
<1>3. D \ {n} \subseteq D
  OBVIOUS
<1> HIDE DEF D
<1>4. Unhung(T, n, c, Forget(S, n))
  BY <1>1, <1>2, <1>3 DEF Forgotten, Spliced, Unhung, D
<1> QED BY <1>4 DEF S

\* Node n, taken out of its own place, has the fields of old; X is S with it hung there.
Transplanted(D, S, old, n, X) ==
  /\ X \in TreesOn(D) /\ X.root = IF S.parent[old] = Nil THEN n ELSE S.root
  /\ X.red = (S.red \ {n}) \cup (IF old \in S.red THEN {n} ELSE {})
  /\ \A m \in D, z \in Sides :
       X[z][m] = IF m = n THEN S[z][old] ELSE IF m = S.parent[old] /\ S[z][m] = old THEN n ELSE S[z][m]
  /\ \A m \in D : X.parent[m] = IF m = S.right[old] \/ m = S.left[old] THEN n
                                ELSE IF m = n THEN S.parent[old] ELSE S.parent[m]

\* Transplant does this.
LEMMA TransplantIs ==
  ASSUME NEW D, Nil \notin D, NEW S \in TreesOn(D), NEW old \in D, NEW n \in D, n # old,
         S.parent[old] # n, S.parent[old] # Nil => Hangs(S, S.parent[old], old)
  PROVE  Transplanted(D, S, old, n, Transplant(S, old, n))
<1> DEFINE up == S.parent[old]
           l == S.left[old]
           r == S.right[old]
           copied == [S EXCEPT !.left[n] = S.left[old], !.right[n] = S.right[old], !.parent[n] = S.parent[old]]
           colored == Paint(copied, {n}, IF old \in S.red THEN {n} ELSE {})
           hung == Replace(colored, up, old, n)
           lset == SetParent(hung, l, n)
           X == SetParent(lset, r, n)
<1>1. Transplant(S, old, n) = X
  BY DEF Transplant
<1>2. up \in D \cup {Nil} /\ l \in D \cup {Nil} /\ r \in D \cup {Nil}
  BY Fields DEF Sides
<1>3. /\ copied \in TreesOn(D) /\ copied.root = S.root /\ copied.red = S.red
      /\ copied.left = [S.left EXCEPT ![n] = l] /\ copied.right = [S.right EXCEPT ![n] = r]
      /\ copied.parent = [S.parent EXCEPT ![n] = up]
  BY <1>2 DEF TreesOn
<1> HIDE DEF copied
<1>4. /\ colored \in TreesOn(D) /\ colored.root = S.root
      /\ colored.red = (S.red \ {n}) \cup (IF old \in S.red THEN {n} ELSE {})
      /\ colored.left = copied.left /\ colored.right = copied.right /\ colored.parent = copied.parent
  BY <1>3 DEF Paint, TreesOn
<1> HIDE DEF colored
<1>5. /\ \A m \in D, z \in Sides : colored[z][m] = IF m = n THEN S[z][old] ELSE S[z][m]
      /\ \A m \in D : colored.parent[m] = IF m = n THEN up ELSE S.parent[m]
  <2>1. S.left \in [D -> D \cup {Nil}] /\ S.right \in [D -> D \cup {Nil}] /\ S.parent \in [D -> D \cup {Nil}]
    BY DEF TreesOn
  <2> QED BY <2>1, <1>3, <1>4 DEF Sides
<1>6. up # Nil => Hangs(colored, up, old)
  <2>1. ASSUME up # Nil, NEW z \in Sides PROVE colored[z][up] = S[z][up]
    BY <2>1, <1>2, <1>5
  <2> QED BY <2>1, SidesAre DEF Hangs
<1>7. Replaced(D, colored, up, old, n, hung)
  BY <1>2, <1>4, <1>6, ReplaceIs
<1> HIDE DEF hung
<1>8. hung \in TreesOn(D)
  BY <1>7 DEF Replaced
<1>9. ParentSet(D, hung, l, n, lset)
  BY <1>2, <1>8, SetParentIs
<1> HIDE DEF lset
<1>10. ParentSet(D, lset, r, n, X)
  <2>1. lset \in TreesOn(D)
    BY <1>9 DEF ParentSet
  <2> QED BY <2>1, <1>2, SetParentIs
<1> HIDE DEF X, up, l, r
<1>11. X \in TreesOn(D) /\ X.root = (IF up = Nil THEN n ELSE S.root) /\ X.red = colored.red
  BY <1>4, <1>7, <1>9, <1>10 DEF ParentSet, Replaced
<1>12. ASSUME NEW m \in D, NEW z \in Sides
       PROVE  X[z][m] = IF m = n THEN S[z][old] ELSE IF m = up /\ S[z][m] = old THEN n ELSE S[z][m]
  <2>1. X[z][m] = IF m = up /\ colored[z][m] = old THEN n ELSE colored[z][m]
    BY <1>7, <1>9, <1>10 DEF ParentSet, Replaced
  <2>2. n # up
    BY DEF up
  <2> QED BY <2>1, <2>2, <1>5
<1>13. ASSUME NEW m \in D
       PROVE  X.parent[m] = IF m = r \/ m = l THEN n ELSE IF m = n THEN up ELSE S.parent[m]
  BY <1>5, <1>7, <1>9, <1>10 DEF ParentSet, Replaced
<1> QED BY <1>1, <1>4, <1>11, <1>12, <1>13 DEF Transplanted, up, l, r

\* RB_REMOVE of a node with two children is the removal of n, its successor, with n
\* afterwards in the place of the node.
LEMMA TransplantedIs ==
  ASSUME NEW T, NEW sub, Shape(T, sub), IsFiniteSet(Nodes(T)), NEW old \in Nodes(T), NEW n \in Nodes(T), T.left[old] # Nil,
         n \in Sub(sub, T.right[old]), NEW c,
         T.left[n] = Nil, T.right[n] = c, NEW P, P = Forget(Splice(T, n), n), Nodes(P) = Nodes(T) \ {n}
  PROVE  Renamed(P, old, n, Forget(Transplant(Splice(T, n), old, n), old))
<1> DEFINE D == Nodes(T)
           S == Splice(T, n)
           X == Transplant(S, old, n)
           Q == Forget(X, old)
           up == T.parent[old]
           l == T.left[old]
           r == T.right[old]
<1>1. "left" \in Sides /\ "right" \in Sides /\ Opposite("left") = "right" /\ \A z \in Sides : z = "left" \/ z = "right"
  BY DEF Sides, Opposite
<1>2. T \in TreesOn(D) /\ Nil \notin D /\ T.root \in D \cup {Nil}
  BY Kids, Fields
<1>3. ASSUME NEW m \in D, NEW z \in Sides
      PROVE  /\ T[z][m] \in D \cup {Nil} /\ T[z][m] # m
             /\ T[z][m] # Nil => T.parent[T[z][m]] = m /\ T[z][m] # T.root
  BY Kids
<1>4. OnlyChild(T, n, c)
  BY <1>1 DEF OnlyChild
<1>5. Spliced(D, T, n, c, S) /\ Loose(D, S, n) /\ Unhung(T, n, c, P)
  BY <1>4, SpliceIs, TakenIs
<1>6. r \in D /\ r # Nil /\ n \in sub[r] /\ sub[r] = Sub(sub, r)
  BY <1>1, <1>3 DEF Sub
<1>7. n # old /\ old \notin sub[r] /\ n # T.root /\ n # l /\ (T.parent[n] = old => n = r)
  <2>1. old \notin sub[r] /\ Sub(sub, l) \cap sub[r] = {}
    BY <1>1, <1>6, Kin
  <2>2. l # Nil => l \in Sub(sub, l)
    BY <1>1, Kin
  <2>3. n # old /\ n # l
    BY <1>2, <1>6, <2>1, <2>2
  <2>4. n # r => T.parent[n] \in sub[r]
    BY <1>6, Within
  <2>5. n # T.root
    <3>1. r # T.root
      BY <1>1, <1>3, <1>6
    <3>2. n # r => T.parent[n] \in D
      <4>1. sub[r] \subseteq D
        BY <1>6, Kin
      <4> QED BY <4>1, <2>4
    <3> QED BY <3>1, <3>2, Kin
  <2> QED BY <2>1, <2>3, <2>4, <2>5
<1>8. c \in D \cup {Nil} /\ c # n /\ (c # Nil => T.parent[c] = n) /\ c # old /\ c # l /\ c # r
  <2>1. c \in D \cup {Nil} /\ c # n /\ (c # Nil => T.parent[c] = n)
    BY <1>1, <1>3
  <2>2. T.parent[r] = old /\ (l # Nil => T.parent[l] = old)
    BY <1>1, <1>3, <1>6
  <2>3. c # r /\ (l # Nil => c # l)
    BY <2>1, <2>2, <1>6, <1>7
  <2>4. c # Nil => c \in sub[r]
    <3>1. c # Nil => c \in sub[n]
      <4>1. c # Nil => c \in Sub(sub, T.right[n]) /\ Sub(sub, T.right[n]) \subseteq sub[n]
        BY <1>1, Kin
      <4> QED BY <4>1
    <3>2. sub[n] \subseteq sub[r]
      BY <1>6, Within
    <3> QED BY <3>1, <3>2
  <2>5. c # old
    BY <2>4, <1>2, <1>7
  <2> QED BY <2>1, <2>3, <2>5
<1>9. up \in D \cup {Nil} /\ up # old /\ up # n /\ (up = Nil <=> old = T.root) /\ (up # Nil => Hangs(T, up, old))
  <2>1. up \in D \cup {Nil} /\ up # old /\ (up = Nil <=> old = T.root) /\ (up # Nil => Hangs(T, up, old))
    BY Kin, HangsIs
  <2>2. up # n
    <3>1. up = n => \E z \in Sides : T[z][n] = old
      BY <2>1, <1>2, Kin
    <3> QED BY <3>1, <1>1, <1>2, <1>8
  <2> QED BY <2>1, <2>2
<1>10. \A m \in D, z \in Sides : T[z][m] = old => m = up
  BY <1>2, <1>3
<1>11. \A m \in D : T.parent[m] = old => m = l \/ m = r
  <2>1. ASSUME NEW m \in D, T.parent[m] = old PROVE m = l \/ m = r
    <3>1. m # T.root
      BY <2>1, <1>2, Kin
    <3>2. PICK z \in Sides : T[z][old] = m
      BY <2>1, <3>1, Kin
    <3> QED BY <3>2, <1>1
  <2> QED BY <2>1
<1> HIDE DEF D, S, X, Q, up, l, r
<1>12. /\ S \in TreesOn(D) /\ S.red = T.red /\ S.root = T.root
       /\ \A m \in D, z \in Sides : S[z][m] = IF T[z][m] = n THEN c ELSE T[z][m]
       /\ \A m \in D : S.parent[m] = IF m = c THEN T.parent[n] ELSE T.parent[m]
  BY <1>5, <1>7 DEF Spliced
<1>13. /\ S.parent[old] = up /\ S.left[old] = l /\ S.right[old] = IF r = n THEN c ELSE r
  BY <1>1, <1>7, <1>8, <1>12 DEF up, l, r, D
<1>14. up # Nil => Hangs(S, up, old)
  <2>1. SUFFICES ASSUME up # Nil PROVE Hangs(S, up, old)
    OBVIOUS
  <2>2. PICK z \in Sides : T[z][up] = old /\ T[Opposite(z)][up] # old
    BY <2>1, <1>9 DEF Hangs
  <2>3. S[z][up] = old /\ S[Opposite(z)][up] # old
    BY <2>1, <2>2, <1>7, <1>8, <1>9, <1>12, SidesAre
  <2> QED BY <2>3 DEF Hangs
<1>15. Transplanted(D, S, old, n, X)
  <2>1. old \in D /\ n \in D
    BY DEF D
  <2> QED BY <2>1, <1>2, <1>7, <1>9, <1>12, <1>13, <1>14, TransplantIs DEF X
<1>16. /\ X \in TreesOn(D) /\ X.root = IF up = Nil THEN n ELSE T.root
       /\ X.red = (T.red \ {n}) \cup (IF old \in T.red THEN {n} ELSE {})
  BY <1>12, <1>13, <1>15 DEF Transplanted
<1>17. ASSUME NEW m \in D, NEW z \in Sides
       PROVE  X[z][m] = IF m = n THEN S[z][old] ELSE IF m = up /\ S[z][m] = old THEN n ELSE S[z][m]
  BY <1>13, <1>15 DEF Transplanted
<1>18. ASSUME NEW m \in D
       PROVE  X.parent[m] = IF m = S.right[old] \/ m = l THEN n ELSE IF m = n THEN up ELSE S.parent[m]
  BY <1>13, <1>15 DEF Transplanted
<1>19. ASSUME NEW m \in D, m # n PROVE S.parent[m] = old <=> m = S.right[old] \/ m = l
  <2>1. T.parent[r] = old /\ (l # Nil => T.parent[l] = old)
    BY <1>1, <1>3, <1>6 DEF l, r, D
  <2>2. CASE m = c
    <3>1. S.parent[m] = T.parent[n] /\ m # l
      BY <2>2, <1>8, <1>12
    <3>2. T.parent[n] = old <=> n = r
      BY <1>7, <2>1
    <3> QED BY <3>1, <3>2, <2>2, <1>8, <1>13
  <2>3. CASE m # c
    <3>1. S.parent[m] = T.parent[m]
      BY <2>3, <1>12
    <3>2. T.parent[m] = old <=> m = l \/ m = r
      BY <2>1, <1>2, <1>11
    <3>3. S.right[old] = m <=> m = r
      BY <1>13, <1>19, <2>3
    <3> QED BY <3>1, <3>2, <3>3
  <2> QED BY <2>2, <2>3
<1>20. ASSUME NEW m \in D, NEW z \in Sides, S[z][m] = old PROVE m = up
  BY <1>20, <1>8, <1>10, <1>12
<1>21. Loose(D, X, old)
  <2>1. X.root # old
    BY <1>7, <1>9, <1>16
  <2>2. ASSUME NEW m \in D \ {old}, NEW z \in Sides PROVE X.parent[m] # old /\ X[z][m] # old
    <3>1. S[z][old] # old
      BY <1>9, <1>20 DEF D
    <3> QED BY <2>2, <3>1, <1>7, <1>9, <1>17, <1>18, <1>19, <1>20
  <2> QED BY <2>1, <2>2, <1>1 DEF Loose
<1>22. Forgotten(D, X, old, Q)
  BY <1>2, <1>16, <1>21, ForgetIs DEF Q, D
<1>23. /\ Q \in TreesOn(D \ {old}) /\ Q.root = X.root /\ Q.red = X.red \ {old}
       /\ \A m \in D \ {old} : Q.parent[m] = X.parent[m] /\ \A z \in Sides : Q[z][m] = X[z][m]
  BY <1>22 DEF Forgotten
<1>24. /\ P.root = T.root /\ P.red = T.red \ {n}
       /\ \A m \in D \ {n} : P.parent[m] = S.parent[m] /\ \A z \in Sides : P[z][m] = S[z][m]
  BY <1>5, <1>7, <1>12 DEF Unhung, D
<1>25. ((D \ {n}) \ {old}) \cup {n} = D \ {old} /\ old \in D \ {n} /\ n \in D \ {old}
  BY <1>7 DEF D
<1>26. Q.root = Put(P.root, old, n)
  BY <1>9, <1>16, <1>23, <1>24 DEF Put
<1>27. ASSUME NEW m \in D \ {n}
       PROVE  /\ Put(m, old, n) \in Q.red <=> m \in P.red
              /\ Q.parent[Put(m, old, n)] = Put(P.parent[m], old, n)
              /\ \A z \in Sides : Q[z][Put(m, old, n)] = Put(P[z][m], old, n)
  <2>1. CASE m = old
    <3>1. Put(m, old, n) = n
      BY <2>1 DEF Put
    <3>2. n \in Q.red <=> old \in P.red
      BY <1>7, <1>16, <1>23, <1>24
    <3>3. Q.parent[n] = up /\ P.parent[old] = up /\ Put(up, old, n) = up
      BY <1>7, <1>8, <1>9, <1>13, <1>18, <1>23, <1>24, <1>25 DEF Put
    <3>4. ASSUME NEW z \in Sides PROVE Q[z][n] = Put(P[z][old], old, n)
      <4>1. S[z][old] # old
        BY <1>9, <1>20 DEF D
      <4> QED BY <4>1, <1>17, <1>23, <1>24, <1>25 DEF Put
    <3> QED BY <2>1, <3>1, <3>2, <3>3, <3>4
  <2>2. CASE m # old
    <3>1. Put(m, old, n) = m /\ m \in D \ {old} /\ m # n
      BY <2>2 DEF Put
    <3>2. m \in Q.red <=> m \in P.red
      BY <2>2, <1>16, <1>23, <1>24
    <3>3. Q.parent[m] = Put(P.parent[m], old, n)
      BY <3>1, <1>18, <1>19, <1>23, <1>24 DEF Put
    <3>4. ASSUME NEW z \in Sides PROVE Q[z][m] = Put(P[z][m], old, n)
      BY <3>1, <1>17, <1>20, <1>23, <1>24 DEF Put
    <3> QED BY <3>1, <3>2, <3>3, <3>4
  <2> QED BY <2>1, <2>2
<1> HIDE DEF D
<1>28. Nodes(P) = D \ {n}
  BY DEF D
<1>29. Renamed(P, old, n, Q)
  <2> HIDE DEF Put
  <2> QED BY <1>23, <1>25, <1>26, <1>27, <1>28 DEF Renamed
<1> QED BY <1>29 DEF Q, X, S

\* The successor of a node with a right subtree has its place in the order of the others.
LEMMA SuccessorBeside ==
  ASSUME NEW T, NEW sub, Shape(T, sub), IsFiniteSet(Nodes(T)), NEW old \in Nodes(T), NEW n \in Sub(sub, T.right[old]),
         \A a \in Sub(sub, T.right[old]) \ {n} : Less(n, a)
  PROVE  Beside(Nodes(T) \ {n}, old, n)
<1> DEFINE D == Nodes(T)
           r == T.right[old]
<1>1. "left" \in Sides /\ "right" \in Sides /\ Opposite("left") = "right"
  BY DEF Sides, Opposite
<1>2. OrderOn(D) /\ sub[old] = {old} \cup Sub(sub, T["left"][old]) \cup Sub(sub, T[Opposite("left")][old])
      /\ sub[old] \subseteq D
  BY <1>1, Kin DEF Shape, Branches
<1>3. n \in sub[old] /\ old \in sub[old]
  BY <1>1, <1>2
<1>4. \A a \in Sub(sub, r) : Less(old, a)
  BY <1>1 DEF Shape, Branches, Toward
<1>5. \A a \in Sub(sub, T.left[old]) : Less(a, old)
  BY <1>1 DEF Shape, Branches, Toward
<1>6. ASSUME NEW a \in D \ {n}, a # old PROVE (Less(a, n) /\ Less(a, old)) \/ (Less(n, a) /\ Less(old, a))
  <2>1. CASE a \in Sub(sub, r)
    BY <1>4, <1>6, <2>1
  <2>2. CASE a \in Sub(sub, T.left[old])
    BY <2>2, <1>2, <1>3, <1>4, <1>5 DEF OrderOn
  <2>3. CASE a \notin sub[old]
    <3>1. PICK z \in Sides : \A k \in sub[old] : Toward(z, a, k)
      BY <2>3, Apart
    <3> QED BY <3>1, <1>3 DEF Toward
  <2> QED BY <2>1, <2>2, <2>3, <1>1, <1>2, <1>6
<1>7. ASSUME NEW a \in (D \ {n}) \ {old}, NEW z \in Sides PROVE Toward(z, a, n) <=> Toward(z, a, old)
  BY <1>2, <1>3, <1>6 DEF Toward, OrderOn
<1> QED BY <1>7 DEF Beside

\* The removal of n with its one child, and the repair where n was black.
LEMMA UnhungGood ==
  ASSUME NEW T, NEW sub, Shape(T, sub), IsFiniteSet(Nodes(T)), NEW bh, Heights(T, bh), RedUnder(T, Nil),
         NEW n \in Nodes(T), NEW c, OnlyChild(T, n, c), NEW P, Unhung(T, n, c, P)
  PROVE  \E s \in Sides :
           /\ \E sub2 : Shape(P, sub2)
           /\ Nodes(P) = Nodes(T) \ {n}
           /\ c \in Nodes(P) \cup {Nil} /\ T.parent[n] \in Nodes(P) \cup {Nil}
           /\ Placed(P, T.parent[n], s, c) /\ RedBut(P, c)
           /\ \E bh2 : HeightsShort(P, bh2, IF n \in T.red THEN Nil ELSE T.parent[n], s)
           /\ n \in T.red => RedUnder(P, Nil)
<1> DEFINE up == IF n \in T.red THEN Nil ELSE T.parent[n]
<1>1. /\ \E sub2 : Shape(P, sub2)
      /\ Nodes(P) = Nodes(T) \ {n}
      /\ c \in Nodes(P) \cup {Nil} /\ T.parent[n] \in Nodes(P) \cup {Nil}
  BY UnhungShape
<1>2. PICK s \in Sides : Placed(P, T.parent[n], s, c) /\ HangsOn(T, Nodes(P), s, n)
  BY UnhungShape
<1>4. up = IF n \in T.red THEN Nil ELSE T.parent[n]
  OBVIOUS
<1> HIDE DEF up
<1>3. /\ \E bh2 : HeightsShort(P, bh2, up, s)
      /\ RedBut(P, c)
      /\ n \in T.red => RedUnder(P, Nil)
  BY <1>1, <1>2, <1>4, UnhungHeights
<1> QED BY <1>1, <1>2, <1>3 DEF up

\* What is left of the removal when the place of a node is closed: no repair where a red
\* node went, the repair where a black one went.
LEMMA Repaired ==
  ASSUME NEW Q, NEW sub, Shape(Q, sub), IsFiniteSet(Nodes(Q)), NEW up \in Nodes(Q) \cup {Nil}, NEW s \in Sides, NEW c,
         NEW bh, NEW n, NEW red, HeightsShort(Q, bh, IF n \in red THEN Nil ELSE up, s),
         Placed(Q, up, s, c), RedBut(Q, c), n \in red => RedUnder(Q, Nil), NEW R,
         R = IF n \in red THEN Q ELSE RemoveColor(Q, up, c)
  PROVE  Good(R) /\ Nodes(R) = Nodes(Q)
<1>1. CASE n \in red
  <2>1. Heights(Q, bh)
    BY <1>1, Kids, NotShort
  <2> QED BY <1>1, <2>1 DEF Good
<1>2. CASE n \notin red
  BY <1>2, RemoveColorIs
<1> QED BY <1>1, <1>2

\* RB_REMOVE takes old out of the tree, and the tree stays in order and balanced.
THEOREM RemoveIs ==
  ASSUME NEW T, Good(T), NEW old \in Nodes(T)
  PROVE  Good(Remove(T, old)) /\ Nodes(Remove(T, old)) = Nodes(T) \ {old}
<1> DEFINE D == Nodes(T)
           inner == T.left[old] # Nil /\ T.right[old] # Nil
           n == IF inner THEN Outermost(T, "left", T.right[old]) ELSE old
           c == IF T.left[n] = Nil THEN T.right[n] ELSE T.left[n]
           up == IF inner /\ T.parent[n] = old THEN n ELSE T.parent[n]
           P == Forget(Splice(T, n), n)
           Q == Forget(IF inner THEN Transplant(Splice(T, n), old, n) ELSE Splice(T, n), old)
           R == Remove(T, old)
<1>1. PICK sub, bh : Shape(T, sub) /\ Heights(T, bh) /\ RedUnder(T, Nil)
  BY DEF Good
<1>2. IsFiniteSet(D) /\ IsFiniteSet(D \ {old}) /\ Nil \notin D
  BY <1>1, Kids, FS_RemoveElement DEF Good
<1>3. R = IF n \in T.red THEN Q ELSE RemoveColor(Q, up, c)
  BY DEF Remove
<1>4. "left" \in Sides /\ "right" \in Sides /\ Opposite("left") = "right" /\ Opposite("right") = "left"
  BY DEF Sides, Opposite
<1>5. inner => /\ n \in D /\ n \in Sub(sub, T.right[old]) /\ T.left[n] = Nil
               /\ \A a \in Sub(sub, T.right[old]) \ {n} : Less(n, a)
  <2>1. SUFFICES ASSUME inner
                 PROVE  LET m == Outermost(T, "left", T.right[old]) IN
                        /\ m \in D /\ m \in Sub(sub, T.right[old]) /\ T.left[m] = Nil
                        /\ \A a \in Sub(sub, T.right[old]) \ {m} : Less(m, a)
    OBVIOUS
  <2>2. T.right[old] \in D /\ T.right[old] # Nil
    BY <2>1, <1>1, <1>4, Kids
  <2>3. Sub(sub, T.right[old]) = sub[T.right[old]]
    BY <2>2 DEF Sub
  <2> QED BY <2>2, <2>3, <1>1, <1>2, <1>4, OutermostIs DEF Toward
<1>6. n \in D /\ OnlyChild(T, n, c) /\ (~inner => n = old)
  <2>1. CASE inner
    BY <2>1, <1>4, <1>5 DEF OnlyChild
  <2>2. CASE ~inner
    BY <2>2, <1>4 DEF OnlyChild
  <2> QED BY <2>1, <2>2
<1> HIDE DEF n, c
<1>7. Unhung(T, n, c, P)
  BY <1>1, <1>6, TakenIs
<1> HIDE DEF P, Q
<1>8. PICK s \in Sides :
        /\ \E sub2 : Shape(P, sub2)
        /\ Nodes(P) = D \ {n}
        /\ c \in Nodes(P) \cup {Nil} /\ T.parent[n] \in Nodes(P) \cup {Nil}
        /\ Placed(P, T.parent[n], s, c) /\ RedBut(P, c)
        /\ \E bh2 : HeightsShort(P, bh2, IF n \in T.red THEN Nil ELSE T.parent[n], s)
        /\ n \in T.red => RedUnder(P, Nil)
  BY <1>1, <1>2, <1>6, <1>7, UnhungGood
<1>9. PICK subP, bhP :
        /\ Shape(P, subP) /\ Nodes(P) = D \ {n}
        /\ c \in Nodes(P) \cup {Nil} /\ T.parent[n] \in Nodes(P) \cup {Nil}
        /\ Placed(P, T.parent[n], s, c) /\ RedBut(P, c)
        /\ HeightsShort(P, bhP, IF n \in T.red THEN Nil ELSE T.parent[n], s)
        /\ n \in T.red => RedUnder(P, Nil)
  BY <1>8
<1>10. CASE ~inner
  <2>1. n = old /\ Q = P /\ up = T.parent[n]
    BY <1>6, <1>10 DEF P, Q
  <2> HIDE DEF up, R
  <2>3. /\ Shape(Q, subP) /\ Nodes(Q) = D \ {old} /\ IsFiniteSet(Nodes(Q)) /\ up \in Nodes(Q) \cup {Nil}
        /\ HeightsShort(Q, bhP, IF n \in T.red THEN Nil ELSE up, s) /\ Placed(Q, up, s, c) /\ RedBut(Q, c)
        /\ n \in T.red => RedUnder(Q, Nil)
    BY <2>1, <1>2, <1>9
  <2>2. Good(R) /\ Nodes(R) = Nodes(Q)
    BY <2>3, <1>3, Repaired, SMTT(40)
  <2> QED BY <2>1, <2>2, <1>9 DEF R
<1>11. CASE inner
  <2> DEFINE u == IF n \in T.red THEN Nil ELSE T.parent[n]
  <2>1. n \in Sub(sub, T.right[old]) /\ T.left[n] = Nil /\ T.left[old] # Nil /\ T.right[n] = c
    BY <1>5, <1>11 DEF c
  <2>2. Renamed(P, old, n, Q)
    <3>1. Renamed(P, old, n, Forget(Transplant(Splice(T, n), old, n), old))
      BY <2>1, <1>1, <1>2, <1>6, <1>9, TransplantedIs DEF P
    <3> QED BY <3>1, <1>11 DEF Q
  <2>3. Beside(Nodes(P), old, n)
    <3>1. \A a \in Sub(sub, T.right[old]) \ {n} : Less(n, a)
      BY <1>5, <1>11
    <3>2. Beside(D \ {n}, old, n)
      BY <3>1, <2>1, <1>1, <1>2, SuccessorBeside
    <3> QED BY <3>2, <1>9
  <2>4. n # Nil /\ n # old /\ old \in Nodes(P) /\ n \notin Nodes(P) /\ c # old
    <3>1. T.right[old] \in D /\ T.right[old] # Nil /\ n \in sub[T.right[old]] /\ sub[n] \subseteq sub[T.right[old]]
      BY <2>1, <1>1, <1>2, <1>4, Kids, Within DEF Sub
    <3>2. old \notin sub[T.right[old]]
      BY <3>1, <1>1, <1>4, Kin DEF Sub
    <3>3. c # Nil => c \in sub[n]
      <4>1. c # Nil => c \in Sub(sub, T.right[n]) /\ Sub(sub, T.right[n]) \subseteq sub[n]
        BY <2>1, <1>1, <1>4, <1>6, Kin
      <4> QED BY <4>1
    <3> QED BY <3>1, <3>2, <3>3, <1>2, <1>6, <1>9
  <2>5. OrderOn(Nodes(P) \cup {n})
    <3>1. Nodes(P) \cup {n} = D
      BY <1>6, <1>9
    <3> QED BY <3>1, <1>1 DEF Shape
  <2>6. Shape(Q, RenamedSub(Nodes(P), subP, old, n)) /\ Nodes(Q) = (Nodes(P) \ {old}) \cup {n}
    BY <2>2, <2>3, <2>4, <2>5, <1>9, RenamedShape
  <2>7. u \in Nodes(P) \cup {Nil} /\ T.parent[n] \in Nodes(P) \cup {Nil}
    BY <1>9
  <2> HIDE DEF u
  <2>8. /\ \E b : HeightsShort(Q, b, Put(u, old, n), s)
        /\ RedBut(Q, Put(c, old, n))
        /\ RedUnder(P, Nil) => RedUnder(Q, Nil)
    <3>1. HeightsShort(P, bhP, u, s)
      BY <1>9 DEF u
    <3> QED BY <3>1, <2>2, <2>4, <2>6, <2>7, <1>9, RenamedHeights
  <2>9. Placed(Q, Put(T.parent[n], old, n), s, Put(c, old, n))
    BY <2>2, <2>4, <2>6, <2>7, <1>9, RenamedHeights
  <2>10. /\ Put(T.parent[n], old, n) = up /\ Put(c, old, n) = c
         /\ Put(u, old, n) = IF n \in T.red THEN Nil ELSE up
    BY <2>4, <1>2, <1>11 DEF Put, u
  <2>11. Nodes(Q) = D \ {old} /\ up \in Nodes(Q) \cup {Nil}
    <3>1. Nodes(Q) = D \ {old}
      BY <2>4, <2>6, <1>6, <1>9
    <3>2. up = n \/ (up = T.parent[n] /\ up # old)
      BY <1>11
    <3> QED BY <3>1, <3>2, <2>4, <1>6, <1>9
  <2>12. PICK b : HeightsShort(Q, b, Put(u, old, n), s)
    BY <2>8
  <2> HIDE DEF up, R
  <2>13. /\ HeightsShort(Q, b, IF n \in T.red THEN Nil ELSE up, s) /\ Placed(Q, up, s, c) /\ RedBut(Q, c)
         /\ n \in T.red => RedUnder(Q, Nil)
         /\ IsFiniteSet(Nodes(Q))
    BY <2>8, <2>9, <2>10, <2>11, <2>12, <1>2, <1>9
  <2>14. Good(R) /\ Nodes(R) = Nodes(Q)
    BY <2>6, <2>11, <2>13, <1>3, Repaired
  <2> QED BY <2>11, <2>14 DEF R
<1> QED BY <1>10, <1>11

-----------------------------------------------------------------------------
(* The iterations, RB_NFIND and clearing. *)

\* m is the last element of D on side s, if D has any.
IsEnd(D, s, m) == IF m = Nil THEN D = {} ELSE m \in D /\ \A a \in D \ {m} : Toward(s, m, a)

\* r is the first element of D beyond n on side s, if there is any.
IsNext(D, s, n, r) ==
  IF r = Nil THEN \A a \in D : ~Toward(s, a, n)
  ELSE r \in D /\ Toward(s, r, n) /\ \A a \in D \ {r} : Toward(s, a, n) => Toward(s, a, r)

\* RB_MIN and RB_MAX.
THEOREM ExtremeIs ==
  ASSUME NEW T, NEW sub, Shape(T, sub), IsFiniteSet(Nodes(T)), NEW s \in Sides
  PROVE  IsEnd(Nodes(T), s, Extreme(T, s))
<1> DEFINE D == Nodes(T)
           m == Outermost(T, s, T.root)
<1>1. T.root \in D \cup {Nil} /\ Nil \notin D /\ Sub(sub, T.root) = D
  BY Fields DEF Shape, Branches
<1>2. CASE T.root = Nil
  BY <1>1, <1>2 DEF Extreme, IsEnd, Sub
<1>3. CASE T.root # Nil
  <2>1. sub[T.root] = D /\ T.root \in D
    BY <1>1, <1>3 DEF Sub
  <2>2. m \in D /\ \A a \in sub[T.root] \ {m} : Toward(s, m, a)
    BY <2>1, OutermostIs
  <2>3. Extreme(T, s) = m
    BY <1>3 DEF Extreme
  <2> HIDE DEF m
  <2> QED BY <2>1, <2>2, <2>3, <1>1 DEF IsEnd
<1> QED BY <1>2, <1>3

\* What the climb from n keeps, after i turns: no node under the one reached is beyond n.
Climbing(T, sub, s, n, m, i) ==
  /\ n \in sub[m] /\ \A a \in sub[m] : ~Toward(s, a, n)
  /\ ClimbTurn(T, s, m) # m => Cardinality(sub[m]) > i

\* A turn of the climb keeps this.
LEMMA ClimbKeeps ==
  ASSUME NEW T, NEW sub, Shape(T, sub), IsFiniteSet(Nodes(T)), NEW s \in Sides, NEW n \in Nodes(T),
         NEW m \in Nodes(T), NEW i \in Nat, Climbing(T, sub, s, n, m, i)
  PROVE  ClimbTurn(T, s, m) \in Nodes(T) /\ Climbing(T, sub, s, n, ClimbTurn(T, s, m), i + 1)
<1> DEFINE D == Nodes(T)
           p == T.parent[m]
           o == Opposite(s)
<1>1. CASE ~(p # Nil /\ T[s][p] = m)
  <2>1. ClimbTurn(T, s, m) = m
    BY <1>1 DEF ClimbTurn
  <2> QED BY <2>1 DEF Climbing
<1>2. CASE p # Nil /\ T[s][p] = m
  <2>1. ClimbTurn(T, s, m) = p
    BY <1>2 DEF ClimbTurn
  <2>2. p \in D /\ p # m /\ m # Nil /\ o \in Sides
    BY <1>2, Kin, SidesAre DEF Shape
  <2>3. sub[p] = {p} \cup sub[m] \cup Sub(sub, T[o][p]) /\ Sub(sub, T[s][p]) = sub[m] /\ sub[p] \subseteq D
    <3>1. sub[p] = {p} \cup Sub(sub, T[s][p]) \cup Sub(sub, T[o][p])
      BY <2>2 DEF Shape, Branches
    <3> QED BY <3>1, <2>2, <1>2, Kin DEF Sub
  <2>4. n \in sub[m] /\ \A a \in sub[m] : ~Toward(s, a, n)
    BY DEF Climbing
  <2>5. Toward(s, n, p)
    BY <2>2, <2>3, <2>4 DEF Shape, Branches
  <2>6. ASSUME NEW a \in sub[p] PROVE ~Toward(s, a, n)
    <3>1. CASE a = p
      BY <3>1, <2>2, <2>5, TowardOrder DEF Shape
    <3>2. CASE a \in sub[m]
      BY <3>2, <2>4
    <3>3. CASE a \in Sub(sub, T[o][p])
      <4>1. Toward(s, p, a)
        BY <3>3, <2>2, SidesAre DEF Shape, Branches
      <4>2. Toward(s, n, a) /\ a \in D
        BY <4>1, <2>2, <2>3, <2>5, TowardOrder DEF Shape
      <4> QED BY <4>2, TowardOrder DEF Shape
    <3> QED BY <3>1, <3>2, <3>3, <2>3
  <2>7. Cardinality(sub[p]) > i + 1
    <3>1. Cardinality(sub[m]) > i
      BY <2>1, <2>2 DEF Climbing
    <3>2. Cardinality(sub[m]) < Cardinality(sub[p]) /\ Cardinality(sub[m]) \in Nat /\ Cardinality(sub[p]) \in Nat
      BY <1>2, <2>2, Smaller
    <3> QED BY <3>1, <3>2
  <2>8. Climbing(T, sub, s, n, p, i + 1)
    BY <2>3, <2>4, <2>6, <2>7 DEF Climbing
  <2> QED BY <2>1, <2>2, <2>8
<1> QED BY <1>1, <1>2

\* The climb from a node with no subtree on side s ends at the next node on that side.
LEMMA ClimbIs ==
  ASSUME NEW T, NEW sub, Shape(T, sub), IsFiniteSet(Nodes(T)), NEW s \in Sides, NEW n \in Nodes(T), T[s][n] = Nil
  PROVE  IsNext(Nodes(T), s, n, Climb(T, s, n))
<1> DEFINE D == Nodes(T)
           S == [i \in Nat |-> {m \in D : Climbing(T, sub, s, n, m, i)}]
           o == Opposite(s)
<1>1. OrderOn(D) /\ Nil \notin D /\ Cardinality(D) \in Nat /\ o \in Sides
  BY Kids, Smaller, SidesAre
<1>2. n \in S[0]
  <2>1. n \in sub[n] /\ sub[n] \subseteq D /\ sub[n] = {n} \cup Sub(sub, T[o][n])
    <3>1. sub[n] = {n} \cup Sub(sub, T[s][n]) \cup Sub(sub, T[o][n])
      BY DEF Shape, Branches
    <3> QED BY <3>1, Kin DEF Sub
  <2>2. ASSUME NEW a \in sub[n] PROVE ~Toward(s, a, n)
    <3>1. CASE a = n
      BY <3>1, <1>1, TowardOrder
    <3>2. CASE a \in Sub(sub, T[o][n])
      <4>1. Toward(s, n, a) /\ a \in D
        BY <2>1, <3>2, <1>1, SidesAre DEF Shape, Branches
      <4> QED BY <4>1, <1>1, TowardOrder
    <3> QED BY <3>1, <3>2, <2>1
  <2>3. Climbing(T, sub, s, n, n, 0)
    BY <2>1, <2>2, Smaller DEF Climbing
  <2> QED BY <2>3
<1>3. \A i \in Nat : \A a \in S[i] : ClimbTurn(T, s, a) \in S[i + 1]
  <2>1. ASSUME NEW i \in Nat, NEW a \in S[i] PROVE ClimbTurn(T, s, a) \in S[i + 1]
    <3>1. a \in D /\ Climbing(T, sub, s, n, a, i) /\ i + 1 \in Nat
      OBVIOUS
    <3>2. ClimbTurn(T, s, a) \in D /\ Climbing(T, sub, s, n, ClimbTurn(T, s, a), i + 1)
      BY <3>1, ClimbKeeps
    <3> QED BY <3>1, <3>2
  <2> QED BY <2>1
<1>4. PICK m \in S[Cardinality(D)] : Climb(T, s, n) = T.parent[m]
  <2> HIDE DEF S
  <2> QED BY <1>2, <1>3, ClimbRun
<1>5. m \in D /\ Climbing(T, sub, s, n, m, Cardinality(D))
  BY <1>1, <1>4
<1> DEFINE p == T.parent[m]
<1>6. p = Nil \/ T[s][p] # m
  <2>1. ~(Cardinality(sub[m]) > Cardinality(D))
    BY <1>1, <1>5, Smaller
  <2>2. ClimbTurn(T, s, m) = m
    BY <2>1, <1>5 DEF Climbing
  <2>3. p # m
    BY <1>5, Kin
  <2> QED BY <2>2, <2>3 DEF ClimbTurn
<1>7. n \in sub[m] /\ \A a \in sub[m] : ~Toward(s, a, n)
  BY <1>5 DEF Climbing
<1>8. CASE p = Nil
  <2>1. m = T.root
    BY <1>5, <1>8, Kin
  <2>2. sub[m] = D
    BY <2>1, <1>1, <1>5 DEF Shape, Branches, Sub
  <2> QED BY <2>2, <1>4, <1>7, <1>8 DEF IsNext
<1>9. CASE p # Nil
  <2>1. p \in D /\ m # Nil
    BY <1>1, <1>5, <1>9, Kin
  <2>2. T[o][p] = m
    <3>1. m # T.root
      BY <1>5, <1>9, Kin
    <3>2. PICK z \in Sides : T[z][p] = m
      BY <3>1, <1>5, Kin
    <3> QED BY <3>2, <1>6, <1>9, SidesAre
  <2>3. sub[p] = {p} \cup Sub(sub, T[s][p]) \cup sub[m] /\ Sub(sub, T[o][p]) = sub[m] /\ n \in sub[p] /\ p \in sub[p]
    <3>1. sub[p] = {p} \cup Sub(sub, T[s][p]) \cup Sub(sub, T[o][p])
      BY <2>1 DEF Shape, Branches
    <3> QED BY <3>1, <2>1, <2>2, <1>7 DEF Sub
  <2>4. Toward(s, p, n)
    <3>1. Toward(o, n, p)
      BY <2>1, <2>3, <1>1, <1>7 DEF Shape, Branches
    <3> QED BY <3>1, SidesAre
  <2>5. ASSUME NEW a \in D \ {p}, Toward(s, a, n) PROVE Toward(s, a, p)
    <3>1. CASE a \in sub[p]
      <4>1. a \in Sub(sub, T[s][p])
        BY <3>1, <2>3, <2>5, <1>7
      <4> QED BY <4>1, <2>1 DEF Shape, Branches
    <3>2. CASE a \notin sub[p]
      <4>1. PICK z \in Sides : \A r \in sub[p] : Toward(z, a, r)
        BY <3>2, <2>1, Apart
      <4>2. Toward(z, a, n) /\ Toward(z, a, p)
        BY <4>1, <2>3
      <4>3. z = s
        <5>1. z = o => Toward(s, n, a)
          BY <4>2, SidesAre
        <5>2. ~Toward(s, n, a)
          BY <2>5, <1>1, TowardOrder
        <5> QED BY <5>1, <5>2, SidesAre
      <4> QED BY <4>2, <4>3
    <3> QED BY <3>1, <3>2
  <2> QED BY <2>1, <2>4, <2>5, <1>4, <1>9 DEF IsNext
<1> QED BY <1>8, <1>9

\* RB_NEXT and RB_PREV.
THEOREM StepIs ==
  ASSUME NEW T, NEW sub, Shape(T, sub), IsFiniteSet(Nodes(T)), NEW s \in Sides, NEW n \in Nodes(T)
  PROVE  IsNext(Nodes(T), s, n, Step(T, s, n))
<1> DEFINE D == Nodes(T)
           c == T[s][n]
           o == Opposite(s)
           m == Outermost(T, o, c)
<1>1. CASE c = Nil
  BY <1>1, ClimbIs DEF Step
<1>2. CASE c # Nil
  <2>1. c \in D /\ o \in Sides /\ OrderOn(D) /\ Nil \notin D /\ Sub(sub, c) = sub[c]
    BY <1>2, Kids, SidesAre DEF Sub
  <2>2. m \in sub[c] /\ m \in D /\ \A a \in sub[c] \ {m} : Toward(o, m, a)
    BY <2>1, OutermostIs
  <2>3. Step(T, s, n) = m
    BY <1>2 DEF Step
  <2> HIDE DEF m
  <2>4. sub[n] = {n} \cup sub[c] \cup Sub(sub, T[o][n]) /\ n \in sub[n] /\ m \in sub[n]
    <3>1. sub[n] = {n} \cup Sub(sub, c) \cup Sub(sub, T[o][n])
      BY DEF Shape, Branches
    <3> QED BY <3>1, <2>1, <2>2
  <2>5. Toward(s, m, n)
    BY <2>1, <2>2 DEF Shape, Branches
  <2>6. ASSUME NEW a \in D \ {m}, Toward(s, a, n) PROVE Toward(s, a, m)
    <3>1. CASE a \in sub[n]
      <4>1. a # n
        BY <2>1, <2>6, TowardOrder
      <4>2. a \notin Sub(sub, T[o][n])
        <5>1. a \in Sub(sub, T[o][n]) => Toward(o, a, n)
          BY <2>1 DEF Shape, Branches
        <5>2. Toward(o, a, n) => Toward(s, n, a)
          BY SidesAre
        <5> QED BY <5>1, <5>2, <2>1, <2>6, TowardOrder
      <4>3. Toward(o, m, a)
        BY <3>1, <4>1, <4>2, <2>2, <2>4, <2>6
      <4> QED BY <4>3, SidesAre
    <3>2. CASE a \notin sub[n]
      <4>1. PICK z \in Sides : \A r \in sub[n] : Toward(z, a, r)
        BY <3>2, Apart
      <4>2. Toward(z, a, n) /\ Toward(z, a, m)
        BY <4>1, <2>4
      <4>3. z = s
        <5>1. z = o => Toward(s, n, a)
          BY <4>2, SidesAre
        <5>2. ~Toward(s, n, a)
          BY <2>1, <2>6, TowardOrder
        <5> QED BY <5>1, <5>2, SidesAre
      <4> QED BY <4>2, <4>3
    <3> QED BY <3>1, <3>2
  <2>7. IsNext(D, s, n, m)
    BY <2>1, <2>2, <2>5, <2>6 DEF IsNext
  <2> QED BY <2>3, <2>7
<1> QED BY <1>1, <1>2

\* r is the first element of D that is not below k, if there is any.
IsFirstFrom(D, k, r) ==
  IF r = Nil THEN \A a \in D : Less(a, k)
  ELSE r \in D /\ ~Less(r, k) /\ \A a \in D \ {r} : ~Less(a, k) => Less(r, a)

\* What the search of RB_NFIND keeps, after i turns: what is not below k is under the node
\* reached, or it is best or above best; best is above all nodes under the one reached.
Closing(T, sub, k, at, i) ==
  /\ at.best # Nil => Less(k, at.best) /\ \A a \in Sub(sub, at.node) : Less(a, at.best)
  /\ \A a \in Nodes(T) : \/ Less(a, k) \/ a \in Sub(sub, at.node)
                         \/ at.best # Nil /\ (a = at.best \/ Less(at.best, a))
  /\ at.node \notin {Nil, k} => Cardinality(sub[at.node]) + i <= Cardinality(Nodes(T))

\* A turn of RB_NFIND keeps this.
LEMMA ClosingKeeps ==
  ASSUME NEW T, NEW sub, Shape(T, sub), IsFiniteSet(Nodes(T)), NEW k, OrderOn(Nodes(T) \cup {k}),
         NEW at \in [node : Nodes(T) \cup {Nil}, best : Nodes(T) \cup {Nil}], NEW i \in Nat,
         Closing(T, sub, k, at, i)
  PROVE  /\ NFindTurn(T, k, at) \in [node : Nodes(T) \cup {Nil}, best : Nodes(T) \cup {Nil}]
         /\ Closing(T, sub, k, NFindTurn(T, k, at), i + 1)
<1> DEFINE D == Nodes(T)
           m == at.node
           P == NFindTurn(T, k, at)
<1>1. CASE m = Nil \/ m = k
  <2>1. P = at
    BY <1>1 DEF NFindTurn, OrderOn
  <2> QED BY <2>1, <1>1 DEF Closing
<1>2. CASE m # Nil /\ m # k
  <2>1. m \in D /\ OrderOn(D) /\ Nil \notin D
    BY <1>2, Kids
  <2>2. /\ sub[m] = {m} \cup Sub(sub, T.left[m]) \cup Sub(sub, T.right[m]) /\ sub[m] \subseteq D /\ Sub(sub, m) = sub[m]
        /\ \A a \in Sub(sub, T.left[m]) : Less(a, m)
        /\ \A a \in Sub(sub, T.right[m]) : Less(m, a)
    <3>1. "left" \in Sides /\ "right" \in Sides /\ Opposite("left") = "right"
      BY DEF Sides, Opposite
    <3> QED BY <3>1, <2>1, <1>2, Kin DEF Shape, Branches, Toward, Sub
  <2>3. ASSUME NEW s \in Sides, T[s][m] # Nil
        PROVE  T[s][m] \in D /\ Cardinality(sub[T[s][m]]) + (i + 1) <= Cardinality(D)
    <3>1. Cardinality(sub[m]) + i <= Cardinality(D)
      BY <1>2 DEF Closing
    <3>2. T[s][m] \in D
      BY <2>1, <2>3, Kids
    <3>3. Cardinality(sub[T[s][m]]) < Cardinality(sub[m]) /\ Cardinality(sub[T[s][m]]) \in Nat /\ Cardinality(sub[m]) \in Nat /\ Cardinality(D) \in Nat
      BY <2>1, <2>3, <3>2, Smaller
    <3> QED BY <3>1, <3>2, <3>3
  <2>4. /\ at.best # Nil => Less(k, at.best) /\ \A a \in sub[m] : Less(a, at.best)
        /\ \A a \in D : Less(a, k) \/ a \in sub[m] \/ (at.best # Nil /\ (a = at.best \/ Less(at.best, a)))
    <3>1. Sub(sub, at.node) = sub[m]
      BY <2>2
    <3>2. at.best # Nil => Less(k, at.best) /\ \A a \in sub[m] : Less(a, at.best)
      BY <3>1 DEF Closing
    <3>3. \A a \in D : Less(a, k) \/ a \in sub[m] \/ (at.best # Nil /\ (a = at.best \/ Less(at.best, a)))
      BY <3>1 DEF Closing
    <3> QED BY <3>2, <3>3
  <2>5. CASE Less(k, m)
    <3>1. P = [node |-> T.left[m], best |-> m]
      BY <1>2, <2>5 DEF NFindTurn
    <3>2. P.node = T.left[m] /\ P.best = m
      BY <3>1
    <3>3. T.left[m] \in D \cup {Nil} /\ (T.left[m] # Nil => Cardinality(sub[T.left[m]]) + (i + 1) <= Cardinality(D))
      <4>1. "left" \in Sides /\ T["left"][m] \in D \cup {Nil}
        BY <2>1, Kids DEF Sides
      <4> QED BY <4>1, <2>3
    <3>4. ASSUME NEW a \in D, ~Less(a, k), a \notin Sub(sub, T.left[m]) PROVE a = m \/ Less(m, a)
      <4>1. CASE a \in sub[m]
        BY <4>1, <3>4, <2>2
      <4>2. CASE at.best # Nil /\ (a = at.best \/ Less(at.best, a))
        <5>1. Less(m, at.best) /\ at.best \in D
          BY <4>2, <2>2, <2>4
        <5> QED BY <5>1, <4>2, <2>1 DEF OrderOn
      <4> QED BY <4>1, <4>2, <3>4, <2>4
    <3> HIDE DEF P
    <3>5. Closing(T, sub, k, P, i + 1)
      BY <3>2, <3>3, <3>4, <2>1, <2>2, <2>5 DEF Closing
    <3> QED BY <3>1, <3>3, <3>5, <2>1 DEF P
  <2>6. CASE Less(m, k)
    <3>1. ~Less(k, m)
      BY <2>1, <2>6 DEF OrderOn
    <3>2. P = [at EXCEPT !.node = T.right[m]]
      BY <1>2, <2>6, <3>1 DEF NFindTurn
    <3>3. P = [node |-> T.right[m], best |-> at.best]
      BY <3>2
    <3>4. P.node = T.right[m] /\ P.best = at.best
      BY <3>3
    <3>5. T.right[m] \in D \cup {Nil} /\ (T.right[m] # Nil => Cardinality(sub[T.right[m]]) + (i + 1) <= Cardinality(D))
      <4>1. "right" \in Sides /\ T["right"][m] \in D \cup {Nil}
        BY <2>1, Kids DEF Sides
      <4> QED BY <4>1, <2>3
    <3>6. ASSUME NEW a \in D, ~Less(a, k), a \in sub[m] PROVE a \in Sub(sub, T.right[m])
      <4>1. a # m /\ ~Less(a, m)
        BY <2>1, <2>6, <3>6 DEF OrderOn
      <4> QED BY <4>1, <3>6, <2>2
    <3> HIDE DEF P
    <3>7. Closing(T, sub, k, P, i + 1)
      BY <3>4, <3>5, <3>6, <2>2, <2>4 DEF Closing
    <3> QED BY <3>3, <3>5, <3>7 DEF P
  <2> QED BY <2>1, <2>5, <2>6, <1>2 DEF OrderOn
<1> QED BY <1>1, <1>2

\* RB_NFIND returns the first node not below k.
THEOREM NFindIs ==
  ASSUME NEW T, NEW sub, Shape(T, sub), IsFiniteSet(Nodes(T)), NEW k, OrderOn(Nodes(T) \cup {k})
  PROVE  IsFirstFrom(Nodes(T), k, NFind(T, k))
<1> DEFINE D == Nodes(T)
           Typed == [node : D \cup {Nil}, best : D \cup {Nil}]
           x == [node |-> T.root, best |-> Nil]
           S == [i \in Nat |-> {at \in Typed : Closing(T, sub, k, at, i)}]
<1>1. T.root \in D \cup {Nil} /\ Nil \notin D /\ Sub(sub, T.root) = D /\ Cardinality(D) \in Nat
  BY Fields, FS_CardinalityType DEF Shape, Branches
<1>2. x \in S[0]
  <2>1. x.node = T.root /\ x.best = Nil /\ x \in Typed
    BY <1>1
  <2>2. x.node # Nil => Cardinality(sub[x.node]) + 0 <= Cardinality(D)
    BY <1>1 DEF Sub
  <2> HIDE DEF x
  <2>3. Closing(T, sub, k, x, 0)
    BY <2>1, <2>2, <1>1 DEF Closing
  <2> QED BY <2>1, <2>3
<1>3. \A i \in Nat : \A a \in S[i] : NFindTurn(T, k, a) \in S[i + 1]
  <2>1. ASSUME NEW i \in Nat, NEW a \in S[i] PROVE NFindTurn(T, k, a) \in S[i + 1]
    <3>1. a \in Typed /\ Closing(T, sub, k, a, i) /\ i + 1 \in Nat
      OBVIOUS
    <3>2. NFindTurn(T, k, a) \in Typed /\ Closing(T, sub, k, NFindTurn(T, k, a), i + 1)
      BY <3>1, ClosingKeeps
    <3> QED BY <3>1, <3>2
  <2> QED BY <2>1
<1>4. PICK end \in S[Cardinality(D)] : NFind(T, k) = IF end.node = Nil THEN end.best ELSE end.node
  <2> HIDE DEF S
  <2> QED BY <1>2, <1>3, NFindRun
<1>5. end \in Typed /\ Closing(T, sub, k, end, Cardinality(D))
  BY <1>1, <1>4
<1>6. end.node = Nil \/ end.node = k
  <2>1. SUFFICES ASSUME end.node \notin {Nil, k} PROVE FALSE
    OBVIOUS
  <2>2. Cardinality(sub[end.node]) + Cardinality(D) <= Cardinality(D)
    BY <2>1, <1>5 DEF Closing
  <2>3. Cardinality(sub[end.node]) \in Nat /\ Cardinality(sub[end.node]) > 0
    BY <2>1, <1>5, Smaller
  <2> QED BY <2>2, <2>3, <1>1
<1>7. CASE end.node = Nil
  <2>1. /\ end.best # Nil => Less(k, end.best)
        /\ \A a \in D : Less(a, k) \/ (end.best # Nil /\ (a = end.best \/ Less(end.best, a)))
    BY <1>5, <1>7 DEF Closing, Sub
  <2>2. end.best # Nil => end.best \in D /\ ~Less(end.best, k)
    BY <2>1, <1>5 DEF OrderOn
  <2> QED BY <2>1, <2>2, <1>4, <1>7 DEF IsFirstFrom
<1>8. CASE end.node # Nil
  <2>1. NFind(T, k) = k /\ k \in D
    BY <1>4, <1>5, <1>6, <1>8
  <2>2. ~Less(k, k) /\ \A a \in D \ {k} : ~Less(a, k) => Less(k, a)
    BY DEF OrderOn
  <2> QED BY <2>1, <2>2, <1>1 DEF IsFirstFrom
<1> QED BY <1>7, <1>8

\* What the loop of a clear keeps, after i turns: the node reached is the first of those left.
Clearing(D, at, i) ==
  /\ Good(at.tree) /\ Nodes(at.tree) \subseteq D /\ IsEnd(Nodes(at.tree), "left", at.node)
  /\ at.node # Nil => Cardinality(Nodes(at.tree)) + i <= Cardinality(D)

\* A turn of the clear keeps this.
LEMMA ClearingKeeps ==
  ASSUME NEW D, IsFiniteSet(D), NEW at, NEW i \in Nat, Clearing(D, at, i)
  PROVE  Clearing(D, ClearTurn(at), i + 1)
<1> DEFINE T == at.tree
           n == at.node
           E == Nodes(T)
           R == Remove(T, n)
           r == Step(T, "right", n)
           P == ClearTurn(at)
<1>1. CASE n = Nil
  BY <1>1 DEF Clearing, ClearTurn
<1>2. CASE n # Nil
  <2>1. Good(T) /\ E \subseteq D /\ n \in E /\ (\A a \in E \ {n} : Toward("left", n, a)) /\ Cardinality(E) + i <= Cardinality(D)
    BY <1>2 DEF Clearing, IsEnd
  <2>2. PICK sub, bh : Shape(T, sub) /\ Heights(T, bh) /\ RedUnder(T, Nil)
    BY <2>1 DEF Good
  <2>3. IsFiniteSet(E) /\ OrderOn(E) /\ Nil \notin E
    BY <2>1, <2>2, Kids DEF Good
  <2>4. P.tree = R /\ P.node = r
    BY <1>2 DEF ClearTurn
  <2>5. Good(R) /\ Nodes(R) = E \ {n}
    BY <2>1, RemoveIs
  <2>6. "right" \in Sides
    BY DEF Sides
  <2>7. IsNext(E, "right", n, r)
    BY <2>1, <2>2, <2>3, <2>6, StepIs
  <2> HIDE DEF P, R, r
  <2>8. \A a \in E \ {n} : Toward("right", a, n)
    BY <2>1 DEF Toward
  <2>9. IsEnd(E \ {n}, "left", r)
    <3>1. CASE r = Nil
      BY <3>1, <2>7, <2>8 DEF IsNext, IsEnd
    <3>2. CASE r # Nil
      <4>1. r \in E /\ Toward("right", r, n) /\ \A a \in E \ {r} : Toward("right", a, n) => Toward("right", a, r)
        BY <3>2, <2>7 DEF IsNext
      <4>2. r # n
        BY <4>1, <2>3, <2>6, TowardOrder
      <4>3. \A a \in (E \ {n}) \ {r} : Toward("left", r, a)
        BY <4>1, <2>8 DEF Toward
      <4> QED BY <3>2, <4>1, <4>2, <4>3 DEF IsEnd
    <3> QED BY <3>1, <3>2
  <2>10. Cardinality(E \ {n}) + (i + 1) <= Cardinality(D)
    <3>1. Cardinality(E \ {n}) = Cardinality(E) - 1 /\ Cardinality(E) \in Nat /\ Cardinality(D) \in Nat
      BY <2>1, <2>3, FS_RemoveElement, FS_CardinalityType
    <3> QED BY <3>1, <2>1
  <2>11. Clearing(D, P, i + 1)
    BY <2>1, <2>4, <2>5, <2>9, <2>10 DEF Clearing
  <2> QED BY <2>11 DEF P
<1> QED BY <1>1, <1>2

\* A clear leaves an empty tree.
THEOREM ClearIs ==
  ASSUME NEW T, Good(T)
  PROVE  Good(Clear(T)) /\ Nodes(Clear(T)) = {}
<1> DEFINE D == Nodes(T)
           Typed == [tree : UNION {TreesOn(E) : E \in SUBSET D}, node : D \cup {Nil}]
           x == [tree |-> T, node |-> Extreme(T, "left")]
           S == [i \in Nat |-> {at \in Typed : Clearing(D, at, i)}]
<1>1. PICK sub, bh : Shape(T, sub) /\ Heights(T, bh) /\ RedUnder(T, Nil)
  BY DEF Good
<1>2. IsFiniteSet(D) /\ Cardinality(D) \in Nat /\ Nil \notin D
  BY <1>1, Kids, FS_CardinalityType DEF Good
<1>3. ASSUME NEW at, NEW i \in Nat, Clearing(D, at, i) PROVE at.tree \in UNION {TreesOn(E) : E \in SUBSET D} /\ at.node \in D \cup {Nil}
  <2>1. at.tree \in TreesOn(Nodes(at.tree)) /\ Nodes(at.tree) \in SUBSET D
    BY <1>3 DEF Clearing, Good, Shape
  <2>2. at.node \in D \cup {Nil}
    BY <1>3 DEF Clearing, IsEnd
  <2> QED BY <2>1, <2>2
<1>4. x \in S[0]
  <2>1. IsEnd(D, "left", Extreme(T, "left"))
    BY <1>1, <1>2, ExtremeIs DEF Sides
  <2>2. x.tree = T /\ x.node = Extreme(T, "left")
    OBVIOUS
  <2>3. Clearing(D, x, 0)
    BY <2>1, <2>2, <1>2 DEF Clearing
  <2> QED BY <2>2, <2>3, <1>3
<1>5. \A i \in Nat : \A a \in S[i] : ClearTurn(a) \in S[i + 1]
  <2>1. ASSUME NEW i \in Nat, NEW a \in S[i] PROVE ClearTurn(a) \in S[i + 1]
    <3>1. a \in Typed /\ Clearing(D, a, i) /\ i + 1 \in Nat
      OBVIOUS
    <3>2. Clearing(D, ClearTurn(a), i + 1)
      BY <3>1, <1>2, ClearingKeeps
    <3>3. ClearTurn(a).tree \in UNION {TreesOn(E) : E \in SUBSET D} /\ ClearTurn(a).node \in D \cup {Nil}
      BY <3>1, <3>2, <1>3
    <3>4. ClearTurn(a) \in Typed
      <4>1. CASE a.node = Nil
        BY <3>1, <4>1 DEF ClearTurn
      <4>2. CASE a.node # Nil
        <5>1. ClearTurn(a) = [tree |-> Remove(a.tree, a.node), node |-> Step(a.tree, "right", a.node)]
          BY <4>2 DEF ClearTurn
        <5> QED BY <5>1, <3>3
      <4> QED BY <4>1, <4>2
    <3> QED BY <3>1, <3>2, <3>4
  <2> QED BY <2>1
<1>6. PICK end \in S[Cardinality(D)] : Clear(T) = end.tree
  <2> HIDE DEF S
  <2> QED BY <1>2, <1>4, <1>5, ClearRun
<1>7. Clearing(D, end, Cardinality(D))
  BY <1>2, <1>6
<1>8. end.node = Nil
  <2>1. SUFFICES ASSUME end.node # Nil PROVE FALSE
    OBVIOUS
  <2>2. /\ Cardinality(Nodes(end.tree)) + Cardinality(D) <= Cardinality(D)
        /\ end.node \in Nodes(end.tree) /\ IsFiniteSet(Nodes(end.tree))
    BY <2>1, <1>7 DEF Clearing, IsEnd, Good
  <2>3. Cardinality(Nodes(end.tree)) \in Nat /\ Cardinality(Nodes(end.tree)) # 0
    BY <2>2, FS_CardinalityType, FS_EmptySet
  <2> QED BY <2>2, <2>3, <1>2
<1> QED BY <1>6, <1>7, <1>8 DEF Clearing, IsEnd

\* The empty tree is one.
LEMMA EmptyTreeIs == Good(EmptyTree) /\ Nodes(EmptyTree) = {}
<1>1. <<>> \in [{} -> {Nil}] /\ DOMAIN <<>> = {} /\ <<>> \in [{} -> SUBSET {}] /\ <<>> \in [{} -> Nat]
  OBVIOUS
<1>2. Nodes(EmptyTree) = {} /\ EmptyTree.root = Nil /\ EmptyTree.red = {}
  BY <1>1 DEF EmptyTree, Nodes
<1>3. EmptyTree \in TreesOn({})
  BY <1>1 DEF EmptyTree, TreesOn
<1>4. Linked(EmptyTree) /\ Branches(EmptyTree, <<>>) /\ OrderOn({})
  BY <1>1, <1>2 DEF Linked, Branches, Sub, OrderOn
<1>5. Shape(EmptyTree, <<>>)
  BY <1>2, <1>3, <1>4 DEF Shape
<1>6. Heights(EmptyTree, <<>>) /\ RedUnder(EmptyTree, Nil)
  BY <1>1, <1>2 DEF Heights, RedUnder
<1> QED BY <1>2, <1>5, <1>6, FS_EmptySet DEF Good
=============================================================================
