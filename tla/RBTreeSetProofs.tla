--------------------------- MODULE RBTreeSetProofs ---------------------------
(***************************************************************************)
(* A tree in use stays what RBTreeProofs says of every operation, and from    *)
(* that follow the promises of RBTreeSet: the pointers fit together, the tree *)
(* is balanced, searches answer for the set of its keys, and the iterations   *)
(* meet every key once and in order.                                         *)
(***************************************************************************)
EXTENDS RBTreeSet, RBTreeProofs

\* What makes the promises hold: the tree is a balanced search tree, and its nodes are
\* the keys inserted and not removed.
Balanced == Good(tree) /\ Nodes(tree) = keys /\ keys \subseteq Key

\* The keys are ordered, and so are the nodes of a tree that holds some of them.
LEMMA KeysOrdered ==
  ASSUME NEW D \in SUBSET Key
  PROVE  OrderOn(D) /\ Nil \notin D
  BY KeyAssumption DEF OrderOn

\* Every operation keeps it.
LEMMA InvariantBalanced == Spec => []Balanced
<1>1. Init => Balanced
  BY EmptyTreeIs DEF Init, Balanced
<1>2. Balanced /\ [Next]_vars => Balanced'
  <2> SUFFICES ASSUME Balanced, [Next]_vars PROVE Balanced'
    OBVIOUS
  <2> USE DEF Balanced
  <2>1. CASE ClearKeys
    BY <2>1, ClearIs DEF ClearKeys
  <2>2. ASSUME NEW k \in Key, InsertKey(k) PROVE Balanced'
    <3>1. k # Nil /\ OrderOn(Nodes(tree) \cup {k})
      BY KeysOrdered
    <3>2. Good(Insert(tree, k)) /\ Nodes(Insert(tree, k)) = Nodes(tree) \cup {k}
      BY <3>1, InsertIs
    <3> QED BY <2>2, <3>2 DEF InsertKey
  <2>3. ASSUME NEW k \in Key, RemoveKey(k) PROVE Balanced'
    <3>1. OrderOn(Nodes(tree) \cup {k}) /\ Nil \notin Nodes(tree)
      BY KeysOrdered
    <3>2. Find(tree, k) = k /\ k \in Nodes(tree)
      BY <2>3, <3>1, FindIs DEF RemoveKey, Good
    <3>3. Good(Remove(tree, k)) /\ Nodes(Remove(tree, k)) = Nodes(tree) \ {k}
      BY <3>2, RemoveIs
    <3> QED BY <2>3, <3>2, <3>3 DEF RemoveKey
  <2>4. CASE UNCHANGED vars
    BY <2>4 DEF vars
  <2> QED BY <2>1, <2>2, <2>3, <2>4 DEF Next
<1> QED BY <1>1, <1>2, PTL DEF Spec

\* The pointers lead to nodes of the tree, and every node but the root is a child of its
\* parent and the parent of its children.
THEOREM TypeCorrect == Spec => []TypeOK
<1>1. Balanced => TypeOK
  <2> SUFFICES ASSUME Balanced PROVE TypeOK
    OBVIOUS
  <2>1. PICK sub, bh : Shape(tree, sub) /\ Heights(tree, bh) /\ RedUnder(tree, Nil)
    BY DEF Balanced, Good
  <2>2. /\ DOMAIN tree.left = Nodes(tree) /\ DOMAIN tree.right = Nodes(tree)
        /\ tree.red \subseteq Nodes(tree) /\ tree.root \in Nodes(tree) \cup {Nil}
    <3>1. tree \in TreesOn(Nodes(tree))
      BY <2>1 DEF Shape
    <3> QED BY <3>1 DEF TreesOn
  <2>3. ASSUME NEW n \in Nodes(tree)
        PROVE  IF n = tree.root THEN tree.parent[n] = Nil
               ELSE \E s \in Sides : tree[s][tree.parent[n]] = n
    BY <2>1, <2>3, Kin
  <2>4. ASSUME NEW n \in Nodes(tree), NEW s \in Sides
        PROVE  tree[s][n] = Nil \/ (tree[s][n] \in Nodes(tree) /\ tree.parent[tree[s][n]] = n)
    BY <2>1, <2>4, Kin
  <2> QED BY <2>2, <2>3, <2>4 DEF TypeOK
<1> QED BY <1>1, InvariantBalanced, PTL

\* Find returns the node of every key in the set and no other, NFind the node of the least
\* key not below the one asked for.
THEOREM SearchHolds == Spec => []Search
<1>1. Balanced => Search
  <2> SUFFICES ASSUME Balanced, NEW k \in Key
               PROVE  /\ Find(tree, k) = IF k \in keys THEN k ELSE Nil
                      /\ LET above == {x \in keys : ~Less(x, k)}
                         IN NFind(tree, k) = IF above = {} THEN Nil
                              ELSE CHOOSE x \in above : \A y \in above \ {x} : Less(x, y)
    BY DEF Search
  <2>1. PICK sub, bh : Shape(tree, sub) /\ Heights(tree, bh) /\ RedUnder(tree, Nil)
    BY DEF Balanced, Good
  <2>2. /\ OrderOn(Nodes(tree) \cup {k}) /\ IsFiniteSet(Nodes(tree)) /\ Nodes(tree) = keys
        /\ Nil \notin keys
    BY KeysOrdered DEF Balanced, Good
  <2>3. Find(tree, k) = IF k \in keys THEN k ELSE Nil
    BY <2>1, <2>2, FindIs
  <2> DEFINE r == NFind(tree, k)
             above == {x \in keys : ~Less(x, k)}
  <2>4. IsFirstFrom(keys, k, r)
    BY <2>1, <2>2, NFindIs
  <2> HIDE DEF r
  <2>5. CASE r = Nil
    BY <2>4, <2>5, <2>3 DEF IsFirstFrom, r
  <2>6. CASE r # Nil
    <3>1. r \in above /\ \A y \in above \ {r} : Less(r, y)
      BY <2>4, <2>6 DEF IsFirstFrom
    <3>2. \A x \in above : (\A y \in above \ {x} : Less(x, y)) => x = r
      BY <3>1, <2>2 DEF OrderOn
    <3>3. (CHOOSE x \in above : \A y \in above \ {x} : Less(x, y)) = r
      BY <3>1, <3>2
    <3> QED BY <3>1, <3>3, <2>3 DEF r
  <2> QED BY <2>5, <2>6
<1> QED BY <1>1, InvariantBalanced, PTL

\* The nodes whose subtrees hold m: m and those above it.
Above(T, sub, m) == {a \in Nodes(T) : m \in sub[a]}

\* A node lies under itself and under what its parent lies under.
LEMMA AboveIs ==
  ASSUME NEW T, NEW sub, Shape(T, sub), IsFiniteSet(Nodes(T)), NEW m \in Nodes(T)
  PROVE  /\ Above(T, sub, m) = {m} \cup Above(T, sub, T.parent[m])
         /\ m \notin Above(T, sub, T.parent[m])
         /\ m = T.root => Above(T, sub, T.parent[m]) = {}
<1> DEFINE p == T.parent[m]
           A == Above(T, sub, m)
<1>1. m \in sub[m] /\ \A a \in Nodes(T) : sub[a] \subseteq Nodes(T) /\ Nil \notin Nodes(T)
  BY Kin, Kids
<1>2. CASE m = T.root
  <2>1. p = Nil
    BY <1>2, Kin
  <2>2. Above(T, sub, p) = {}
    BY <2>1, <1>1 DEF Above
  <2>3. ASSUME NEW a \in A PROVE a = m
    <3>1. a \in Nodes(T) /\ m \in sub[a]
      BY <2>3 DEF Above
    <3>2. m # a => p \in sub[a]
      BY <3>1, Within
    <3> QED BY <3>1, <3>2, <2>1, <1>1
  <2>4. A = {m}
    BY <2>3, <1>1 DEF Above
  <2> QED BY <2>2, <2>4
<1>3. CASE m # T.root
  <2>1. p \in Nodes(T) /\ sub[m] \subseteq sub[p] /\ p \notin sub[m]
    <3>1. Sub(sub, m) = sub[m]
      BY <1>1 DEF Sub
    <3> QED BY <3>1, <1>3, Upward
  <2>2. ASSUME NEW a \in A PROVE a = m \/ a \in Above(T, sub, p)
    <3>1. a \in Nodes(T) /\ m \in sub[a]
      BY <2>2 DEF Above
    <3>2. m # a => p \in sub[a]
      BY <3>1, Within
    <3> QED BY <3>1, <3>2 DEF Above
  <2>3. ASSUME NEW a \in Above(T, sub, p) PROVE a \in A
    <3>1. a \in Nodes(T) /\ p \in sub[a]
      BY <2>3 DEF Above
    <3>2. sub[p] \subseteq sub[a]
      BY <3>1, Within
    <3> QED BY <3>1, <3>2, <2>1, <1>1 DEF Above
  <2>4. m \in A
    BY <1>1 DEF Above
  <2>5. m \notin Above(T, sub, p)
    BY <2>1 DEF Above
  <2> QED BY <2>2, <2>3, <2>4, <2>5, <1>3
<1> QED BY <1>2, <1>3

\* The black nodes from the root to m are what the height of the root has on that of m.
LEMMA BlackAbove ==
  ASSUME NEW T, NEW sub, Shape(T, sub), IsFiniteSet(Nodes(T)), NEW bh, Heights(T, bh)
  PROVE  \A m \in Nodes(T) :
           Cardinality(Above(T, sub, m) \ T.red) = bh[T.root] - bh[m] + Weight(T, m)
<1> DEFINE D == Nodes(T)
           Up(m) == Above(T, sub, m)
           Holds(m) == Cardinality(Up(m) \ T.red) = bh[T.root] - bh[m] + Weight(T, m)
           Size == {i \in Nat : \A m \in D : Cardinality(Up(m)) <= i => Holds(m)}
<1>1. \A m \in D : IsFiniteSet(Up(m)) /\ Cardinality(Up(m)) \in Nat
  <2>1. \A m \in D : Up(m) \subseteq D
    BY DEF Above
  <2> QED BY <2>1, FS_Subset, FS_CardinalityType
<1>2. \A m \in D : m \in Up(m) /\ m \notin Up(T.parent[m]) /\ Up(m) = {m} \cup Up(T.parent[m])
  BY AboveIs
<1>3. \A m \in D : Cardinality(Up(m)) # 0
  BY <1>1, <1>2, FS_EmptySet
<1>4. \A m \in D : bh[m] \in Nat /\ Weight(T, m) \in Nat
  BY DEF Heights, Weight
<1>5. 0 \in Size
  BY <1>1, <1>3
<1>6. ASSUME NEW i \in Nat, i \in Size PROVE i + 1 \in Size
  <2>1. SUFFICES ASSUME NEW m \in D, Cardinality(Up(m)) <= i + 1 PROVE Holds(m)
    OBVIOUS
  <2> DEFINE p == T.parent[m]
             black == Up(p) \ T.red
  <2> HIDE DEF Holds, Up, p
  <2>2. /\ m \in Up(m) /\ m \notin Up(p) /\ Up(m) = {m} \cup Up(p) /\ IsFiniteSet(Up(m))
        /\ Cardinality(Up(m)) \in Nat
    BY <1>1, <1>2, <2>1 DEF p
  <2>3. IsFiniteSet(Up(p)) /\ Cardinality(Up(p)) \in Nat /\ IsFiniteSet(black)
        /\ Cardinality(black) \in Nat
    BY <2>2, FS_Subset, FS_CardinalityType
  <2>4. Cardinality(Up(m) \ T.red) = Weight(T, m) + Cardinality(black)
    <3>1. CASE m \in T.red
      <4>1. Up(m) \ T.red = black
        BY <3>1, <2>2
      <4> QED BY <3>1, <4>1, <2>3 DEF Weight
    <3>2. CASE m \notin T.red
      <4>1. Up(m) \ T.red = black \cup {m} /\ m \notin black
        <5> DEFINE A == Up(m)
                   B == Up(p)
        <5>1. A = {m} \cup B /\ m \notin B
          BY <2>2
        <5> HIDE DEF A, B
        <5>2. A \ T.red = (B \ T.red) \cup {m}
          BY <5>1, <3>2
        <5>3. m \notin B \ T.red
          BY <5>1
        <5> QED BY <5>2, <5>3 DEF A, B
      <4> HIDE DEF black
      <4>2. Cardinality(black \cup {m}) = Cardinality(black) + 1
        BY <4>1, <2>3, FS_AddElement
      <4>3. Weight(T, m) = 1
        BY <3>2 DEF Weight
      <4>4. Cardinality(Up(m) \ T.red) = Cardinality(black) + 1
        BY <4>1, <4>2, Zenon
      <4> QED BY <4>3, <4>4, <2>3
    <3> QED BY <3>1, <3>2
  <2>6. CASE m = T.root
    <3>1. Up(p) = {}
      BY <2>6, AboveIs DEF Up, p
    <3>2. Cardinality(black) = 0
      BY <3>1, FS_EmptySet
    <3> QED BY <3>2, <2>4, <2>6, <1>4 DEF Holds
  <2>7. CASE m # T.root
    <3>1. p \in D /\ \E s \in Sides : T[s][p] = m
      BY <2>7, Kin DEF p
    <3>2. bh[p] = bh[m] + Weight(T, p)
      <4>1. PICK s \in Sides : T[s][p] = m
        BY <3>1
      <4>2. bh[p] = Bh(bh, T[s][p]) + Weight(T, p)
        BY <3>1 DEF Heights
      <4>3. m # Nil
        BY Kids
      <4> QED BY <4>1, <4>2, <4>3 DEF Bh
    <3>3. Cardinality(Up(p)) <= i
      <4>1. Up(p) \subseteq Up(m) /\ Up(p) # Up(m)
        BY <2>2
      <4>2. Cardinality(Up(p)) < Cardinality(Up(m))
        BY <4>1, <2>2, <2>3, FS_Subset
      <4> QED BY <4>2, <2>1, <2>2, <2>3
    <3>4. Holds(p)
      BY <3>1, <3>3, <1>6
    <3>5. bh[T.root] \in Nat
      <4>1. T.root \in D
        <5>1. T \in TreesOn(D) /\ Sub(sub, T.root) = D
          BY DEF Shape, Branches
        <5> QED BY <5>1 DEF TreesOn, Sub
      <4> QED BY <4>1, <1>4
    <3> QED BY <3>1, <3>2, <3>4, <3>5, <2>4, <1>4 DEF Holds
  <2> QED BY <2>6, <2>7
<1>7. \A i \in Nat : i \in Size
  <2> HIDE DEF Size
  <2> QED BY <1>5, <1>6, Induction
<1> QED BY <1>1, <1>7

\* The path from n to the root are the nodes n lies under: the walk up meets them one by
\* one, and every parent has a larger subtree than the node.
LEMMA PathIs ==
  ASSUME NEW sub, Shape(tree, sub), IsFiniteSet(Nodes(tree)), NEW n \in Nodes(tree)
  PROVE  Path(n) = Above(tree, sub, n)
<1> DEFINE D == Nodes(tree)
           N == Cardinality(D)
           Ends == D \cup {Nil}
           f == [a \in Ends |-> IF a = Nil THEN Nil ELSE tree.parent[a]]
           up == CHOOSE g : g = [i \in Nat |-> IF i = 0 THEN n
                                               ELSE IF g[i - 1] = Nil THEN Nil ELSE tree.parent[g[i - 1]]]
           Met(i) == {up[j] : j \in 0 .. i}
           Meets == {i \in Nat : /\ up[i] \in Ends
                                 /\ Above(tree, sub, n) = (Met(i) \ {Nil}) \cup Above(tree, sub, up[i])
                                 /\ up[i] # Nil => Cardinality(sub[up[i]]) > i}
<1>1. Nil \notin D /\ \A a \in D : tree.parent[a] \in Ends
  BY Kids, Kin
<1>2. f \in [Ends -> Ends] /\ n \in Ends
  BY <1>1
<1>3. PICK r : IsIteration(Ends, f, n, r)
  <2> HIDE DEF f, Ends
  <2> QED BY <1>2, Iterates
<1>4. r = [i \in Nat |-> IF i = 0 THEN n ELSE IF r[i - 1] = Nil THEN Nil ELSE tree.parent[r[i - 1]]]
  <2>1. r = [i \in Nat |-> IF i = 0 THEN n ELSE f[r[i - 1]]]
    <3> HIDE DEF f
    <3> QED BY <1>3, Recursion
  <2>2. r \in [Nat -> Ends]
    BY <1>3 DEF IsIteration
  <2>3. \A i \in Nat \ {0} : i - 1 \in Nat
    OBVIOUS
  <2>4. \A i \in Nat \ {0} : f[r[i - 1]] = IF r[i - 1] = Nil THEN Nil ELSE tree.parent[r[i - 1]]
    BY <2>2, <2>3
  <2> HIDE DEF f
  <2> QED BY <2>1, <2>4
<1>5. up = [i \in Nat |-> IF i = 0 THEN n ELSE IF up[i - 1] = Nil THEN Nil ELSE tree.parent[up[i - 1]]]
  BY <1>4
<1>6. Path(n) = Met(N) \ {Nil}
  BY DEF Path
<1> HIDE DEF up, f
<1>7. up[0] = n /\ \A i \in Nat : up[i + 1] = IF up[i] = Nil THEN Nil ELSE tree.parent[up[i]]
  BY <1>5
<1>8. 0 \in Meets
  <2>1. Met(0) = {n}
    BY <1>7
  <2>2. Cardinality(sub[n]) > 0 /\ n \in Above(tree, sub, n)
    BY Smaller, Kin DEF Above
  <2> HIDE DEF Met
  <2>3. Above(tree, sub, n) = (Met(0) \ {Nil}) \cup Above(tree, sub, n)
    BY <2>1, <2>2, <1>1
  <2> QED BY <2>2, <2>3, <1>2, <1>7
<1>9. ASSUME NEW i \in Nat, i \in Meets PROVE i + 1 \in Meets
  <2> DEFINE a == up[i]
             p == up[i + 1]
  <2>1. /\ a \in Ends /\ Above(tree, sub, n) = (Met(i) \ {Nil}) \cup Above(tree, sub, a)
        /\ a # Nil => Cardinality(sub[a]) > i
    BY <1>9
  <2>2. Met(i + 1) = Met(i) \cup {p} /\ a \in Met(i)
    <3>1. 0 .. i + 1 = (0 .. i) \cup {i + 1} /\ i \in 0 .. i
      OBVIOUS
    <3> QED BY <3>1
  <2>3. p = IF a = Nil THEN Nil ELSE tree.parent[a]
    BY <1>7
  <2> HIDE DEF Met, a, p
  <2>4. /\ p \in Ends /\ Above(tree, sub, n) = (Met(i + 1) \ {Nil}) \cup Above(tree, sub, p)
        /\ p # Nil => Cardinality(sub[p]) > i + 1
    <3>1. CASE a = Nil
      BY <3>1, <2>1, <2>2, <2>3
    <3>2. CASE a # Nil
      <4>1. a \in D /\ p = tree.parent[a] /\ p \in Ends
        BY <3>2, <2>1, <2>3, <1>1
      <4>2. Above(tree, sub, a) = {a} \cup Above(tree, sub, p)
        BY <4>1, AboveIs
      <4>3. p # Nil => p \in Above(tree, sub, p)
        BY <4>1, Kin DEF Above
      <4>4. p \notin D => Above(tree, sub, p) = {}
        BY <4>1, AboveIs, Kin
      <4>5. p # Nil => Cardinality(sub[p]) > i + 1
        <5>1. SUFFICES ASSUME p # Nil PROVE Cardinality(sub[p]) > i + 1
          OBVIOUS
        <5>2. PICK s \in Sides : tree[s][p] = a
          BY <5>1, <4>1, Kin
        <5>3. Cardinality(sub[a]) < Cardinality(sub[p]) /\ Cardinality(sub[p]) \in Nat
          BY <5>1, <5>2, <4>1, <3>2, Smaller
        <5>4. Cardinality(sub[a]) \in Nat
          BY <4>1, Smaller
        <5> QED BY <5>3, <5>4, <2>1, <3>2
      <4>6. Above(tree, sub, n) = (Met(i + 1) \ {Nil}) \cup Above(tree, sub, p)
        BY <2>1, <2>2, <3>2, <4>1, <4>2, <4>3
      <4> QED BY <4>1, <4>5, <4>6
    <3> QED BY <3>1, <3>2
  <2> QED BY <2>4 DEF a, p
<1>10. \A i \in Nat : i \in Meets
  <2> HIDE DEF Meets
  <2> QED BY <1>8, <1>9, Induction
<1>11. N \in Nat /\ up[N] \in Ends
  BY <1>10, FS_CardinalityType
<1>12. up[N] = Nil
  <2>1. up[N] # Nil => up[N] \in D /\ Cardinality(sub[up[N]]) > N
    BY <1>10, <1>11
  <2> HIDE DEF up
  <2>2. up[N] \in D => Cardinality(sub[up[N]]) <= N /\ Cardinality(sub[up[N]]) \in Nat
    BY Smaller
  <2> QED BY <2>1, <2>2, <1>11
<1>13. Above(tree, sub, Nil) = {}
  <2>1. \A m \in D : sub[m] \subseteq D
    BY Kin
  <2> QED BY <2>1, <1>1 DEF Above
<1>14. Above(tree, sub, n) = (Met(N) \ {Nil}) \cup Above(tree, sub, up[N])
  BY <1>10, <1>11
<1> QED BY <1>6, <1>12, <1>13, <1>14

\* The tree is balanced after every sequence of insertions and removals: the root
\* is black, a red node has a black parent, and all paths have as many black nodes.
THEOREM RedBlackHolds == Spec => []RedBlack
<1>1. Balanced => RedBlack
  <2> SUFFICES ASSUME Balanced PROVE RedBlack
    OBVIOUS
  <2>1. PICK sub, bh : Shape(tree, sub) /\ Heights(tree, bh) /\ RedUnder(tree, Nil)
    BY DEF Balanced, Good
  <2>2. IsFiniteSet(Nodes(tree)) /\ Nil \notin Nodes(tree) /\ tree.red \subseteq Nodes(tree)
    BY <2>1, Kids DEF Balanced, Good
  <2>3. tree.root \notin tree.red
    BY <2>1, <2>2 DEF RedUnder
  <2>4. ASSUME NEW n \in tree.red PROVE tree.parent[n] \notin tree.red
    <3>1. n # tree.root /\ n \in Nodes(tree)
      BY <2>2, <2>3
    <3>2. PICK s \in Sides : tree[s][tree.parent[n]] = n
      BY <3>1, <2>1, Kin
    <3> QED BY <3>1, <3>2, <2>1, <2>2, <2>4 DEF RedUnder
  <2> DEFINE Ending == {m \in Nodes(tree) : \E s \in Sides : tree[s][m] = Nil}
             Depths == {BlackDepth(n) : n \in Ending}
  <2>5. ASSUME NEW n \in Ending PROVE BlackDepth(n) = bh[tree.root]
    <3>1. BlackDepth(n) = bh[tree.root] - bh[n] + Weight(tree, n)
      BY <2>1, <2>2, PathIs, BlackAbove DEF BlackDepth
    <3>2. PICK s \in Sides : tree[s][n] = Nil
      OBVIOUS
    <3>3. bh[n] = Bh(bh, tree[s][n]) + Weight(tree, n)
      BY <2>1 DEF Heights
    <3>4. bh[n] = Weight(tree, n) /\ Weight(tree, n) \in Nat
      BY <3>2, <3>3 DEF Bh, Weight
    <3>5. tree.root \in Nodes(tree)
      <4>1. tree \in TreesOn(Nodes(tree)) /\ Sub(sub, tree.root) = Nodes(tree)
        BY <2>1 DEF Shape, Branches
      <4> QED BY <4>1 DEF TreesOn, Sub
    <3>6. bh[tree.root] \in Nat
      BY <3>5, <2>1 DEF Heights
    <3> QED BY <3>1, <3>4, <3>6
  <2>6. Depths \subseteq {bh[tree.root]}
    BY <2>5
  <2>7. Cardinality(Depths) <= 1
    <3> HIDE DEF Depths
    <3>1. IsFiniteSet({bh[tree.root]}) /\ Cardinality({bh[tree.root]}) = 1
      BY FS_Singleton
    <3> QED BY <3>1, <2>6, FS_Subset
  <2> QED BY <2>3, <2>4, <2>7 DEF RedBlack
<1> QED BY <1>1, InvariantBalanced, PTL

\* The elements of D that come before m on the way to side s.
Behind(D, s, m) == {a \in D : Toward(s, m, a)}

\* at goes through D to side s, and stays at Nil when it is through.
Walks(D, s, at) ==
  /\ at \in [Nat -> D \cup {Nil}] /\ IsEnd(D, Opposite(s), at[0])
  /\ \A i \in Nat : IF at[i] = Nil THEN at[i + 1] = Nil ELSE IsNext(D, s, at[i], at[i + 1])

\* The iteration walks through the nodes.
LEMMA WalkIs ==
  ASSUME NEW sub, Shape(tree, sub), IsFiniteSet(Nodes(tree)), NEW s \in Sides
  PROVE  \E at : /\ Walks(Nodes(tree), s, at)
                 /\ Walk(s) = [i \in 1 .. Cardinality(Nodes(tree)) + 1 |-> at[i - 1]]
<1> DEFINE D == Nodes(tree)
           Ends == D \cup {Nil}
           m == Extreme(tree, Opposite(s))
           f == [a \in Ends |-> IF a = Nil THEN Nil ELSE Step(tree, s, a)]
           at == CHOOSE g : g = [i \in Nat |-> IF i = 0 THEN m
                                               ELSE IF g[i - 1] = Nil THEN Nil ELSE Step(tree, s, g[i - 1])]
<1>1. IsEnd(D, Opposite(s), m) /\ \A a \in D : IsNext(D, s, a, Step(tree, s, a))
  BY SidesAre, ExtremeIs, StepIs
<1>2. Nil \notin D /\ m \in Ends /\ \A a \in D : Step(tree, s, a) \in Ends
  BY <1>1, Kids DEF IsEnd, IsNext
<1> HIDE DEF m
<1>3. f \in [Ends -> Ends]
  BY <1>2
<1>4. PICK r : IsIteration(Ends, f, m, r)
  <2> HIDE DEF f, Ends
  <2> QED BY <1>2, <1>3, Iterates
<1>5. r = [i \in Nat |-> IF i = 0 THEN m ELSE IF r[i - 1] = Nil THEN Nil ELSE Step(tree, s, r[i - 1])]
  <2>1. r = [i \in Nat |-> IF i = 0 THEN m ELSE f[r[i - 1]]]
    <3> HIDE DEF f
    <3> QED BY <1>4, Recursion
  <2>2. r \in [Nat -> Ends]
    BY <1>4 DEF IsIteration
  <2>3. \A i \in Nat \ {0} : i - 1 \in Nat
    OBVIOUS
  <2>4. \A i \in Nat \ {0} : f[r[i - 1]] = IF r[i - 1] = Nil THEN Nil ELSE Step(tree, s, r[i - 1])
    BY <2>2, <2>3
  <2> HIDE DEF f
  <2> QED BY <2>1, <2>4
<1>6. at = [i \in Nat |-> IF i = 0 THEN m ELSE IF at[i - 1] = Nil THEN Nil ELSE Step(tree, s, at[i - 1])]
  BY <1>5
<1>7. Walk(s) = [i \in 1 .. Cardinality(D) + 1 |-> at[i - 1]]
  BY DEF Walk, m
<1> HIDE DEF at, f
<1>8. at[0] = m /\ \A i \in Nat : at[i + 1] = IF at[i] = Nil THEN Nil ELSE Step(tree, s, at[i])
  BY <1>6
<1>9. \A i \in Nat : at[i] \in Ends
  <2> DEFINE In == {i \in Nat : at[i] \in Ends}
  <2>1. 0 \in In /\ \A i \in Nat : i \in In => i + 1 \in In
    BY <1>2, <1>8
  <2> HIDE DEF In
  <2>2. \A i \in Nat : i \in In
    BY <2>1, Induction
  <2> QED BY <2>2 DEF In
<1>10. at \in [Nat -> Ends]
  BY <1>6, <1>9
<1>11. Walks(D, s, at)
  BY <1>1, <1>8, <1>9, <1>10 DEF Walks
<1> QED BY <1>7, <1>11

\* A walk meets the elements in order: so many are before the i-th.
LEMMA WalkRanks ==
  ASSUME NEW D, OrderOn(D), IsFiniteSet(D), Nil \notin D, NEW s \in Sides, NEW at, Walks(D, s, at)
  PROVE  \A i \in Nat : IF at[i] = Nil THEN Cardinality(D) <= i
                        ELSE at[i] \in D /\ Cardinality(Behind(D, s, at[i])) = i
<1> DEFINE Ranked == {i \in Nat : IF at[i] = Nil THEN Cardinality(D) <= i
                                  ELSE at[i] \in D /\ Cardinality(Behind(D, s, at[i])) = i}
           o == Opposite(s)
<1>1. \A i \in Nat : at[i] \in D \cup {Nil}
  BY DEF Walks
<1>2. 0 \in Ranked
  <2>1. IsEnd(D, o, at[0])
    BY DEF Walks
  <2>2. CASE at[0] = Nil
    <3>1. Cardinality(D) = 0
      BY <2>1, <2>2, FS_EmptySet DEF IsEnd
    <3> QED BY <3>1, <2>2
  <2>3. CASE at[0] # Nil
    <3>1. at[0] \in D /\ \A a \in D \ {at[0]} : Toward(s, a, at[0])
      BY <2>1, <2>3, SidesAre DEF IsEnd
    <3>2. Behind(D, s, at[0]) = {}
      BY <3>1, TowardOrder DEF Behind
    <3> QED BY <3>1, <3>2, <2>3, FS_EmptySet
  <2> QED BY <2>2, <2>3
<1>3. ASSUME NEW i \in Nat, i \in Ranked PROVE i + 1 \in Ranked
  <2> DEFINE n == at[i]
             r == at[i + 1]
             B == Behind(D, s, n)
  <2>1. IF n = Nil THEN r = Nil ELSE IsNext(D, s, n, r)
    BY DEF Walks
  <2>2. IF n = Nil THEN Cardinality(D) <= i ELSE n \in D /\ Cardinality(B) = i
    BY <1>3
  <2> HIDE DEF n, r
  <2>3. IF r = Nil THEN Cardinality(D) <= i + 1
        ELSE r \in D /\ Cardinality(Behind(D, s, r)) = i + 1
    <3>1. CASE n = Nil
      BY <3>1, <2>1, <2>2, FS_CardinalityType
    <3>2. CASE n # Nil
      <4>1. n \in D /\ Cardinality(B) = i /\ IsFiniteSet(B) /\ n \notin B
        <5>1. B \subseteq D
          BY DEF Behind
        <5>2. n \in D /\ Cardinality(B) = i
          BY <3>2, <2>2
        <5>3. n \notin B
          BY <5>2, TowardOrder DEF Behind
        <5> QED BY <5>1, <5>2, <5>3, FS_Subset
      <4>2. Cardinality(B \cup {n}) = i + 1
        <5> HIDE DEF B
        <5>1. Cardinality(B \cup {n}) = Cardinality(B) + 1
          BY <4>1, FS_AddElement
        <5> QED BY <4>1, <5>1
      <4>3. CASE r = Nil
        <5>1. \A a \in D : ~Toward(s, a, n)
          BY <4>3, <3>2, <2>1 DEF IsNext
        <5>2. B \cup {n} = D
          BY <5>1, <4>1, TowardOrder DEF Behind
        <5>3. Cardinality(D) = i + 1
          BY <4>2, <5>2, Zenon
        <5> QED BY <5>3, <4>3
      <4>4. CASE r # Nil
        <5>1. r \in D /\ Toward(s, r, n) /\ \A a \in D \ {r} : Toward(s, a, n) => Toward(s, a, r)
          BY <4>4, <3>2, <2>1 DEF IsNext
        <5>2. ASSUME NEW a \in D PROVE Toward(s, r, a) <=> a = n \/ Toward(s, n, a)
          <6>1. CASE a = r
            BY <6>1, <5>1, <4>1, TowardOrder
          <6>2. CASE a # r
            <7>1. Toward(s, a, n) => Toward(s, a, r)
              BY <5>1, <6>2
            <7>2. ~(Toward(s, a, r) /\ Toward(s, r, a))
              BY <5>1, TowardOrder
            <7>3. a = n \/ Toward(s, a, n) \/ Toward(s, n, a)
              BY <4>1, TowardOrder
            <7>4. Toward(s, r, n) /\ Toward(s, n, a) => Toward(s, r, a)
              BY <4>1, <5>1, TowardOrder
            <7> QED BY <7>1, <7>2, <7>3, <7>4, <5>1
          <6> QED BY <6>1, <6>2
        <5>3. Behind(D, s, r) = B \cup {n}
          BY <5>2, <4>1 DEF Behind
        <5>4. Cardinality(Behind(D, s, r)) = i + 1
          BY <5>3, <4>2, Zenon
        <5> QED BY <5>1, <5>4, <4>4
      <4> QED BY <4>3, <4>4
    <3> QED BY <3>1, <3>2
  <2> QED BY <2>3 DEF n, r
<1>4. \A i \in Nat : i \in Ranked
  <2> HIDE DEF Ranked
  <2> QED BY <1>2, <1>3, Induction
<1> QED BY <1>4

\* Different elements have different ranks, and the ranks of an element on the way to one
\* side and to the other make the number of the other elements.
LEMMA Ranks ==
  ASSUME NEW D, OrderOn(D), IsFiniteSet(D), NEW s \in Sides, NEW a \in D
  PROVE  /\ Cardinality(Behind(D, s, a)) \in Nat /\ Cardinality(D) \in Nat
         /\ Cardinality(Behind(D, s, a)) + Cardinality(Behind(D, Opposite(s), a)) + 1 = Cardinality(D)
         /\ Cardinality(Behind(D, Opposite(s), a)) \in Nat
         /\ \A b \in D : Cardinality(Behind(D, s, a)) = Cardinality(Behind(D, s, b)) => a = b
<1> DEFINE o == Opposite(s)
           A == Behind(D, s, a)
           B == Behind(D, o, a)
<1>1. A \subseteq D /\ B \subseteq D
  BY DEF Behind
<1>2. IsFiniteSet(A) /\ Cardinality(A) \in Nat /\ IsFiniteSet(B) /\ Cardinality(B) \in Nat /\ Cardinality(D) \in Nat
  BY <1>1, FS_Subset, FS_CardinalityType
<1>3. A \cap B = {} /\ a \notin A \cup B /\ D = (A \cup B) \cup {a}
  <2>1. \A x \in D : x \in B <=> Toward(s, x, a)
    BY SidesAre DEF Behind
  <2>2. \A x \in D : x \in A <=> Toward(s, a, x)
    BY DEF Behind
  <2>3. \A x \in D : ~(x \in A /\ x \in B) /\ (x = a \/ x \in A \/ x \in B)
    BY <2>1, <2>2, TowardOrder
  <2>4. a \notin A /\ a \notin B
    BY <2>1, <2>2, TowardOrder
  <2> HIDE DEF A, B
  <2> QED BY <2>3, <2>4, <1>1
<1>4. Cardinality(A) + Cardinality(B) + 1 = Cardinality(D)
  <2> HIDE DEF A, B
  <2>1. Cardinality(A \cup B) = Cardinality(A) + Cardinality(B) - Cardinality(A \cap B) /\ IsFiniteSet(A \cup B)
    BY <1>2, FS_Union
  <2>2. Cardinality(A \cap B) = 0
    BY <1>3, FS_EmptySet
  <2>3. Cardinality((A \cup B) \cup {a}) = Cardinality(A \cup B) + 1
    BY <2>1, <1>3, FS_AddElement
  <2>4. Cardinality(D) = Cardinality(A \cup B) + 1
    BY <2>3, <1>3, Zenon
  <2> QED BY <2>1, <2>2, <2>4, <1>2
<1>5. ASSUME NEW x \in D, NEW y \in D, Toward(s, x, y)
      PROVE  Cardinality(Behind(D, s, x)) # Cardinality(Behind(D, s, y))
  <2>1. Behind(D, s, y) \subseteq Behind(D, s, x) /\ y \in Behind(D, s, x) /\ y \notin Behind(D, s, y)
    BY <1>5, TowardOrder DEF Behind
  <2>2. Behind(D, s, x) \subseteq D
    BY DEF Behind
  <2>3. IsFiniteSet(Behind(D, s, x))
    BY <2>2, FS_Subset
  <2> QED BY <2>1, <2>3, FS_Subset
<1>6. ASSUME NEW b \in D, a # b PROVE Cardinality(A) # Cardinality(Behind(D, s, b))
  <2>1. Toward(s, a, b) \/ Toward(s, b, a)
    BY <1>6, TowardOrder
  <2> QED BY <2>1, <1>5
<1> QED BY <1>2, <1>4, <1>6

\* A walk meets every key once, in order, in both directions, and ends.
THEOREM IterationHolds == Spec => []Iteration
<1>1. Balanced => Iteration
  <2> SUFFICES ASSUME Balanced PROVE Iteration
    OBVIOUS
  <2> DEFINE D == keys
             size == Cardinality(D)
             up == Walk("right")
             down == Walk("left")
  <2>1. PICK sub, bh : Shape(tree, sub) /\ Heights(tree, bh) /\ RedUnder(tree, Nil)
    BY DEF Balanced, Good
  <2>2. /\ Nodes(tree) = D /\ IsFiniteSet(Nodes(tree)) /\ IsFiniteSet(D) /\ OrderOn(D) /\ Nil \notin D
        /\ size \in Nat
    BY KeysOrdered, FS_CardinalityType DEF Balanced, Good
  <2>3. "right" \in Sides /\ "left" \in Sides /\ Opposite("right") = "left"
    BY DEF Sides, Opposite
  <2>4. PICK at : Walks(D, "right", at) /\ up = [i \in 1 .. size + 1 |-> at[i - 1]]
    BY <2>1, <2>2, <2>3, WalkIs
  <2>5. PICK back : Walks(D, "left", back) /\ down = [i \in 1 .. size + 1 |-> back[i - 1]]
    BY <2>1, <2>2, <2>3, WalkIs
  <2> HIDE DEF up, down
  <2>6. \A i \in Nat : IF at[i] = Nil THEN size <= i
                       ELSE at[i] \in D /\ Cardinality(Behind(D, "right", at[i])) = i
    BY <2>2, <2>3, <2>4, WalkRanks
  <2>7. \A i \in Nat : IF back[i] = Nil THEN size <= i
                       ELSE back[i] \in D /\ Cardinality(Behind(D, "left", back[i])) = i
    BY <2>2, <2>3, <2>5, WalkRanks
  <2>8. \A a \in D :
          /\ Cardinality(Behind(D, "right", a)) \in Nat /\ Cardinality(Behind(D, "left", a)) \in Nat
          /\ Cardinality(Behind(D, "right", a)) + Cardinality(Behind(D, "left", a)) + 1 = size
          /\ \A b \in D : Cardinality(Behind(D, "right", a)) = Cardinality(Behind(D, "right", b)) => a = b
    BY <2>2, <2>3, Ranks
  <2> HIDE DEF size
  <2>9. \A i \in Nat : i < size <=> at[i] # Nil
    BY <2>2, <2>6, <2>8
  <2>10. \A i \in Nat : i < size <=> back[i] # Nil
    BY <2>2, <2>7, <2>8
  <2>11. \A i \in 1 .. size : i - 1 \in Nat /\ i - 1 < size /\ i \in 1 .. size + 1
    BY <2>2
  <2>12. Len(up) = size + 1
    BY <2>2, <2>4
  <2>13. up[size + 1] = Nil /\ down[size + 1] = Nil
    <3>1. size + 1 \in 1 .. size + 1 /\ (size + 1) - 1 = size
      BY <2>2
    <3>2. at[size] = Nil /\ back[size] = Nil
      BY <2>2, <2>9, <2>10
    <3> QED BY <3>1, <3>2, <2>4, <2>5
  <2>14. {up[i] : i \in 1 .. size} = D
    <3>1. ASSUME NEW i \in 1 .. size PROVE up[i] \in D
      BY <2>4, <2>6, <2>9, <2>11
    <3>2. ASSUME NEW a \in D PROVE \E i \in 1 .. size : up[i] = a
      <4> DEFINE j == Cardinality(Behind(D, "right", a))
      <4>1. j \in Nat /\ j < size
        BY <2>2, <2>8
      <4>2. at[j] \in D /\ Cardinality(Behind(D, "right", at[j])) = j
        BY <4>1, <2>6, <2>9
      <4>3. at[j] = a
        BY <4>2, <2>8
      <4> HIDE DEF j
      <4>4. j + 1 \in 1 .. size /\ j + 1 \in 1 .. size + 1 /\ (j + 1) - 1 = j
        BY <4>1, <2>2
      <4>5. up[j + 1] = a
        BY <4>3, <4>4, <2>4
      <4> QED BY <4>4, <4>5
    <3> QED BY <3>1, <3>2
  <2>15. ASSUME NEW i \in 1 .. size - 1 PROVE Less(up[i], up[i + 1])
    <3>1. i - 1 \in Nat /\ (i - 1) + 1 = i /\ i \in Nat /\ i < size /\ i - 1 < size
          /\ i \in 1 .. size + 1 /\ i + 1 \in 1 .. size + 1 /\ (i + 1) - 1 = i
      BY <2>2
    <3>2. at[i - 1] # Nil /\ at[i] # Nil
      BY <3>1, <2>9
    <3>3. IsNext(D, "right", at[i - 1], at[(i - 1) + 1])
      BY <3>1, <3>2, <2>4 DEF Walks
    <3>4. Less(at[i - 1], at[i])
      BY <3>1, <3>2, <3>3 DEF IsNext, Toward
    <3> QED BY <3>1, <3>4, <2>4
  <2>16. ASSUME NEW i \in 1 .. size PROVE down[i] = up[size + 1 - i]
    <3> DEFINE x == back[i - 1]
               j == size - i
    <3>1. i - 1 \in Nat /\ i - 1 < size /\ i \in 1 .. size + 1 /\ i \in Nat
      BY <2>2
    <3>2. j \in Nat /\ j < size /\ size + 1 - i \in 1 .. size + 1 /\ (size + 1 - i) - 1 = j
      BY <2>2, <3>1
    <3>3. x \in D /\ Cardinality(Behind(D, "left", x)) = i - 1
      BY <3>1, <2>7, <2>10
    <3>4. Cardinality(Behind(D, "right", x)) = j
      <4> HIDE DEF x
      <4>1. /\ Cardinality(Behind(D, "right", x)) \in Nat
            /\ Cardinality(Behind(D, "right", x)) + Cardinality(Behind(D, "left", x)) + 1 = size
        BY <3>3, <2>8
      <4> QED BY <4>1, <3>1, <3>3, <2>2
    <3>5. at[j] \in D /\ Cardinality(Behind(D, "right", at[j])) = j
      BY <3>2, <2>6, <2>9
    <3> HIDE DEF x, j
    <3>6. at[j] = x
      BY <3>3, <3>4, <3>5, <2>8
    <3> QED BY <3>1, <3>2, <3>6, <2>4, <2>5 DEF x
  <2> QED BY <2>12, <2>13, <2>14, <2>15, <2>16 DEF Iteration, up, down, size
<1> QED BY <1>1, InvariantBalanced, PTL
=============================================================================
