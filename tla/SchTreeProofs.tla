--------------------------- MODULE SchTreeProofs ---------------------------
(***************************************************************************)
(* Proofs about the scheduling tree, for every number of paths and every   *)
(* power of two that the root may be worth; and, as they rest on the same  *)
(* lemmas, about the dispatch that feeds the tree with rates.              *)
(***************************************************************************)
EXTENDS SchTreeSpec, SenderDispatch, WellFoundedInduction, FiniteSetTheorems, TLAPS
-----------------------------------------------------------------------------
(* Induction and recursion over things that have a rank.                   *)

\* A set of naturals that is not empty has a least element.
LEMMA LeastNat ==
  ASSUME NEW T, T \subseteq Nat, T # {}
  PROVE  \E n \in T : \A m \in T : n <= m
<1>1. IsWellFoundedOn(OpToRel(<, Nat), Nat)
  BY NatLessThanWellFounded
<1>2. PICK n \in T : \A m \in T : ~ (<<m, n>> \in OpToRel(<, Nat))
  BY <1>1, WFMin
<1>3. \A m \in T : ~ (m < n)
  BY <1>2 DEF OpToRel
<1>. QED
  BY <1>3

LEMMA RankInduction ==
  ASSUME NEW D, NEW rank \in [D -> Nat], NEW S,
         \A o \in D : (\A n \in D : rank[n] < rank[o] => n \in S) => o \in S
  PROVE  D \subseteq S
<1> DEFINE Bad == {rank[o] : o \in D \ S}
<1>1. SUFFICES ASSUME Bad # {} PROVE FALSE
  OBVIOUS
<1>2. PICK r \in Bad : \A s \in Bad : r <= s
  <2>1. Bad \subseteq Nat
    OBVIOUS
  <2> HIDE DEF Bad
  <2>. QED
    BY <2>1, <1>1, LeastNat
<1>3. PICK o \in D \ S : r = rank[o]
  BY <1>2
<1>4. ASSUME NEW n \in D, rank[n] < rank[o] PROVE n \in S
  BY <1>2, <1>3, <1>4
<1>. QED
  BY <1>3, <1>4

\* A recursive definition that looks only at things of lower rank.
LooksBelow(D, rank, V, G) ==
  /\ \A o \in D : \A f \in [D -> V] : G[o][f] \in V
  /\ \A o \in D : \A f, g \in [D -> V] :
       (\A n \in D : rank[n] < rank[o] => f[n] = g[n]) => G[o][f] = G[o][g]

Solvable(D, V, G) == \E f \in [D -> V] : \A o \in D : f[o] = G[o][f]

LEMMA RecursionHasSolution ==
  ASSUME NEW D, NEW N \in Nat, NEW rank \in [D -> 0 .. N], NEW V, V # {}, NEW G,
         LooksBelow(D, rank, V, G)
  PROVE  Solvable(D, V, G)
<1>. USE DEF LooksBelow
<1> DEFINE Below(k) == \E f \in [D -> V] : \A o \in D : rank[o] < k => f[o] = G[o][f]
           Bad == {k \in Nat : ~ Below(k)}
<1>1. SUFFICES ASSUME ~ Below(N + 1) PROVE FALSE
  <2>1. SUFFICES ASSUME Below(N + 1) PROVE Solvable(D, V, G)
    OBVIOUS
  <2>2. \A o \in D : rank[o] < N + 1
    OBVIOUS
  <2>. QED
    BY <2>1, <2>2 DEF Solvable
<1>2. N + 1 \in Bad
  BY <1>1
<1>3. PICK k \in Bad : \A m \in Bad : k <= m
  <2>1. Bad \subseteq Nat /\ Bad # {}
    BY <1>2
  <2> HIDE DEF Bad
  <2>. QED
    BY <2>1, LeastNat
<1>4. k # 0
  <2>1. PICK v \in V : TRUE
    OBVIOUS
  <2>2. [o \in D |-> v] \in [D -> V]
    BY <2>1
  <2>3. \A o \in D : ~ (rank[o] < 0)
    OBVIOUS
  <2>4. Below(0)
    BY <2>2, <2>3
  <2>. QED
    BY <2>4, <1>3
<1>5. k - 1 \in Nat /\ k \in Nat
  BY <1>3, <1>4
<1>6. PICK f \in [D -> V] : \A o \in D : rank[o] < k - 1 => f[o] = G[o][f]
  <2>1. k - 1 \notin Bad
    <3> HIDE DEF Bad
    <3>. QED
      BY <1>3, <1>5
  <2>. QED
    BY <2>1, <1>5
<1> DEFINE g == [o \in D |-> IF rank[o] < k - 1 THEN f[o] ELSE G[o][f]]
<1>7. g \in [D -> V] /\ \A o \in D : g[o] = IF rank[o] < k - 1 THEN f[o] ELSE G[o][f]
  OBVIOUS
<1> HIDE DEF g
<1>8. ASSUME NEW o \in D, rank[o] < k PROVE g[o] = G[o][g]
  <2>1. \A n \in D : rank[n] < rank[o] => f[n] = g[n]
    BY <1>5, <1>7, <1>8
  <2>2. G[o][f] = G[o][g]
    BY <2>1, <1>7
  <2>3. g[o] = G[o][f]
    BY <1>6, <1>7
  <2>. QED
    BY <2>2, <2>3
<1>9. Below(k)
  BY <1>7, <1>8
<1>. QED
  BY <1>3, <1>9
-----------------------------------------------------------------------------
(* The nodes and what they are worth.                                      *)

Parent(k) == k \div 2

\* The rank of a node seen from the root, and seen from the leaves.
Down == [k \in Node |-> k]
Up == [k \in Node |-> 4 * MaxValue - k]

LEMMA Nodes ==
  /\ MaxValue \in Nat \ {0} /\ Node \subseteq Nat /\ Root \in Node /\ Root = 1
  /\ Down \in [Node -> 0 .. 4 * MaxValue] /\ Up \in [Node -> 0 .. 4 * MaxValue]
  /\ \A k \in Node : k # Root => /\ Parent(k) \in Node /\ Parent(k) < k
                                 /\ k = 2 * Parent(k) \/ k = 2 * Parent(k) + 1
                                 /\ k % 2 = 0 => k = 2 * Parent(k)
                                 /\ k % 2 # 0 => k = 2 * Parent(k) + 1 /\ k - 1 = 2 * Parent(k)
  /\ \A k \in Nat : Parent(2 * k) = k /\ Parent(2 * k + 1) = k
                    /\ (2 * k) % 2 = 0 /\ (2 * k + 1) % 2 = 1
BY SchTreeAssumption DEF Node, Root, Down, Up, Parent

\* What holds of a node if it holds of its parent, and if it holds of its children.
LEMMA FromTheRoot ==
  ASSUME NEW S, \A k \in Node : (k # Root => Parent(k) \in S) => k \in S
  PROVE  \A k \in Node : k \in S
<1>1. \A k \in Node : k # Root => Parent(k) \in Node /\ Down[Parent(k)] < Down[k]
  BY Nodes DEF Down
<1>2. Down \in [Node -> Nat]
  BY Nodes DEF Down
<1>3. \A k \in Node : (\A n \in Node : Down[n] < Down[k] => n \in S) => k \in S
  BY <1>1
<1>. QED
  BY <1>2, <1>3, RankInduction

LEMMA FromTheLeaves ==
  ASSUME NEW S,
         \A k \in Node : (\A c \in {2 * k, 2 * k + 1} : c \in Node => c \in S) => k \in S
  PROVE  \A k \in Node : k \in S
<1>1. \A k \in Node : \A c \in {2 * k, 2 * k + 1} : c \in Node => Up[c] < Up[k]
  BY Nodes DEF Up
<1>2. Up \in [Node -> Nat]
  BY Nodes DEF Up
<1>3. \A k \in Node : (\A n \in Node : Up[n] < Up[k] => n \in S) => k \in S
  BY <1>1
<1>. QED
  BY <1>2, <1>3, RankInduction

\* Recursive definitions over the nodes: from the root, and from the leaves.
LEMMA RootRecursion ==
  ASSUME NEW V, V # {}, NEW G, \A k \in Node : \A f \in [Node -> V] : G[k][f] \in V,
         \A k \in Node : \A f, g \in [Node -> V] :
           (k # Root => f[Parent(k)] = g[Parent(k)]) => G[k][f] = G[k][g]
  PROVE  Solvable(Node, V, G)
<1>1. \A k \in Node : k # Root => Parent(k) \in Node /\ Down[Parent(k)] < Down[k]
  BY Nodes DEF Down
<1>2. \A k \in Node : \A f, g \in [Node -> V] :
        (\A n \in Node : Down[n] < Down[k] => f[n] = g[n]) => G[k][f] = G[k][g]
  BY <1>1
<1>3. LooksBelow(Node, Down, V, G)
  BY <1>2 DEF LooksBelow
<1>4. 4 * MaxValue \in Nat /\ Down \in [Node -> 0 .. 4 * MaxValue]
  BY Nodes
<1>. QED
  BY <1>3, <1>4, RecursionHasSolution

LEMMA LeafRecursion ==
  ASSUME NEW V, V # {}, NEW G, \A k \in Node : \A f \in [Node -> V] : G[k][f] \in V,
         \A k \in Node : \A f, g \in [Node -> V] :
           (\A c \in {2 * k, 2 * k + 1} : c \in Node => f[c] = g[c]) => G[k][f] = G[k][g]
  PROVE  Solvable(Node, V, G)
<1>1. \A k \in Node : \A c \in {2 * k, 2 * k + 1} : c \in Node => Up[c] < Up[k]
  BY Nodes, SMTT(40) DEF Up
<1>2. \A k \in Node : \A f, g \in [Node -> V] :
        (\A n \in Node : Up[n] < Up[k] => f[n] = g[n]) => G[k][f] = G[k][g]
  BY <1>1
<1>3. LooksBelow(Node, Up, V, G)
  BY <1>2 DEF LooksBelow
<1>4. 4 * MaxValue \in Nat /\ Up \in [Node -> 0 .. 4 * MaxValue]
  BY Nodes
<1>. QED
  BY <1>3, <1>4, RecursionHasSolution

LEMMA LevelValueIs ==
  /\ LevelValue \in [Node -> Nat] /\ LevelValue[Root] = MaxValue
  /\ \A k \in Node : k # Root => LevelValue[k] = LevelValue[Parent(k)] \div 2
<1> DEFINE value(k, f) == IF k = Root THEN MaxValue ELSE f[k \div 2] \div 2
           G == [k \in Node |-> [f \in [Node -> Nat] |-> value(k, f)]]
           body(f) == [k \in Node |-> value(k, f)]
<1>1. \A k \in Node : \A f \in [Node -> Nat] : G[k][f] = value(k, f)
  OBVIOUS
<1>2. \A k \in Node : \A f \in [Node -> Nat] : value(k, f) \in Nat
  BY Nodes DEF Parent
<1>3. \A k \in Node : \A f, g \in [Node -> Nat] :
        (k # Root => f[Parent(k)] = g[Parent(k)]) => value(k, f) = value(k, g)
  BY DEF Parent
<1>4. Solvable(Node, Nat, G)
  <2> HIDE DEF value, G
  <2>1. \A k \in Node : \A f \in [Node -> Nat] : G[k][f] \in Nat
    BY <1>1, <1>2
  <2>2. \A k \in Node : \A f, g \in [Node -> Nat] :
          (k # Root => f[Parent(k)] = g[Parent(k)]) => G[k][f] = G[k][g]
    BY <1>1, <1>3
  <2>3. Nat # {}
    BY Nodes
  <2>. QED
    BY <2>1, <2>2, <2>3, RootRecursion
<1>5. \E f : f = body(f)
  <2>1. PICK f \in [Node -> Nat] : \A k \in Node : f[k] = G[k][f]
    BY <1>4 DEF Solvable
  <2>2. f = body(f)
    BY <1>1, <2>1
  <2>. QED
    BY <2>2
<1>6. LevelValue = body(LevelValue)
  BY <1>5 DEF LevelValue
<1>7. \A k \in Node : LevelValue[k] = value(k, LevelValue)
  <2>1. \A k \in Node : body(LevelValue)[k] = value(k, LevelValue)
    OBVIOUS
  <2> HIDE DEF value, body
  <2>. QED
    BY <1>6, <2>1
<1> DEFINE S == {k \in Node : LevelValue[k] \in Nat}
<1>8. \A k \in Node : k \in S
  <2>1. \A k \in Node : (k # Root => Parent(k) \in S) => k \in S
    BY <1>7, Nodes DEF Parent
  <2> HIDE DEF S
  <2>. QED
    BY <2>1, FromTheRoot
<1>9. LevelValue \in [Node -> Nat]
  <2>1. LevelValue = [k \in Node |-> value(k, LevelValue)]
    BY <1>6
  <2> HIDE DEF value
  <2>2. LevelValue = [k \in Node |-> LevelValue[k]]
    BY <1>7, <2>1
  <2>. QED
    BY <1>8, <2>2
<1>. QED
  BY <1>7, <1>9, Nodes DEF Parent

\* In how many draws a node is reached once: it doubles at every level.
Weight == CHOOSE w \in [Node -> Nat] :
            \A k \in Node : w[k] = IF k = Root THEN 1 ELSE 2 * w[Parent(k)]

LEMMA WeightIs ==
  /\ Weight \in [Node -> Nat]
  /\ Weight[Root] = 1 /\ \A k \in Node : k # Root => Weight[k] = 2 * Weight[Parent(k)]
  /\ \A k \in Node : Weight[k] >= 1 /\ k < 2 * Weight[k]
<1> DEFINE value(k, f) == IF k = Root THEN 1 ELSE 2 * f[Parent(k)]
           G == [k \in Node |-> [f \in [Node -> Nat] |-> value(k, f)]]
<1>1. \A k \in Node : \A f \in [Node -> Nat] : G[k][f] = value(k, f)
  <2> HIDE DEF value
  <2>. QED
    OBVIOUS
<1>2. ASSUME NEW k \in Node, NEW f \in [Node -> Nat] PROVE value(k, f) \in Nat
  <2>1. k # Root => Parent(k) \in Node
    BY Nodes
  <2>2. k # Root => f[Parent(k)] \in Nat
    BY <2>1
  <2>. QED
    BY <2>2
<1>3. \A k \in Node : \A f, g \in [Node -> Nat] :
        (k # Root => f[Parent(k)] = g[Parent(k)]) => value(k, f) = value(k, g)
  OBVIOUS
<1>4. Solvable(Node, Nat, G)
  <2> HIDE DEF value, G
  <2>1. \A k \in Node : \A f \in [Node -> Nat] : G[k][f] \in Nat
    BY <1>1, <1>2
  <2>2. \A k \in Node : \A f, g \in [Node -> Nat] :
          (k # Root => f[Parent(k)] = g[Parent(k)]) => G[k][f] = G[k][g]
    BY <1>1, <1>3
  <2>3. Nat # {}
    BY Nodes
  <2>. QED
    BY <2>1, <2>2, <2>3, RootRecursion
<1>5. \E f \in [Node -> Nat] : \A k \in Node : f[k] = value(k, f)
  <2> HIDE DEF value, G
  <2>. QED
    BY <1>1, <1>4 DEF Solvable
<1>6. Weight \in [Node -> Nat] /\ \A k \in Node : Weight[k] = value(k, Weight)
  BY <1>5 DEF Weight
<1> DEFINE S == {k \in Node : Weight[k] >= 1 /\ k < 2 * Weight[k]}
<1>7. \A k \in Node : k \in S
  <2>1. ASSUME NEW k \in Node, k # Root => Parent(k) \in S PROVE k \in S
    <3>1. CASE k = Root
      BY <1>6, <3>1, Nodes
    <3>2. CASE k # Root
      <4>1. /\ Parent(k) \in Nat /\ k \in Nat /\ Weight[Parent(k)] \in Nat
            /\ k = 2 * Parent(k) \/ k = 2 * Parent(k) + 1
            /\ Parent(k) < 2 * Weight[Parent(k)] /\ Weight[Parent(k)] >= 1
        <5>1. /\ Parent(k) \in Node /\ Parent(k) \in Nat /\ k \in Nat
              /\ k = 2 * Parent(k) \/ k = 2 * Parent(k) + 1
          BY <3>2, Nodes
        <5>2. Parent(k) < 2 * Weight[Parent(k)] /\ Weight[Parent(k)] >= 1
          BY <2>1, <3>2
        <5> HIDE DEF value
        <5>. QED
          BY <1>6, <5>1, <5>2
      <4>2. Weight[k] = 2 * Weight[Parent(k)]
        BY <1>6, <3>2
      <4>. QED
        BY <4>1, <4>2, Nodes
    <3>. QED
      BY <3>1, <3>2
  <2> HIDE DEF S
  <2>. QED
    BY <2>1, FromTheRoot
<1>. QED
  BY <1>6, <1>7, Nodes

\* A product of naturals that are not 0 is no less than either.
LEMMA Products ==
  ASSUME NEW w \in Nat, NEW v \in Nat
  PROVE  /\ (2 * w) * v = w * (2 * v)
         /\ w >= 1 /\ v >= 1 => w * v \in Nat /\ w <= w * v /\ v <= w * v
OBVIOUS

\* Level by level a node is worth half as much, down to the units, and below
\* them nothing; a node that is worth anything has children among the nodes.
LEMMA LevelsHalve ==
  ASSUME NEW k \in Node
  PROVE  /\ LevelValue[k] \in Nat
         /\ LevelValue[k] >= 1 => /\ Weight[k] * LevelValue[k] = MaxValue
                                  /\ LevelValue[k] = 1 \/ LevelValue[k] % 2 = 0
                                  /\ 2 * k \in Node /\ 2 * k + 1 \in Node
<1> DEFINE S == {n \in Node : LevelValue[n] >= 1 => Weight[n] * LevelValue[n] = MaxValue}
<1>0. LevelValue \in [Node -> Nat] /\ Weight \in [Node -> Nat] /\ \A n \in Node : Weight[n] >= 1
  BY LevelValueIs, WeightIs
<1>1. ASSUME NEW n \in Node, LevelValue[n] >= 1, Weight[n] * LevelValue[n] = MaxValue
      PROVE  /\ Weight[n] <= MaxValue
             /\ LevelValue[n] = 1 \/ LevelValue[n] % 2 = 0
  <2>1. Weight[n] \in 1 .. MaxValue /\ LevelValue[n] \in 1 .. MaxValue
    BY <1>0, <1>1, Products
  <2> DEFINE c == Weight[n]
             d == LevelValue[n]
  <2>2. c \in 1 .. MaxValue /\ d \in 1 .. MaxValue /\ c * d = MaxValue
    BY <1>1, <2>1
  <2> HIDE DEF c, d
  <2>3. d > 1 => d % 2 = 0
    BY <2>2, SchTreeAssumption
  <2>4. c <= MaxValue /\ (d = 1 \/ d % 2 = 0)
    BY <2>2, <2>3
  <2>. QED
    BY <2>4 DEF c, d
<1>2. ASSUME NEW n \in Node, n # Root => Parent(n) \in S PROVE n \in S
  <2>1. CASE n = Root
    BY <2>1, LevelValueIs, WeightIs, Nodes
  <2>2. CASE n # Root /\ LevelValue[n] >= 1
    <3>1. Parent(n) \in Node /\ LevelValue[n] = LevelValue[Parent(n)] \div 2
          /\ Weight[n] = 2 * Weight[Parent(n)]
      BY <2>2, LevelValueIs, WeightIs, Nodes
    <3>2. LevelValue[Parent(n)] >= 2
      BY <1>0, <2>2, <3>1
    <3>3. LevelValue[Parent(n)] % 2 = 0 /\ Weight[Parent(n)] * LevelValue[Parent(n)] = MaxValue
      BY <1>0, <1>1, <1>2, <2>2, <3>1, <3>2
    <3>4. LevelValue[Parent(n)] = 2 * LevelValue[n]
      BY <1>0, <3>1, <3>3
    <3>. QED
      BY <1>0, <3>1, <3>3, <3>4, Products
  <2>. QED
    BY <2>1, <2>2
<1>3. \A n \in Node : n \in S
  <2> HIDE DEF S
  <2>. QED
    BY <1>2, FromTheRoot
<1>4. LevelValue[k] >= 1 => Weight[k] <= MaxValue /\ (LevelValue[k] = 1 \/ LevelValue[k] % 2 = 0)
  BY <1>1, <1>3
<1>5. Weight[k] <= MaxValue => 2 * k \in Node /\ 2 * k + 1 \in Node
  <2>1. k \in Nat /\ k >= 1 /\ Weight[k] \in Nat /\ k < 2 * Weight[k] /\ MaxValue \in Nat
    BY <1>0, WeightIs, SchTreeAssumption DEF Node
  <2>. QED
    BY <2>1 DEF Node
<1>. QED
  BY <1>0, <1>3, <1>4, <1>5
-----------------------------------------------------------------------------
(* The walk.                                                               *)

NodeRecords == [path : Path \cup {NoPath}, next : 0 .. 8 * MaxValue]
Trees == UNION {[S -> NodeRecords] : S \in SUBSET Node}

LEMMA TreeIs ==
  /\ \A t \in Trees : /\ DOMAIN t \subseteq Node /\ t = [k \in DOMAIN t |-> t[k]]
                      /\ \A k \in DOMAIN t : t[k] \in NodeRecords
  /\ \A t : \A S \in SUBSET Node : t \in [S -> NodeRecords] => t \in Trees
BY DEF Trees

\* A leaf has a path and a node with a child has none; children have a parent,
\* and the left one is the first to come.
Shaped(t) ==
  \A k \in DOMAIN t : /\ k # Root => Parent(k) \in DOMAIN t /\ ~ Owned(t, Parent(k))
                      /\ t[k].next \in {NoNode, 2 * k, 2 * k + 1}
                      /\ Owned(t, k) \/ 2 * k \in DOMAIN t

\* Every node that has no path has both children.
Full(t) == \A k \in DOMAIN t : Owned(t, k) \/ {2 * k, 2 * k + 1} \subseteq DOMAIN t

LEMMA ChildrenAre ==
  ASSUME NEW t \in Trees, NEW k \in Node
  PROVE  /\ LeftOf(t, k) = IF 2 * k \in DOMAIN t THEN 2 * k ELSE 0
         /\ RightOf(t, k) = IF 2 * k + 1 \in DOMAIN t THEN 2 * k + 1 ELSE 0
         /\ Childless(t, k) <=> 2 * k \notin DOMAIN t /\ 2 * k + 1 \notin DOMAIN t
         /\ k \in Nat /\ k >= 1
         /\ Turn(t, k) = IF t[k].next = LeftOf(t, k) THEN RightOf(t, k) ELSE LeftOf(t, k)
         /\ Turn(t, k) # 0 => /\ Turn(t, k) \in {2 * k, 2 * k + 1} \cap DOMAIN t
                              /\ Turn(t, k) \in Node /\ Turn(t, k) > k /\ Parent(Turn(t, k)) = k
<1>1. k \in Nat /\ k >= 1
  BY DEF Node
<1>2. DOMAIN t \subseteq Node
  BY TreeIs
<1>3. Parent(2 * k) = k /\ Parent(2 * k + 1) = k
  BY <1>1, Nodes
<1>. QED
  BY <1>1, <1>2, <1>3 DEF LeftOf, RightOf, Childless, Turn, NoNode

LEMMA ReachedIs ==
  ASSUME NEW t \in Trees
  PROVE  /\ Reached(t) \in [Node -> BOOLEAN]
         /\ \A k \in Node : Reached(t)[k] <=>
              k \in DOMAIN t /\ (k = Root \/ (Reached(t)[Parent(k)] /\ Turn(t, Parent(k)) = k))
<1> DEFINE value(k, f) == k \in DOMAIN t /\ (k = Root \/ (f[k \div 2] /\ Turn(t, k \div 2) = k))
           G == [k \in Node |-> [f \in [Node -> BOOLEAN] |-> value(k, f)]]
           body(f) == [k \in Node |-> value(k, f)]
           reached == CHOOSE f : f = body(f)
<1>1. \A k \in Node : \A f \in [Node -> BOOLEAN] : G[k][f] = value(k, f)
  OBVIOUS
<1>2. \A k \in Node : \A f : value(k, f) \in BOOLEAN
  OBVIOUS
<1>3. \A k \in Node : \A f, g \in [Node -> BOOLEAN] :
        (k # Root => f[Parent(k)] = g[Parent(k)]) => value(k, f) = value(k, g)
  BY DEF Parent
<1>4. PICK f \in [Node -> BOOLEAN] : \A k \in Node : f[k] = G[k][f]
  <2> HIDE DEF value, G
  <2>1. \A k \in Node : \A f \in [Node -> BOOLEAN] : G[k][f] \in BOOLEAN
    BY <1>1, <1>2
  <2>2. \A k \in Node : \A f, g \in [Node -> BOOLEAN] :
          (k # Root => f[Parent(k)] = g[Parent(k)]) => G[k][f] = G[k][g]
    BY <1>1, <1>3
  <2>3. Solvable(Node, BOOLEAN, G)
    BY <2>1, <2>2, RootRecursion
  <2>. QED
    BY <2>3 DEF Solvable
<1>5. f = body(f)
  <2>1. \A k \in Node : f[k] = value(k, f)
    BY <1>1, <1>4
  <2> HIDE DEF value, G
  <2>. QED
    BY <2>1
<1>6. reached = body(reached)
  <2> HIDE DEF body
  <2>. QED
    BY <1>5
<1>7. Reached(t) = reached
  BY DEF Reached
<1> HIDE DEF reached
<1>8. reached \in [Node -> BOOLEAN]
  <2>1. body(reached) \in [Node -> BOOLEAN]
    BY <1>2
  <2> HIDE DEF body
  <2>. QED
    BY <1>6, <2>1
<1>9. \A k \in Node : reached[k] = value(k, reached)
  <2>1. \A k \in Node : body(reached)[k] = value(k, reached)
    OBVIOUS
  <2> HIDE DEF value, body
  <2>. QED
    BY <1>6, <2>1
<1>. QED
  BY <1>7, <1>8, <1>9 DEF Parent
\* The nodes that are reached follow one another: of two of them the one nearer
\* to the root turns, and not beyond the other.
LEMMA ReachedInTurn ==
  ASSUME NEW t \in Trees, NEW a \in Node, NEW b \in Node, b < a, Reached(t)[a], Reached(t)[b]
  PROVE  Turn(t, b) # 0 /\ Turn(t, b) <= a
<1> DEFINE Good(n) == \A m \in Node : m < n /\ Reached(t)[n] /\ Reached(t)[m] =>
                                       Turn(t, m) # 0 /\ Turn(t, m) <= n
           S == {n \in Node : Good(n)}
<1>1. ASSUME NEW n \in Node, \A o \in Node : o < n => Good(o),
             NEW m \in Node, m < n, Reached(t)[n], Reached(t)[m]
      PROVE  Turn(t, m) # 0 /\ Turn(t, m) <= n
  <2>1. n \in Nat /\ m \in Nat /\ n # 0 /\ n # Root
    <3>1. n \in Nat /\ m \in Nat /\ m >= 1
      BY ChildrenAre
    <3>. QED
      BY <1>1, <3>1 DEF Root
  <2>2. Parent(n) \in Node /\ Parent(n) < n /\ Parent(n) \in Nat
    BY <2>1, Nodes
  <2>3. Reached(t)[Parent(n)] /\ Turn(t, Parent(n)) = n
    BY <1>1, <2>1, ReachedIs
  <2>4. CASE Parent(n) = m
    BY <2>1, <2>3, <2>4
  <2>5. CASE m < Parent(n)
    <3>1. Turn(t, m) # 0 /\ Turn(t, m) <= Parent(n)
      BY <1>1, <2>2, <2>3, <2>5
    <3>2. Turn(t, m) \in Nat
      BY <3>1, ChildrenAre, Nodes
    <3>. QED
      BY <2>1, <2>2, <3>1, <3>2
  <2>6. CASE Parent(n) < m
    <3>1. Turn(t, Parent(n)) <= m
      BY <1>1, <2>2, <2>3, <2>6
    <3>. QED
      BY <1>1, <2>1, <2>3, <3>1
  <2>. QED
    BY <2>1, <2>2, <2>4, <2>5, <2>6
<1>2. \A n \in Node : (\A o \in Node : Down[o] < Down[n] => o \in S) => n \in S
  <2>1. \A n \in Node : (\A o \in Node : o < n => o \in S) => n \in S
    BY <1>1
  <2> HIDE DEF S
  <2>. QED
    BY <2>1 DEF Down
<1>3. Down \in [Node -> Nat]
  BY Nodes DEF Down
<1>4. Node \subseteq S
  <2> HIDE DEF S
  <2>. QED
    BY <1>2, <1>3, RankInduction
<1>. QED
  BY <1>4

\* A tree that is not empty has a root.
LEMMA HasRoot ==
  ASSUME NEW t \in Trees, Shaped(t), DOMAIN t # {}
  PROVE  Root \in DOMAIN t
<1>1. DOMAIN t \subseteq Nat
  BY TreeIs, Nodes
<1>2. PICK k \in DOMAIN t : \A m \in DOMAIN t : k <= m
  BY <1>1, LeastNat
<1>3. k \in Node /\ k \in Nat
  BY <1>1, TreeIs
<1>4. CASE k # Root
  <2>1. Parent(k) \in DOMAIN t /\ Parent(k) < k
    BY <1>3, <1>4, Nodes DEF Shaped
  <2>. QED
    BY <1>1, <1>2, <2>1
<1>. QED
  BY <1>4

\* The walk ends at one node, and in a full tree at a leaf that has a path.
LEMMA EndsAtOne ==
  ASSUME NEW t \in Trees, NEW k \in DOMAIN t, Reached(t)[k], Childless(t, k)
  PROVE  Selected(t) = k
<1>1. DOMAIN t \subseteq Node
  BY TreeIs
<1>2. ASSUME NEW a \in DOMAIN t, NEW b \in DOMAIN t, b < a, Reached(t)[a], Reached(t)[b],
             Childless(t, b)
      PROVE  FALSE
  <2>1. a \in Node /\ b \in Node
    BY <1>1
  <2>2. Turn(t, b) # 0
    BY <1>2, <2>1, ReachedInTurn
  <2>. QED
    BY <1>2, <2>1, <2>2, ChildrenAre
<1> DEFINE ends == {n \in DOMAIN t : Reached(t)[n] /\ Childless(t, n)}
<1>3. \A n \in ends : n = k
  <2>1. \A n \in ends : n \in DOMAIN t /\ Reached(t)[n] /\ Childless(t, n)
    OBVIOUS
  <2>2. \A n \in DOMAIN t : n \in Nat
    BY <1>1, Nodes
  <2>3. \A n \in ends : ~ (n < k) /\ ~ (k < n)
    BY <1>2, <2>1
  <2>4. k \in Nat /\ \A n \in ends : n \in Nat
    BY <2>1, <2>2
  <2>. QED
    BY <2>3, <2>4
<1>4. k \in ends
  OBVIOUS
<1>5. ends = {k}
  BY <1>3, <1>4
<1>6. Selected(t) = IF ends = {} THEN NoNode ELSE CHOOSE n \in ends : TRUE
  BY DEF Selected
<1> HIDE DEF ends
<1>. QED
  BY <1>5, <1>6

LEMMA EndsAtALeaf ==
  ASSUME NEW t \in Trees, Shaped(t), Full(t), DOMAIN t # {}
  PROVE  /\ Selected(t) \in DOMAIN t /\ Reached(t)[Selected(t)] /\ Childless(t, Selected(t))
         /\ Selected(t) # NoNode /\ Owned(t, Selected(t))
<1> DEFINE R == {k \in DOMAIN t : Reached(t)[k]}
           H == {4 * MaxValue - k : k \in R}
<1>1. DOMAIN t \subseteq Node /\ \A k \in Node : k \in Nat /\ k >= 1 /\ k <= 4 * MaxValue /\ MaxValue \in Nat
  BY TreeIs, SchTreeAssumption DEF Node
<1>2. Root \in R
  BY HasRoot, Nodes, ReachedIs
<1>3. PICK k \in R : \A m \in R : m <= k
  <2>1. H \subseteq Nat /\ H # {}
    BY <1>1, <1>2
  <2>2. PICK h \in H : \A g \in H : h <= g
    <3> HIDE DEF H
    <3>. QED
      BY <2>1, LeastNat
  <2>3. PICK k \in R : h = 4 * MaxValue - k
    BY <2>2
  <2>4. \A m \in R : h <= 4 * MaxValue - m /\ m \in Nat /\ k \in Nat /\ MaxValue \in Nat
    BY <1>1, <2>2
  <2>5. \A m \in R : m <= k
    BY <2>3, <2>4
  <2>. QED
    BY <2>5
<1>4. k \in Node /\ k \in DOMAIN t /\ Reached(t)[k]
  BY <1>1
<1>5. Turn(t, k) = 0
  <2>1. SUFFICES ASSUME Turn(t, k) # 0 PROVE FALSE
    OBVIOUS
  <2>2. /\ Turn(t, k) \in DOMAIN t /\ Turn(t, k) \in Node /\ Turn(t, k) > k
        /\ Parent(Turn(t, k)) = k
    BY <1>4, <2>1, ChildrenAre
  <2>3. Reached(t)[Turn(t, k)]
    BY <1>4, <2>2, ReachedIs
  <2>4. Turn(t, k) <= k /\ Turn(t, k) \in Nat /\ k \in Nat
    BY <1>1, <1>3, <1>4, <2>2, <2>3
  <2>. QED
    BY <2>2, <2>4
<1>6. Owned(t, k)
  <2>1. 2 * k \notin DOMAIN t \/ 2 * k + 1 \notin DOMAIN t
    BY <1>4, <1>5, ChildrenAre
  <2>. QED
    BY <1>4, <2>1 DEF Full
<1>7. Childless(t, k)
  <2>1. SUFFICES ASSUME NEW c \in {2 * k, 2 * k + 1}, c \in DOMAIN t PROVE FALSE
    BY <1>4, ChildrenAre
  <2>2. c # Root /\ Parent(c) = k
    <3>1. k \in Nat /\ k >= 1
      BY <1>4, ChildrenAre
    <3>2. Parent(c) = k
      BY <2>1, <3>1, Nodes
    <3>. QED
      BY <2>1, <3>1, <3>2 DEF Root
  <2>. QED
    BY <1>6, <2>1, <2>2 DEF Shaped
<1>8. Selected(t) = k
  BY <1>4, <1>7, EndsAtOne
<1>. QED
  BY <1>1, <1>4, <1>6, <1>7, <1>8 DEF NoNode
-----------------------------------------------------------------------------
(* The draws: when a node is reached again.                                *)

\* How many draws pass a node by before one reaches it: a parent that turns to
\* the other side first takes as many draws more as it is reached in.
Wait(t) == CHOOSE w \in [Node -> Nat] :
  \A k \in Node : w[k] = IF k = Root THEN 0
                         ELSE w[Parent(k)] + (IF Turn(t, Parent(k)) = k THEN 0 ELSE Weight[Parent(k)])

LEMMA WaitIs ==
  ASSUME NEW t
  PROVE  /\ Wait(t) \in [Node -> Nat] /\ Wait(t)[Root] = 0
         /\ \A k \in Node : k # Root => Wait(t)[k] =
              Wait(t)[Parent(k)] + (IF Turn(t, Parent(k)) = k THEN 0 ELSE Weight[Parent(k)])
         /\ \A k \in Node : Wait(t)[k] < Weight[k]
<1> DEFINE value(k, f) == IF k = Root THEN 0
                          ELSE f[Parent(k)] + (IF Turn(t, Parent(k)) = k THEN 0 ELSE Weight[Parent(k)])
           G == [k \in Node |-> [f \in [Node -> Nat] |-> value(k, f)]]
<1>1. \A k \in Node : \A f \in [Node -> Nat] : G[k][f] = value(k, f)
  <2> HIDE DEF value
  <2>. QED
    OBVIOUS
<1>2. ASSUME NEW k \in Node, NEW f \in [Node -> Nat] PROVE value(k, f) \in Nat
  <2>1. k # Root => Parent(k) \in Node
    BY Nodes
  <2>2. k # Root => f[Parent(k)] \in Nat /\ Weight[Parent(k)] \in Nat
    BY <2>1, WeightIs
  <2>. QED
    BY <2>2
<1>3. \A k \in Node : \A f, g \in [Node -> Nat] :
        (k # Root => f[Parent(k)] = g[Parent(k)]) => value(k, f) = value(k, g)
  OBVIOUS
<1>4. \E f \in [Node -> Nat] : \A k \in Node : f[k] = value(k, f)
  <2> HIDE DEF value, G
  <2>1. \A k \in Node : \A f \in [Node -> Nat] : G[k][f] \in Nat
    BY <1>1, <1>2
  <2>2. \A k \in Node : \A f, g \in [Node -> Nat] :
          (k # Root => f[Parent(k)] = g[Parent(k)]) => G[k][f] = G[k][g]
    BY <1>1, <1>3
  <2>3. Nat # {}
    BY Nodes
  <2>4. Solvable(Node, Nat, G)
    BY <2>1, <2>2, <2>3, RootRecursion
  <2>. QED
    BY <1>1, <2>4 DEF Solvable
<1>5. Wait(t) \in [Node -> Nat] /\ \A k \in Node : Wait(t)[k] = value(k, Wait(t))
  BY <1>4 DEF Wait
<1> DEFINE S == {k \in Node : Wait(t)[k] < Weight[k]}
<1>6. \A k \in Node : k \in S
  <2>1. ASSUME NEW k \in Node, k # Root => Parent(k) \in S PROVE k \in S
    <3>1. CASE k = Root
      BY <1>5, <3>1, WeightIs
    <3>2. CASE k # Root
      <4>1. Parent(k) \in Node /\ Weight[k] = 2 * Weight[Parent(k)]
        BY <3>2, Nodes, WeightIs
      <4>2. Wait(t)[Parent(k)] < Weight[Parent(k)]
        BY <2>1, <3>2
      <4>3. Wait(t)[Parent(k)] \in Nat /\ Weight[Parent(k)] \in Nat
        BY <1>5, <4>1, WeightIs
      <4>4. Wait(t)[k] \in {Wait(t)[Parent(k)], Wait(t)[Parent(k)] + Weight[Parent(k)]}
        BY <1>5, <3>2, <4>3
      <4>5. Wait(t)[k] < Weight[k]
        BY <4>1, <4>2, <4>3, <4>4
      <4>. QED
        BY <4>5
    <3>. QED
      BY <3>1, <3>2
  <2> HIDE DEF S
  <2>. QED
    BY <2>1, FromTheRoot
<1>7. Root \in Node
  BY Nodes
<1>. QED
  BY <1>5, <1>6, <1>7

\* A draw reaches the nodes whose wait is over.
LEMMA ReachedAfterWait ==
  ASSUME NEW t \in Trees, Shaped(t), NEW k \in DOMAIN t
  PROVE  Reached(t)[k] <=> Wait(t)[k] = 0
<1> DEFINE S == {n \in Node : n \in DOMAIN t => (Reached(t)[n] <=> Wait(t)[n] = 0)}
<1>1. ASSUME NEW n \in Node, n # Root => Parent(n) \in S PROVE n \in S
  <2>1. CASE n \notin DOMAIN t
    BY <2>1
  <2>2. CASE n = Root
    BY <2>2, ReachedIs, WaitIs
  <2>3. CASE n \in DOMAIN t /\ n # Root
    <3>1. Parent(n) \in DOMAIN t /\ Parent(n) \in Node
      BY <2>3, Nodes DEF Shaped
    <3>2. Reached(t)[Parent(n)] <=> Wait(t)[Parent(n)] = 0
      BY <1>1, <2>3, <3>1
    <3>3. Reached(t)[n] <=> Reached(t)[Parent(n)] /\ Turn(t, Parent(n)) = n
      BY <2>3, ReachedIs
    <3>4. /\ Wait(t)[Parent(n)] \in Nat /\ Weight[Parent(n)] \in Nat /\ Weight[Parent(n)] >= 1
          /\ Wait(t)[n] = Wait(t)[Parent(n)] +
                            (IF Turn(t, Parent(n)) = n THEN 0 ELSE Weight[Parent(n)])
      BY <2>3, <3>1, WaitIs, WeightIs
    <3>5. Wait(t)[n] = 0 <=> Wait(t)[Parent(n)] = 0 /\ Turn(t, Parent(n)) = n
      BY <3>4
    <3>. QED
      BY <3>2, <3>3, <3>5
  <2>. QED
    BY <2>1, <2>2, <2>3
<1>2. \A n \in Node : n \in S
  <2> HIDE DEF S
  <2>. QED
    BY <1>1, FromTheRoot
<1>. QED
  BY <1>2, TreeIs

\* What a draw leaves of the tree.
LEMMA DrawnTree ==
  ASSUME NEW t \in Trees, Shaped(t), NEW u, u = TurnedTree(t)
  PROVE  /\ u \in Trees /\ DOMAIN u = DOMAIN t /\ Shaped(u)
         /\ Full(t) => Full(u)
         /\ \A k \in DOMAIN t : /\ u[k].path = t[k].path
                                /\ u[k].next = IF Reached(t)[k] /\ ~ Childless(t, k)
                                              THEN Turn(t, k) ELSE t[k].next
         /\ \A k : LeftOf(u, k) = LeftOf(t, k) /\ RightOf(u, k) = RightOf(t, k)
                  /\ Childless(u, k) = Childless(t, k) /\ Owned(u, k) = Owned(t, k)
<1>1. /\ DOMAIN t \subseteq Node /\ DOMAIN u = DOMAIN t
      /\ \A k \in DOMAIN t : t[k] \in NodeRecords /\ k \in Nat
  BY TreeIs, Nodes DEF TurnedTree
<1>2. ASSUME NEW k \in DOMAIN t
      PROVE  /\ u[k] \in NodeRecords /\ u[k].path = t[k].path
             /\ u[k].next = IF Reached(t)[k] /\ ~ Childless(t, k) THEN Turn(t, k) ELSE t[k].next
             /\ u[k].next \in {NoNode, 2 * k, 2 * k + 1}
  <2>1. u[k] = IF Reached(t)[k] /\ ~ Childless(t, k) THEN [t[k] EXCEPT !.next = Turn(t, k)] ELSE t[k]
    BY DEF TurnedTree
  <2>2. Turn(t, k) \in {NoNode, 2 * k, 2 * k + 1} /\ t[k].next \in {NoNode, 2 * k, 2 * k + 1}
    BY <1>1, ChildrenAre DEF NoNode, Shaped
  <2>3. {NoNode, 2 * k, 2 * k + 1} \subseteq 0 .. 8 * MaxValue
    BY <1>1, SchTreeAssumption DEF NoNode, Node
  <2>4. t[k] \in NodeRecords
    BY <1>1
  <2>. QED
    BY <2>1, <2>2, <2>3, <2>4 DEF NodeRecords
<1>3. u \in Trees
  <2>1. u = [k \in DOMAIN t |-> u[k]]
    BY DEF TurnedTree
  <2>2. u \in [DOMAIN t -> NodeRecords]
    BY <1>2, <2>1
  <2>. QED
    BY <1>1, <2>2, TreeIs
<1>4. \A k : LeftOf(u, k) = LeftOf(t, k) /\ RightOf(u, k) = RightOf(t, k)
            /\ Childless(u, k) = Childless(t, k) /\ Owned(u, k) = Owned(t, k)
  BY <1>1, <1>2 DEF LeftOf, RightOf, Childless, Owned
<1>5. Shaped(u) /\ (Full(t) => Full(u))
  BY <1>1, <1>2, <1>4 DEF Shaped, Full
<1>. QED
  BY <1>1, <1>2, <1>3, <1>4, <1>5

\* A draw brings every node one nearer, and sends those it reached to the end.
LEMMA DrawShortensWait ==
  ASSUME NEW t \in Trees, Shaped(t), NEW k \in DOMAIN t
  PROVE  Wait(TurnedTree(t))[k] = IF Wait(t)[k] = 0 THEN Weight[k] - 1 ELSE Wait(t)[k] - 1
<1> DEFINE u == TurnedTree(t)
           next(n) == IF Wait(t)[n] = 0 THEN Weight[n] - 1 ELSE Wait(t)[n] - 1
           S == {n \in Node : n \in DOMAIN t => Wait(u)[n] = next(n)}
<1>1. ASSUME NEW n \in Node, n # Root => Parent(n) \in S PROVE n \in S
  <2>1. CASE n \notin DOMAIN t
    BY <2>1
  <2>2. CASE n = Root
    BY <2>2, WaitIs, WeightIs
  <2>3. CASE n \in DOMAIN t /\ n # Root
    <3> DEFINE p == Parent(n)
    <3>1. p \in DOMAIN t /\ p \in Node /\ n \in {2 * p, 2 * p + 1} /\ n # 0 /\ p \in Nat
      BY <2>3, Nodes, ChildrenAre DEF Shaped
    <3>2. /\ Wait(t)[p] \in Nat /\ Weight[p] \in Nat /\ Weight[p] >= 1 /\ Weight[n] = 2 * Weight[p]
          /\ Wait(t)[n] = Wait(t)[p] + (IF Turn(t, p) = n THEN 0 ELSE Weight[p])
          /\ Wait(u)[n] = Wait(u)[p] + (IF Turn(u, p) = n THEN 0 ELSE Weight[p])
          /\ Wait(u)[p] = next(p)
      BY <1>1, <2>3, <3>1, WaitIs, WeightIs
    <3>3. ~ Childless(t, p)
      BY <2>3, <3>1, ChildrenAre
    <3>4. Turn(u, p) = n <=> IF Wait(t)[p] = 0 THEN Turn(t, p) # n ELSE Turn(t, p) = n
      <4>1. /\ LeftOf(u, p) = LeftOf(t, p) /\ RightOf(u, p) = RightOf(t, p)
            /\ u[p].next = IF Reached(t)[p] THEN Turn(t, p) ELSE t[p].next
        BY <3>1, <3>3, DrawnTree
      <4>2. Reached(t)[p] <=> Wait(t)[p] = 0
        BY <3>1, ReachedAfterWait
      <4>3. /\ LeftOf(t, p) = IF 2 * p \in DOMAIN t THEN 2 * p ELSE 0
            /\ RightOf(t, p) = IF 2 * p + 1 \in DOMAIN t THEN 2 * p + 1 ELSE 0
        BY <3>1, ChildrenAre
      <4>4. n = LeftOf(t, p) \/ n = RightOf(t, p)
        BY <2>3, <3>1, <4>3
      <4>5. LeftOf(t, p) # RightOf(t, p)
        BY <3>1, <4>3, <4>4
      <4> HIDE DEF u, p
      <4>. QED
        BY <4>1, <4>2, <4>4, <4>5 DEF Turn
    <3> HIDE DEF u, p
    <3>5. Wait(u)[n] = next(n)
      BY <3>2, <3>4
    <3>. QED
      BY <3>5
  <2>. QED
    BY <2>1, <2>2, <2>3
<1>2. \A n \in Node : n \in S
  <2> HIDE DEF S
  <2>. QED
    BY <1>1, FromTheRoot
<1>. QED
  BY <1>2, TreeIs

LEMMA OwnedIs ==
  ASSUME NEW t \in Trees, NEW k, Owned(t, k)
  PROVE  k \in DOMAIN t /\ k \in Node /\ t[k].path \in Path
BY TreeIs DEF Owned, NodeRecords

\* What a draw picks: the path of the one leaf that is reached.
LEMMA DrawPicks ==
  ASSUME NEW t \in Trees, Shaped(t), Full(t), DOMAIN t # {}
  PROVE  /\ Owned(t, Selected(t)) /\ Selected(t) # NoNode
         /\ \A k \in DOMAIN t : Owned(t, k) => (Wait(t)[k] = 0 <=> k = Selected(t))
<1>1. /\ Selected(t) \in DOMAIN t /\ Reached(t)[Selected(t)] /\ Childless(t, Selected(t))
      /\ Selected(t) # NoNode /\ Owned(t, Selected(t))
  BY EndsAtALeaf
<1>2. ASSUME NEW k \in DOMAIN t, Owned(t, k), Wait(t)[k] = 0 PROVE k = Selected(t)
  <2>1. Reached(t)[k] /\ k \in Node
    BY <1>2, ReachedAfterWait, OwnedIs
  <2>2. Childless(t, k)
    <3>1. SUFFICES ASSUME NEW c \in {2 * k, 2 * k + 1}, c \in DOMAIN t PROVE FALSE
      BY <2>1, ChildrenAre
    <3>2. k \in Nat /\ k >= 1
      BY <2>1, ChildrenAre
    <3>3. Parent(c) = k
      BY <3>1, <3>2, Nodes
    <3>4. c # Root
      BY <3>1, <3>2 DEF Root
    <3>. QED
      BY <1>2, <3>1, <3>3, <3>4 DEF Shaped
  <2>. QED
    BY <2>1, <2>2, EndsAtOne
<1>3. Wait(t)[Selected(t)] = 0
  BY <1>1, ReachedAfterWait
<1>. QED
  BY <1>1, <1>2, <1>3
-----------------------------------------------------------------------------
(* Insertion: what it enters and what it leaves.                           *)

\* A node has both children or none that are nodes; what insertion goes on below
\* has both.
LEMMA BothChildren ==
  ASSUME NEW t \in Trees, NEW k \in Node, ~ Childless(t, k) \/ LevelValue[k] >= 1
  PROVE  2 * k \in Node /\ 2 * k + 1 \in Node
<1>1. CASE LevelValue[k] >= 1
  BY <1>1, LevelsHalve
<1>2. CASE ~ Childless(t, k)
  <2>1. 2 * k \in Node \/ 2 * k + 1 \in Node
    BY <1>2, ChildrenAre, TreeIs
  <2>2. k \in Nat /\ k >= 1 /\ MaxValue \in Nat
    BY ChildrenAre, SchTreeAssumption
  <2>. QED
    BY <2>1, <2>2 DEF Node
<1>. QED
  BY <1>1, <1>2

RestOf(t, k, c, f) ==
  CASE Owned(t, k)    -> c
    [] Takes(t, k, c) -> c - LevelValue[k]
    [] OTHER -> IF f[2 * k][c] < 1 THEN f[2 * k][c] ELSE f[2 * k + 1][f[2 * k][c]]

LEMMA RestIs ==
  ASSUME NEW t \in Trees
  PROVE  \A k \in Node : \A c \in Nat :
           Rest(t)[k][c] \in Nat /\ Rest(t)[k][c] = RestOf(t, k, c, Rest(t))
<1> DEFINE V == [Nat -> Nat]
           F == [Node -> V]
           value(k, f) == [c \in Nat |-> RestOf(t, k, c, f)]
           G == [k \in Node |-> [f \in F |-> value(k, f)]]
           body(f) ==
             [k \in Node |->
                [change \in Nat |->
                   CASE Owned(t, k)         -> change
                     [] Takes(t, k, change) -> change - LevelValue[k]
                     [] OTHER -> LET left == f[2*k][change]
                                 IN  IF left < 1 THEN left ELSE f[2*k + 1][left]]]
           rest == CHOOSE f : f = body(f)
<1>1. \A k \in Node : \A f \in F : G[k][f] = value(k, f)
  OBVIOUS
<1>2. ASSUME NEW k \in Node, NEW c \in Nat, NEW f,
             \A n \in {2 * k, 2 * k + 1} : n \in Node => \A d \in Nat : f[n][d] \in Nat
      PROVE  RestOf(t, k, c, f) \in Nat
  <2>1. LevelValue[k] \in Nat
    BY LevelValueIs
  <2>2. CASE Owned(t, k)
    BY <2>2 DEF RestOf, Takes
  <2>3. CASE Takes(t, k, c)
    BY <2>1, <2>3 DEF RestOf, Takes
  <2>4. CASE ~ Owned(t, k) /\ ~ Takes(t, k, c)
    <3>1. ~ Childless(t, k) \/ LevelValue[k] >= 1
      BY <2>1, <2>4 DEF Takes
    <3>2. f[2 * k][c] \in Nat /\ \A d \in Nat : f[2 * k + 1][d] \in Nat
      BY <1>2, <3>1, BothChildren
    <3>. QED
      BY <2>4, <3>2 DEF RestOf
  <2>. QED
    BY <2>2, <2>3, <2>4
<1>3. ASSUME NEW k \in Node, NEW f \in F, NEW g \in F,
             \A n \in {2 * k, 2 * k + 1} : n \in Node => f[n] = g[n]
      PROVE  value(k, f) = value(k, g)
  <2>1. ASSUME NEW c \in Nat PROVE RestOf(t, k, c, f) = RestOf(t, k, c, g)
    <3>1. CASE Owned(t, k) \/ Takes(t, k, c)
      BY <3>1 DEF RestOf, Takes
    <3>2. CASE ~ Owned(t, k) /\ ~ Takes(t, k, c)
      <4>1. LevelValue[k] \in Nat
        BY LevelValueIs
      <4>2. ~ Childless(t, k) \/ LevelValue[k] >= 1
        BY <3>2, <4>1 DEF Takes
      <4>3. f[2 * k] = g[2 * k] /\ f[2 * k + 1] = g[2 * k + 1]
        BY <1>3, <4>2, BothChildren
      <4>. QED
        BY <4>3 DEF RestOf
    <3>. QED
      BY <3>1, <3>2
  <2>. QED
    BY <2>1
<1>4. PICK f \in F : \A k \in Node : f[k] = G[k][f]
  <2>1. \A k \in Node : \A f \in [Node -> V] : G[k][f] \in V
    <3>1. ASSUME NEW k \in Node, NEW f \in [Node -> V] PROVE G[k][f] \in V
      <4>1. \A n \in {2 * k, 2 * k + 1} : n \in Node => \A d \in Nat : f[n][d] \in Nat
        OBVIOUS
      <4>2. \A c \in Nat : RestOf(t, k, c, f) \in Nat
        BY <1>2, <4>1
      <4>. QED
        BY <1>1, <4>2
    <3>. QED
      BY <3>1
  <2>2. \A k \in Node : \A f, g \in [Node -> V] :
          (\A n \in {2 * k, 2 * k + 1} : n \in Node => f[n] = g[n]) => G[k][f] = G[k][g]
    <3>1. ASSUME NEW k \in Node, NEW f \in F, NEW g \in F,
                 \A n \in {2 * k, 2 * k + 1} : n \in Node => f[n] = g[n]
          PROVE  G[k][f] = G[k][g]
      <4>1. value(k, f) = value(k, g)
        BY <1>3, <3>1
      <4> HIDE DEF G, value, F
      <4>. QED
        BY <1>1, <4>1
    <3> HIDE DEF G, value, V
    <3>. QED
      BY <3>1
  <2>3. V # {}
    <3>1. [c \in Nat |-> c] \in V
      OBVIOUS
    <3>. QED
      BY <3>1
  <2>4. Solvable(Node, V, G)
    <3> HIDE DEF G, V
    <3>. QED
      BY <2>1, <2>2, <2>3, LeafRecursion
  <2>. QED
    BY <2>4 DEF Solvable
<1>5. f = body(f)
  <2>1. \A k \in Node : f[k] = value(k, f)
    BY <1>1, <1>4
  <2>2. \A k \in Node : body(f)[k] = value(k, f)
    BY DEF RestOf
  <2>3. body(f) = [k \in Node |-> body(f)[k]] /\ f = [k \in Node |-> f[k]]
    BY <1>4
  <2> HIDE DEF value, body, G
  <2>. QED
    BY <2>1, <2>2, <2>3
<1>6. rest = body(rest)
  <2> HIDE DEF body
  <2>. QED
    BY <1>5
<1>7. Rest(t) = rest
  BY DEF Rest
<1> HIDE DEF rest
<1>8. \A k \in Node : \A c \in Nat : rest[k][c] = RestOf(t, k, c, rest)
  <2>1. \A k \in Node : \A c \in Nat : body(rest)[k][c] = RestOf(t, k, c, rest)
    BY DEF RestOf
  <2> HIDE DEF body
  <2>. QED
    BY <1>6, <2>1
<1> DEFINE S == {k \in Node : \A c \in Nat : rest[k][c] \in Nat}
<1>9. \A k \in Node : k \in S
  <2>1. ASSUME NEW k \in Node, \A c \in {2 * k, 2 * k + 1} : c \in Node => c \in S
        PROVE  k \in S
    <3>1. \A n \in {2 * k, 2 * k + 1} : n \in Node => \A d \in Nat : rest[n][d] \in Nat
      BY <2>1
    <3>2. \A c \in Nat : RestOf(t, k, c, rest) \in Nat
      BY <1>2, <3>1
    <3>. QED
      BY <1>8, <3>2
  <2> HIDE DEF S
  <2>. QED
    BY <2>1, FromTheLeaves
<1>. QED
  BY <1>7, <1>8, <1>9
Given(t, k, above) ==
  IF above = NotEntered \/ Owned(t, Parent(k)) \/ Takes(t, Parent(k), above) THEN NotEntered
  ELSE IF k % 2 = 0 THEN above
  ELSE IF Rest(t)[k - 1][above] < 1 THEN NotEntered ELSE Rest(t)[k - 1][above]

LEMMA EnteredIs ==
  ASSUME NEW t \in Trees, NEW c \in Nat
  PROVE  /\ Entered(t, c) \in [Node -> Nat \cup {NotEntered}]
         /\ Entered(t, c)[Root] = c
         /\ \A k \in Node : k # Root => Entered(t, c)[k] = Given(t, k, Entered(t, c)[Parent(k)])
<1> DEFINE V == Nat \cup {NotEntered}
           F == [Node -> V]
           value(k, f) == IF k = Root THEN c ELSE Given(t, k, f[Parent(k)])
           G == [k \in Node |-> [f \in F |-> value(k, f)]]
           body(f) ==
             [k \in Node |->
                LET above == f[k \div 2]
                    left  == Rest(t)[k - 1][above]
                IN  IF k = Root THEN c
                    ELSE IF \/ above = NotEntered
                            \/ Owned(t, k \div 2)
                            \/ Takes(t, k \div 2, above) THEN NotEntered
                    ELSE IF k % 2 = 0 THEN above
                    ELSE IF left < 1 THEN NotEntered ELSE left]
           entered == CHOOSE f : f = body(f)
<1>1. \A k \in Node : \A f \in F : G[k][f] = value(k, f)
  <2> HIDE DEF value
  <2>. QED
    OBVIOUS
<1>2. ASSUME NEW k \in Node, NEW f, k # Root => f[Parent(k)] \in V
      PROVE  value(k, f) \in V
  <2>1. CASE k = Root
    BY <2>1
  <2>2. CASE k # Root /\ Given(t, k, f[Parent(k)]) \in {NotEntered, f[Parent(k)]}
    BY <1>2, <2>2
  <2>3. CASE k # Root /\ Given(t, k, f[Parent(k)]) \notin {NotEntered, f[Parent(k)]}
    <3>1. /\ k % 2 # 0 /\ f[Parent(k)] # NotEntered
          /\ Given(t, k, f[Parent(k)]) = Rest(t)[k - 1][f[Parent(k)]]
      BY <2>3 DEF Given
    <3>2. k - 1 \in Node
      <4>1. k \in Nat /\ k > 1 /\ k <= 4 * MaxValue - 1 /\ MaxValue \in Nat
        BY <2>3, SchTreeAssumption DEF Node, Root
      <4>. QED
        BY <4>1 DEF Node
    <3>3. f[Parent(k)] \in Nat
      BY <1>2, <2>3, <3>1
    <3>. QED
      BY <2>3, <3>1, <3>2, <3>3, RestIs
  <2>. QED
    BY <2>1, <2>2, <2>3
<1>3. \A k \in Node : \A f, g \in F :
        (k # Root => f[Parent(k)] = g[Parent(k)]) => value(k, f) = value(k, g)
  OBVIOUS
<1>4. PICK f \in F : \A k \in Node : f[k] = G[k][f]
  <2> HIDE DEF value, G
  <2>1. \A k \in Node : \A f \in [Node -> V] : G[k][f] \in V
    <3>1. ASSUME NEW k \in Node, NEW f \in [Node -> V] PROVE value(k, f) \in V
      <4>1. k # Root => f[Parent(k)] \in V
        BY Nodes
      <4>. QED
        BY <1>2, <4>1
    <3>. QED
      BY <1>1, <3>1
  <2>2. \A k \in Node : \A f, g \in [Node -> V] :
          (k # Root => f[Parent(k)] = g[Parent(k)]) => G[k][f] = G[k][g]
    BY <1>1, <1>3
  <2>3. V # {}
    BY Nodes
  <2>4. Solvable(Node, V, G)
    <3> HIDE DEF V
    <3>. QED
      BY <2>1, <2>2, <2>3, RootRecursion
  <2>. QED
    BY <2>4 DEF Solvable
<1>5. f = body(f)
  <2>1. \A k \in Node : f[k] = value(k, f)
    BY <1>1, <1>4
  <2>2. \A k \in Node : body(f)[k] = value(k, f)
    BY DEF Given, Parent
  <2>3. body(f) = [k \in Node |-> body(f)[k]] /\ f = [k \in Node |-> f[k]]
    BY <1>4
  <2> HIDE DEF value, body, G
  <2>. QED
    BY <2>1, <2>2, <2>3
<1>6. entered = body(entered)
  <2> HIDE DEF body
  <2>. QED
    BY <1>5
<1>7. Entered(t, c) = entered
  BY DEF Entered
<1> HIDE DEF entered
<1>8. entered = [k \in Node |-> entered[k]] /\ \A k \in Node : entered[k] = value(k, entered)
  <2>1. \A k \in Node : body(entered)[k] = value(k, entered)
    BY DEF Given, Parent
  <2>2. body(entered) = [k \in Node |-> body(entered)[k]]
    OBVIOUS
  <2> HIDE DEF body, value
  <2>. QED
    BY <1>6, <2>1, <2>2
<1> DEFINE S == {k \in Node : entered[k] \in V}
<1>9. \A k \in Node : k \in S
  <2>1. \A k \in Node : (k # Root => Parent(k) \in S) => k \in S
    <3> HIDE DEF value, V
    <3>. QED
      BY <1>2, <1>8
  <2> HIDE DEF S
  <2>. QED
    BY <2>1, FromTheRoot
<1>10. entered \in [Node -> V]
  <2> HIDE DEF value, V
  <2>. QED
    BY <1>8, <1>9
<1>. QED
  BY <1>7, <1>8, <1>10, Nodes

\* What insertion does at one node.
LEMMA InsertIs ==
  ASSUME NEW t \in Trees, Shaped(t), NEW p \in Path, NEW c \in Nat,
         NEW u, u = Insert(t, p, c), NEW e, e = Entered(t, c)
  PROVE  /\ \A k : k \in DOMAIN u <=> k \in DOMAIN t \/ (k \in Node /\ e[k] # NotEntered)
         /\ u \in Trees
         /\ \A k \in DOMAIN u :
              u[k].next = (IF k \in DOMAIN t THEN t[k].next ELSE NoNode)
         /\ \A k \in Node : Owned(u, k) <=> Owned(t, k) \/ (e[k] # NotEntered /\ Takes(t, k, e[k]))
<1> DEFINE visited == {k \in Node : e[k] # NotEntered}
           taken == {k \in visited : Takes(t, k, e[k])}
           node(k) == IF k \in DOMAIN t THEN t[k] ELSE NewNode
           at(k) == IF k \in taken THEN [node(k) EXCEPT !.path = p] ELSE node(k)
<1>1. u = [k \in DOMAIN t \cup visited |-> at(k)]
  BY DEF Insert
<1>2. DOMAIN t \cup visited \subseteq Node /\ \A k \in DOMAIN t : t[k] \in NodeRecords
  BY TreeIs
<1>3. NewNode \in NodeRecords /\ NewNode.next = NoNode /\ NewNode.path = NoPath
  BY SchTreeAssumption DEF NewNode, NodeRecords, NoNode
<1>4. \A k : node(k) \in NodeRecords /\ node(k).next = (IF k \in DOMAIN t THEN t[k].next ELSE NoNode)
  BY <1>2, <1>3
<1>5. \A k : /\ at(k) \in NodeRecords /\ at(k).next = node(k).next
             /\ at(k).path = IF k \in taken THEN p ELSE node(k).path
  <2> HIDE DEF taken, node
  <2>. QED
    BY <1>4 DEF NodeRecords
<1>6. p # NoPath
  BY SchTreeAssumption
<1>7. ASSUME NEW k \in Node
      PROVE  Owned(u, k) <=> Owned(t, k) \/ (e[k] # NotEntered /\ Takes(t, k, e[k]))
  <2>1. k \in DOMAIN u => u[k].path = IF k \in taken THEN p ELSE node(k).path
    <3> HIDE DEF taken, node, at, visited
    <3>. QED
      BY <1>1, <1>5
  <2>2. k \in taken <=> e[k] # NotEntered /\ Takes(t, k, e[k])
    OBVIOUS
  <2>3. k \in DOMAIN u <=> k \in DOMAIN t \/ e[k] # NotEntered
    <3> HIDE DEF at
    <3>. QED
      BY <1>1
  <2>4. node(k).path # NoPath <=> Owned(t, k)
    BY <1>3 DEF Owned
  <2> HIDE DEF taken, node
  <2>5. Owned(u, k) <=> k \in DOMAIN u /\ u[k].path # NoPath
    BY DEF Owned
  <2>6. Owned(t, k) => k \in DOMAIN t
    BY DEF Owned
  <2>. QED
    BY <1>6, <2>1, <2>2, <2>3, <2>4, <2>5, <2>6
<1> HIDE DEF at, node, taken
<1>8. u \in Trees
  <2>1. u \in [DOMAIN t \cup visited -> NodeRecords]
    BY <1>1, <1>5
  <2>. QED
    BY <1>2, <2>1, TreeIs
<1>9. \A k \in DOMAIN u : u[k].next = (IF k \in DOMAIN t THEN t[k].next ELSE NoNode)
  <2> HIDE DEF visited
  <2>. QED
    BY <1>1, <1>4, <1>5
<1>10. \A k : k \in DOMAIN u <=> k \in DOMAIN t \/ (k \in Node /\ e[k] # NotEntered)
  BY <1>1
<1> HIDE DEF visited
<1>. QED
  BY <1>7, <1>8, <1>9, <1>10
\* Insertion goes from a node it does not take to the left child, and to the
\* right one if the left one leaves something; nowhere else.
LEMMA EnteredBelow ==
  ASSUME NEW t \in Trees, NEW c \in Nat, NEW e, e = Entered(t, c), NEW k \in Node
  PROVE  /\ e[k] \in Nat \cup {NotEntered}
         /\ e[k] # NotEntered /\ ~ Owned(t, k) /\ ~ Takes(t, k, e[k]) =>
              /\ 2 * k \in Node /\ 2 * k + 1 \in Node /\ e[2 * k] = e[k]
              /\ e[2 * k + 1] = IF Rest(t)[2 * k][e[k]] < 1 THEN NotEntered ELSE Rest(t)[2 * k][e[k]]
         /\ e[k] = NotEntered \/ Owned(t, k) \/ Takes(t, k, e[k]) =>
              \A n \in {2 * k, 2 * k + 1} : n \in Node => e[n] = NotEntered
         /\ k # Root /\ e[k] # NotEntered =>
              /\ e[Parent(k)] # NotEntered /\ ~ Owned(t, Parent(k))
              /\ ~ Takes(t, Parent(k), e[Parent(k)])
<1>1. e[k] \in Nat \cup {NotEntered}
  BY EnteredIs
<1>2. ASSUME NEW n \in {2 * k, 2 * k + 1}, n \in Node
      PROVE  n # Root /\ Parent(n) = k /\ e[n] = Given(t, n, e[k])
  <2>1. k \in Nat /\ k >= 1
    BY ChildrenAre
  <2>2. n # Root /\ Parent(n) = k
    <3>1. Parent(n) = k
      BY <1>2, <2>1, Nodes
    <3>. QED
      BY <1>2, <2>1, <3>1 DEF Root
  <2>. QED
    BY <1>2, <2>2, EnteredIs
<1>3. ASSUME e[k] # NotEntered, ~ Owned(t, k), ~ Takes(t, k, e[k])
      PROVE  /\ 2 * k \in Node /\ 2 * k + 1 \in Node /\ e[2 * k] = e[k]
             /\ e[2 * k + 1] = IF Rest(t)[2 * k][e[k]] < 1 THEN NotEntered ELSE Rest(t)[2 * k][e[k]]
  <2>1. ~ Childless(t, k) \/ LevelValue[k] >= 1
    <3>1. LevelValue[k] \in Nat /\ e[k] \in Nat
      BY <1>1, <1>3, LevelValueIs
    <3>. QED
      BY <1>3, <3>1 DEF Takes
  <2>2. 2 * k \in Node /\ 2 * k + 1 \in Node
    BY <2>1, BothChildren
  <2>3. (2 * k) % 2 = 0 /\ (2 * k + 1) % 2 # 0 /\ 2 * k + 1 - 1 = 2 * k
    BY ChildrenAre
  <2>4. /\ Parent(2 * k) = k /\ Parent(2 * k + 1) = k
        /\ e[2 * k] = Given(t, 2 * k, e[k]) /\ e[2 * k + 1] = Given(t, 2 * k + 1, e[k])
    BY <1>2, <2>2
  <2>5. e[2 * k] = e[k]
    BY <1>3, <2>3, <2>4 DEF Given
  <2>6. e[2 * k + 1] = IF Rest(t)[2 * k][e[k]] < 1 THEN NotEntered ELSE Rest(t)[2 * k][e[k]]
    <3>1. PICK n \in {2 * k, 2 * k + 1} : n = 2 * k + 1
      OBVIOUS
    <3>2. n % 2 # 0 /\ n - 1 = 2 * k /\ n \in Node
      <4>1. k \in Nat
        BY ChildrenAre
      <4>. QED
        BY <2>2, <3>1, <4>1
    <3>3. e[n] = Given(t, n, e[k]) /\ Parent(n) = k
      BY <1>2, <3>2
    <3>4. e[n] = IF Rest(t)[2 * k][e[k]] < 1 THEN NotEntered ELSE Rest(t)[2 * k][e[k]]
      BY <1>3, <3>2, <3>3 DEF Given
    <3>. QED
      BY <3>1, <3>4
  <2>. QED
    BY <2>2, <2>5, <2>6
<1>4. ASSUME e[k] = NotEntered \/ Owned(t, k) \/ Takes(t, k, e[k])
      PROVE  \A n \in {2 * k, 2 * k + 1} : n \in Node => e[n] = NotEntered
  BY <1>2, <1>4 DEF Given
<1>5. ASSUME k # Root, e[k] # NotEntered
      PROVE  /\ e[Parent(k)] # NotEntered /\ ~ Owned(t, Parent(k))
             /\ ~ Takes(t, Parent(k), e[Parent(k)])
  <2>1. e[k] = Given(t, k, e[Parent(k)])
    BY <1>5, EnteredIs
  <2>. QED
    BY <1>5, <2>1 DEF Given
<1>. QED
  BY <1>1, <1>3, <1>4, <1>5

LEMMA InsertKeepsShape ==
  ASSUME NEW t \in Trees, Shaped(t), NEW p \in Path, NEW c \in Nat
  PROVE  Shaped(Insert(t, p, c)) /\ Root \in DOMAIN Insert(t, p, c)
<1> DEFINE u == Insert(t, p, c)
           e == Entered(t, c)
<1>1. /\ \A k : k \in DOMAIN u <=> k \in DOMAIN t \/ (k \in Node /\ e[k] # NotEntered)
      /\ \A k \in DOMAIN u :
           u[k].next = (IF k \in DOMAIN t THEN t[k].next ELSE NoNode)
      /\ \A k \in Node : Owned(u, k) <=> Owned(t, k) \/ (e[k] # NotEntered /\ Takes(t, k, e[k]))
  BY InsertIs
<1>2. \A k \in Node :
         /\ e[k] # NotEntered /\ ~ Owned(t, k) /\ ~ Takes(t, k, e[k]) =>
              2 * k \in Node /\ e[2 * k] # NotEntered
         /\ k # Root /\ e[k] # NotEntered =>
              /\ e[Parent(k)] # NotEntered /\ ~ Owned(t, Parent(k))
              /\ ~ Takes(t, Parent(k), e[Parent(k)])
  BY EnteredBelow
<1>3. DOMAIN t \subseteq Node
  BY TreeIs
<1> HIDE DEF u, e
<1>4. ASSUME NEW k \in DOMAIN u, k # Root PROVE Parent(k) \in DOMAIN u /\ ~ Owned(u, Parent(k))
  <2>1. k \in Node /\ Parent(k) \in Node
    BY <1>1, <1>3, <1>4, Nodes
  <2>2. CASE k \in DOMAIN t
    <3>1. Parent(k) \in DOMAIN t /\ ~ Owned(t, Parent(k))
      BY <1>4, <2>2 DEF Shaped
    <3>2. k \in {2 * Parent(k), 2 * Parent(k) + 1}
      BY <1>4, <2>1, Nodes
    <3>3. ~ Childless(t, Parent(k))
      BY <2>1, <2>2, <3>2, ChildrenAre
    <3>4. ~ Takes(t, Parent(k), e[Parent(k)])
      BY <3>3 DEF Takes
    <3>. QED
      BY <1>1, <2>1, <3>1, <3>4
  <2>3. CASE e[k] # NotEntered
    BY <1>1, <1>2, <1>4, <2>1, <2>3
  <2>. QED
    BY <1>1, <2>2, <2>3
<1>5. ASSUME NEW k \in DOMAIN u PROVE Owned(u, k) \/ 2 * k \in DOMAIN u
  <2>1. k \in Node
    BY <1>1, <1>3
  <2>2. CASE e[k] = NotEntered
    BY <1>1, <2>1, <2>2 DEF Shaped
  <2>3. CASE e[k] # NotEntered
    BY <1>1, <1>2, <2>1, <2>3
  <2>. QED
    BY <2>2, <2>3
<1>6. \A k \in DOMAIN u : u[k].next \in {NoNode, 2 * k, 2 * k + 1}
  BY <1>1 DEF Shaped
<1>7. e[Root] = c /\ Root \in Node /\ c # NotEntered
  <2>1. c # NotEntered
    BY DEF NotEntered
  <2>. QED
    BY <2>1, EnteredIs, Nodes DEF e
<1>8. Shaped(u) /\ Root \in DOMAIN u
  BY <1>1, <1>4, <1>5, <1>6, <1>7 DEF Shaped
<1>. QED
  BY <1>8 DEF u
-----------------------------------------------------------------------------
(* How much of the tree is still to be taken.                              *)

\* Below the units there is half a unit on each side; the right one counts,
\* because insertion comes there last.
Worth(k) == IF LevelValue[k] >= 1 THEN LevelValue[k] ELSE k % 2

Need(t) == CHOOSE n \in [Node -> Nat] :
  \A k \in Node : n[k] = IF Owned(t, k) THEN 0
                         ELSE IF Childless(t, k) THEN Worth(k) ELSE n[2 * k] + n[2 * k + 1]

LEMMA WorthIs ==
  ASSUME NEW k \in Node
  PROVE  /\ Worth(k) \in Nat /\ Worth(k) >= LevelValue[k]
         /\ LevelValue[k] >= 1 => Worth(k) = Worth(2 * k) + Worth(2 * k + 1)
         /\ Worth(Root) = MaxValue
         /\ 2 * k + 1 \in Node => Worth(2 * k + 1) >= 1
<1>0. LevelValue[k] \in Nat /\ k \in Nat /\ k >= 1
  BY LevelsHalve, ChildrenAre DEF Node
<1>1. Worth(k) \in Nat /\ Worth(k) >= LevelValue[k]
  BY <1>0 DEF Worth
<1>2. Worth(Root) = MaxValue
  BY LevelValueIs, Nodes DEF Worth
<1>3. (2 * k) % 2 = 0 /\ (2 * k + 1) % 2 = 1
  BY <1>0
<1>4. 2 * k + 1 \in Node => Worth(2 * k + 1) >= 1
  <2>1. ASSUME NEW n \in Node, n % 2 = 1 PROVE Worth(n) >= 1
    BY <2>1, LevelsHalve DEF Worth
  <2>. QED
    BY <1>3, <2>1
<1>5. ASSUME LevelValue[k] >= 1 PROVE Worth(k) = Worth(2 * k) + Worth(2 * k + 1)
  <2>1. 2 * k \in Node /\ 2 * k + 1 \in Node /\ (LevelValue[k] = 1 \/ LevelValue[k] % 2 = 0)
    BY <1>5, LevelsHalve
  <2>2. LevelValue[2 * k] = LevelValue[k] \div 2 /\ LevelValue[2 * k + 1] = LevelValue[k] \div 2
    <3>1. 2 * k # Root /\ 2 * k + 1 # Root /\ Parent(2 * k) = k /\ Parent(2 * k + 1) = k
      BY <1>0 DEF Root, Parent
    <3>. QED
      BY <2>1, <3>1, LevelValueIs
  <2>3. CASE LevelValue[k] = 1
    BY <1>3, <2>2, <2>3 DEF Worth
  <2>4. CASE LevelValue[k] >= 2 /\ LevelValue[k] % 2 = 0
    BY <1>0, <2>2, <2>4 DEF Worth
  <2>. QED
    BY <1>0, <1>5, <2>1, <2>3, <2>4
<1>. QED
  BY <1>1, <1>2, <1>4, <1>5

LEMMA NeedIs ==
  ASSUME NEW t \in Trees
  PROVE  /\ Need(t) \in [Node -> Nat]
         /\ \A k \in Node : Need(t)[k] = IF Owned(t, k) THEN 0
                                         ELSE IF Childless(t, k) THEN Worth(k)
                                         ELSE Need(t)[2 * k] + Need(t)[2 * k + 1]
<1> DEFINE value(k, f) == IF Owned(t, k) THEN 0
                          ELSE IF Childless(t, k) THEN Worth(k) ELSE f[2 * k] + f[2 * k + 1]
           G == [k \in Node |-> [f \in [Node -> Nat] |-> value(k, f)]]
<1>1. \A k \in Node : \A f \in [Node -> Nat] : G[k][f] = value(k, f)
  <2> HIDE DEF value
  <2>. QED
    OBVIOUS
<1>2. ASSUME NEW k \in Node, NEW f \in [Node -> Nat] PROVE value(k, f) \in Nat
  <2>1. Worth(k) \in Nat
    BY WorthIs
  <2>2. ~ Childless(t, k) => f[2 * k] \in Nat /\ f[2 * k + 1] \in Nat
    BY BothChildren
  <2>. QED
    BY <2>1, <2>2
<1>3. ASSUME NEW k \in Node, NEW f \in [Node -> Nat], NEW g \in [Node -> Nat],
             \A c \in {2 * k, 2 * k + 1} : c \in Node => f[c] = g[c]
      PROVE  value(k, f) = value(k, g)
  <2>1. ~ Childless(t, k) => f[2 * k] = g[2 * k] /\ f[2 * k + 1] = g[2 * k + 1]
    BY <1>3, BothChildren
  <2>. QED
    BY <2>1
<1>4. \E f \in [Node -> Nat] : \A k \in Node : f[k] = value(k, f)
  <2> HIDE DEF value, G
  <2>1. \A k \in Node : \A f \in [Node -> Nat] : G[k][f] \in Nat
    BY <1>1, <1>2
  <2>2. \A k \in Node : \A f, g \in [Node -> Nat] :
          (\A c \in {2 * k, 2 * k + 1} : c \in Node => f[c] = g[c]) => G[k][f] = G[k][g]
    <3>1. ASSUME NEW k \in Node, NEW f \in [Node -> Nat], NEW g \in [Node -> Nat],
                 \A c \in {2 * k, 2 * k + 1} : c \in Node => f[c] = g[c]
          PROVE  G[k][f] = G[k][g]
      BY <1>1, <1>3, <3>1
    <3>. QED
      BY <3>1
  <2>3. Nat # {}
    BY Nodes
  <2>4. Solvable(Node, Nat, G)
    BY <2>1, <2>2, <2>3, LeafRecursion
  <2>. QED
    BY <1>1, <2>4 DEF Solvable
<1>. QED
  BY <1>4 DEF Need

\* What a node needs its children need, if insertion goes on below it.
LEMMA NeedSplits ==
  ASSUME NEW t \in Trees, Shaped(t), NEW k \in Node, ~ Owned(t, k),
         ~ Childless(t, k) \/ LevelValue[k] >= 1
  PROVE  /\ 2 * k \in Node /\ 2 * k + 1 \in Node
         /\ Need(t)[k] = Need(t)[2 * k] + Need(t)[2 * k + 1]
<1>1. 2 * k \in Node /\ 2 * k + 1 \in Node
  BY BothChildren
<1>2. CASE ~ Childless(t, k)
  BY <1>1, <1>2, NeedIs
<1>3. CASE Childless(t, k)
  <2>1. ASSUME NEW c \in {2 * k, 2 * k + 1} PROVE Need(t)[c] = Worth(c)
    <3>1. c \in Node /\ c \notin DOMAIN t
      BY <1>1, <1>3, ChildrenAre
    <3>2. ASSUME NEW d \in {2 * c, 2 * c + 1}, d \in DOMAIN t PROVE FALSE
      <4>1. c \in Nat /\ c >= 1
        BY <3>1, ChildrenAre
      <4>2. Parent(d) = c
        BY <3>2, <4>1, Nodes
      <4>3. d # Root
        BY <3>2, <4>1 DEF Root
      <4>. QED
        BY <3>1, <3>2, <4>2, <4>3 DEF Shaped
    <3>3. Childless(t, c) /\ ~ Owned(t, c)
      BY <3>1, <3>2, ChildrenAre DEF Owned
    <3>. QED
      BY <3>1, <3>3, NeedIs
  <2>2. Need(t)[k] = Worth(k)
    BY <1>3, NeedIs
  <2>3. LevelValue[k] >= 1
    BY <1>3
  <2>. QED
    BY <1>1, <2>1, <2>2, <2>3, WorthIs
<1>. QED
  BY <1>1, <1>2, <1>3
\* Insertion leaves no less than what is needed leaves over.
LEMMA RestAtLeast ==
  ASSUME NEW t \in Trees, Shaped(t)
  PROVE  \A k \in Node : \A c \in Nat : c <= Rest(t)[k][c] + Need(t)[k]
<1> DEFINE S == {k \in Node : \A c \in Nat : c <= Rest(t)[k][c] + Need(t)[k]}
<1>1. ASSUME NEW k \in Node, \A n \in {2 * k, 2 * k + 1} : n \in Node => n \in S, NEW c \in Nat
      PROVE  c <= Rest(t)[k][c] + Need(t)[k]
  <2>1. /\ Rest(t)[k][c] \in Nat /\ Rest(t)[k][c] = RestOf(t, k, c, Rest(t))
        /\ Need(t)[k] \in Nat /\ LevelValue[k] \in Nat
    BY RestIs, NeedIs, LevelValueIs
  <2>2. CASE Owned(t, k)
    <3>1. Rest(t)[k][c] = c
      BY <2>1, <2>2 DEF RestOf, Takes
    <3>. QED
      BY <2>1, <3>1
  <2>3. CASE Takes(t, k, c)
    <3>1. Rest(t)[k][c] = c - LevelValue[k]
      BY <2>1, <2>3 DEF RestOf, Takes
    <3>2. Need(t)[k] = Worth(k)
      BY <2>3, NeedIs DEF Takes
    <3>3. Worth(k) \in Nat /\ Worth(k) >= LevelValue[k]
      BY WorthIs
    <3>. QED
      BY <2>1, <3>1, <3>2, <3>3
  <2>4. CASE ~ Owned(t, k) /\ ~ Takes(t, k, c)
    <3>1. ~ Childless(t, k) \/ LevelValue[k] >= 1
      BY <2>1, <2>4 DEF Takes
    <3>2. /\ 2 * k \in Node /\ 2 * k + 1 \in Node
          /\ Need(t)[k] = Need(t)[2 * k] + Need(t)[2 * k + 1]
      BY <2>4, <3>1, NeedSplits
    <3> DEFINE left == Rest(t)[2 * k][c]
               right == Rest(t)[2 * k + 1][left]
    <3>3. left \in Nat /\ right \in Nat /\ Need(t)[2 * k] \in Nat /\ Need(t)[2 * k + 1] \in Nat
      BY <3>2, RestIs, NeedIs
    <3>4. c <= left + Need(t)[2 * k] /\ left <= right + Need(t)[2 * k + 1]
      BY <1>1, <3>2, <3>3
    <3>5. Rest(t)[k][c] = IF left < 1 THEN left ELSE right
      BY <2>1, <2>4 DEF RestOf
    <3> HIDE DEF left, right
    <3>. QED
      BY <3>2, <3>3, <3>4, <3>5
  <2>. QED
    BY <2>2, <2>3, <2>4
<1>2. \A k \in Node : k \in S
  <2>1. \A k \in Node : (\A n \in {2 * k, 2 * k + 1} : n \in Node => n \in S) => k \in S
    BY <1>1
  <2> HIDE DEF S
  <2>. QED
    BY <2>1, FromTheLeaves
<1>. QED
  BY <1>2

\* Insertion takes what is given from what is needed.
LEMMA NeedShrinks ==
  ASSUME NEW t \in Trees, Shaped(t), NEW p \in Path, NEW c \in Nat,
         NEW u, u = Insert(t, p, c)
  PROVE  Need(u)[Root] = 0 \/ Need(u)[Root] + c <= Need(t)[Root]
<1> DEFINE e == Entered(t, c)
           Good(k) == IF e[k] = NotEntered THEN Need(u)[k] = Need(t)[k]
                      ELSE Need(u)[k] = 0 \/ Need(u)[k] + e[k] <= Need(t)[k]
           S == {k \in Node : Good(k)}
<1>0. u \in Trees /\ Shaped(u)
  BY InsertIs, InsertKeepsShape
<1>1. /\ \A k : k \in DOMAIN u <=> k \in DOMAIN t \/ (k \in Node /\ e[k] # NotEntered)
      /\ \A k \in Node : Owned(u, k) <=> Owned(t, k) \/ (e[k] # NotEntered /\ Takes(t, k, e[k]))
  BY InsertIs
<1>2. /\ Need(t) \in [Node -> Nat] /\ Need(u) \in [Node -> Nat]
  BY <1>0, NeedIs
<1> HIDE DEF e
<1>3. ASSUME NEW k \in Node, \A n \in {2 * k, 2 * k + 1} : n \in Node => n \in S
      PROVE  Good(k)
  <2>1. /\ e[k] \in Nat \cup {NotEntered}
        /\ e[k] # NotEntered /\ ~ Owned(t, k) /\ ~ Takes(t, k, e[k]) =>
             /\ 2 * k \in Node /\ 2 * k + 1 \in Node /\ e[2 * k] = e[k]
             /\ e[2 * k + 1] = IF Rest(t)[2 * k][e[k]] < 1 THEN NotEntered ELSE Rest(t)[2 * k][e[k]]
        /\ e[k] = NotEntered =>
             \A n \in {2 * k, 2 * k + 1} : n \in Node => e[n] = NotEntered
    BY EnteredBelow DEF e
  <2>2. CASE e[k] = NotEntered
    <3>1. Owned(u, k) <=> Owned(t, k)
      BY <1>1, <2>2
    <3>2. \A n \in {2 * k, 2 * k + 1} :
            (n \in DOMAIN u <=> n \in DOMAIN t) /\ (n \in Node => Need(u)[n] = Need(t)[n])
      BY <1>1, <1>3, <2>1, <2>2
    <3>3. Childless(u, k) <=> Childless(t, k)
      BY <1>0, <3>2, ChildrenAre
    <3>4. ~ Childless(t, k) => 2 * k \in Node /\ 2 * k + 1 \in Node
      BY BothChildren
    <3>5. ~ Childless(t, k) => /\ Need(u)[2 * k] = Need(t)[2 * k]
                               /\ Need(u)[2 * k + 1] = Need(t)[2 * k + 1]
      BY <3>2, <3>4
    <3>6. Need(u)[k] = Need(t)[k]
      BY <1>0, <3>1, <3>3, <3>5, NeedIs
    <3>. QED
      BY <2>2, <3>6
  <2>3. CASE e[k] # NotEntered /\ (Owned(t, k) \/ Takes(t, k, e[k]))
    <3>1. Need(u)[k] = 0
      BY <1>0, <1>1, <2>3, NeedIs
    <3>. QED
      BY <2>3, <3>1
  <2>4. CASE e[k] # NotEntered /\ ~ Owned(t, k) /\ ~ Takes(t, k, e[k])
    <3>1. e[k] \in Nat /\ LevelValue[k] \in Nat /\ ~ Owned(u, k)
      BY <1>1, <2>1, <2>4, LevelValueIs
    <3>2. ~ Childless(t, k) \/ LevelValue[k] >= 1
      BY <2>4, <3>1 DEF Takes
    <3>3. /\ 2 * k \in Node /\ 2 * k + 1 \in Node
          /\ Need(t)[k] = Need(t)[2 * k] + Need(t)[2 * k + 1]
      BY <2>4, <3>2, NeedSplits
    <3>4. 2 * k \in DOMAIN u
      BY <1>1, <2>1, <2>4, <3>3
    <3>5. Need(u)[k] = Need(u)[2 * k] + Need(u)[2 * k + 1]
      <4>1. ~ Childless(u, k)
        BY <1>0, <3>4, ChildrenAre
      <4>. QED
        BY <1>0, <3>1, <4>1, NeedSplits
    <3> DEFINE left == Rest(t)[2 * k][e[k]]
               a == Need(t)[2 * k]
               b == Need(t)[2 * k + 1]
               x == Need(u)[2 * k]
               y == Need(u)[2 * k + 1]
    <3>6. left \in Nat /\ a \in Nat /\ b \in Nat /\ x \in Nat /\ y \in Nat
      BY <1>2, <3>1, <3>3, RestIs
    <3>7. e[k] <= left + a
      BY <3>1, <3>3, RestAtLeast
    <3>8. x = 0 \/ x + e[k] <= a
      BY <1>3, <2>1, <2>4, <3>3
    <3>9. IF left < 1 THEN y = b ELSE y = 0 \/ y + left <= b
      <4>1. Good(2 * k + 1)
        BY <1>3, <3>3
      <4>2. NotEntered \notin Nat
        BY DEF NotEntered
      <4>3. e[2 * k + 1] = IF left < 1 THEN NotEntered ELSE left
        BY <2>1, <2>4
      <4> HIDE DEF left
      <4>. QED
        BY <3>6, <4>1, <4>2, <4>3
    <3> HIDE DEF left, a, b, x, y
    <3>10. x + y = 0 \/ x + y + e[k] <= a + b
      BY <3>1, <3>6, <3>7, <3>8, <3>9
    <3>. QED
      BY <2>4, <3>3, <3>5, <3>10 DEF a, b, x, y
  <2>. QED
    BY <2>2, <2>3, <2>4
<1>4. \A k \in Node : k \in S
  <2>1. \A k \in Node : (\A n \in {2 * k, 2 * k + 1} : n \in Node => n \in S) => k \in S
    BY <1>3
  <2> HIDE DEF S
  <2>. QED
    BY <2>1, FromTheLeaves
<1>5. e[Root] = c /\ c # NotEntered /\ Root \in Node
  <2>1. c # NotEntered
    BY DEF NotEntered
  <2>. QED
    BY <2>1, EnteredIs, Nodes DEF e
<1>6. Good(Root)
  BY <1>4, <1>5
<1>. QED
  BY <1>5, <1>6

\* A tree that needs nothing is full.
LEMMA FullWhenNothingNeeded ==
  ASSUME NEW t \in Trees, Shaped(t), Need(t)[Root] = 0
  PROVE  Full(t)
<1> DEFINE S == {k \in Node : k \in DOMAIN t => Need(t)[k] = 0}
<1>1. ASSUME NEW k \in DOMAIN t, ~ Owned(t, k), Need(t)[k] = 0
      PROVE  /\ 2 * k \in Node /\ 2 * k + 1 \in Node
             /\ Need(t)[2 * k] = 0 /\ Need(t)[2 * k + 1] = 0
  <2>1. k \in Node /\ 2 * k \in DOMAIN t
    BY <1>1, TreeIs DEF Shaped
  <2>2. ~ Childless(t, k)
    BY <2>1, ChildrenAre
  <2>3. /\ 2 * k \in Node /\ 2 * k + 1 \in Node
        /\ Need(t)[k] = Need(t)[2 * k] + Need(t)[2 * k + 1]
    BY <1>1, <2>1, <2>2, NeedSplits
  <2>4. Need(t)[2 * k] \in Nat /\ Need(t)[2 * k + 1] \in Nat
    BY <2>3, NeedIs
  <2>. QED
    BY <1>1, <2>3, <2>4
<1>2. ASSUME NEW k \in Node, k # Root => Parent(k) \in S PROVE k \in S
  <2>1. CASE k # Root /\ k \in DOMAIN t
    <3>1. Parent(k) \in DOMAIN t /\ ~ Owned(t, Parent(k)) /\ Parent(k) \in Node
      BY <2>1, Nodes DEF Shaped
    <3>2. Need(t)[2 * Parent(k)] = 0 /\ Need(t)[2 * Parent(k) + 1] = 0
      BY <1>1, <1>2, <2>1, <3>1
    <3>3. k = 2 * Parent(k) \/ k = 2 * Parent(k) + 1
      BY <2>1, Nodes
    <3>4. Need(t)[k] = 0
      BY <3>2, <3>3
    <3>. QED
      BY <3>4
  <2>. QED
    BY <2>1
<1>3. \A k \in Node : k \in S
  <2> HIDE DEF S
  <2>. QED
    BY <1>2, FromTheRoot
<1>4. ASSUME NEW k \in DOMAIN t, ~ Owned(t, k) PROVE {2 * k, 2 * k + 1} \subseteq DOMAIN t
  <2>1. k \in Node /\ 2 * k \in DOMAIN t
    BY <1>4, TreeIs DEF Shaped
  <2>2. 2 * k + 1 \in Node /\ Need(t)[2 * k + 1] = 0
    BY <1>1, <1>3, <1>4, <2>1
  <2>3. ASSUME 2 * k + 1 \notin DOMAIN t PROVE FALSE
    <3> DEFINE n == 2 * k + 1
    <3>1. n \in Node /\ n \notin DOMAIN t
      BY <2>2, <2>3
    <3>2. ASSUME NEW d \in {2 * n, 2 * n + 1}, d \in DOMAIN t PROVE FALSE
      <4> HIDE DEF n
      <4>1. n \in Nat /\ n >= 1
        BY <3>1, ChildrenAre
      <4>2. Parent(d) = n
        BY <3>2, <4>1, Nodes
      <4>3. d # Root
        BY <3>2, <4>1 DEF Root
      <4>. QED
        BY <3>1, <3>2, <4>2, <4>3 DEF Shaped
    <3>3. Need(t)[n] = Worth(n)
      <4> HIDE DEF n
      <4>1. Childless(t, n) /\ ~ Owned(t, n)
        BY <3>1, <3>2, ChildrenAre DEF Owned
      <4>. QED
        BY <3>1, <4>1, NeedIs
    <3>4. Worth(n) >= 1
      BY <2>1, <2>2, WorthIs
    <3>. QED
      BY <2>2, <3>3, <3>4
  <2>. QED
    BY <2>1, <2>3
<1>. QED
  BY <1>4 DEF Full
-----------------------------------------------------------------------------
(* Sums.                                                                   *)

\* The partial sums of a sequence.
IsSum(s, v) == /\ s \in [0 .. Len(v) -> Int] /\ s[0] = 0
               /\ \A n \in 1 .. Len(v) : s[n] = s[n - 1] + v[n]

LEMMA CountUp ==
  ASSUME NEW N \in Nat, NEW S, 0 \in S, \A n \in 1 .. N : n - 1 \in S => n \in S
  PROVE  \A n \in 0 .. N : n \in S
<1> DEFINE rank == [n \in 0 .. N |-> n]
<1>1. \A n \in 0 .. N : (\A m \in 0 .. N : rank[m] < rank[n] => m \in S) => n \in S
  <2>1. \A n \in 0 .. N : n = 0 \/ (n \in 1 .. N /\ n - 1 \in 0 .. N /\ rank[n - 1] < rank[n])
    OBVIOUS
  <2> HIDE DEF rank
  <2>. QED
    BY <2>1
<1>2. rank \in [0 .. N -> Nat]
  OBVIOUS
<1> DEFINE D == 0 .. N
<1>3. D \subseteq S
  <2>1. \A n \in D : (\A m \in D : rank[m] < rank[n] => m \in S) => n \in S
    BY <1>1
  <2>2. rank \in [D -> Nat]
    BY <1>2
  <2> HIDE DEF rank, D
  <2>. QED
    BY <2>1, <2>2, RankInduction
<1>. QED
  BY <1>3

LEMMA TotalIs ==
  ASSUME NEW v \in Seq(Int)
  PROVE  \E s : IsSum(s, v) /\ Total(v) = s[Len(v)]
<1> DEFINE N == Len(v)
           D == 0 .. N
           rank == [n \in D |-> n]
           value(n, f) == IF n = 0 THEN 0 ELSE f[n - 1] + v[n]
           G == [n \in D |-> [f \in [D -> Int] |-> value(n, f)]]
           body(f) == [n \in D |-> value(n, f)]
           sum == CHOOSE f : f = body(f)
<1>0. N \in Nat /\ \A n \in 1 .. N : v[n] \in Int
  OBVIOUS
<1>1. \A n \in D : \A f \in [D -> Int] : G[n][f] = value(n, f)
  <2> HIDE DEF value
  <2>. QED
    OBVIOUS
<1>2. ASSUME NEW n \in D, NEW f, n # 0 => f[n - 1] \in Int PROVE value(n, f) \in Int
  <2>1. n # 0 => v[n] \in Int
    BY <1>0
  <2>. QED
    BY <1>2, <2>1
<1>3. \A n \in D : n # 0 => n - 1 \in D /\ n \in 1 .. N /\ rank[n - 1] < rank[n]
  BY <1>0
<1>4. PICK f \in [D -> Int] : \A n \in D : f[n] = G[n][f]
  <2>1. \A n \in D : \A f \in [D -> Int] : G[n][f] \in Int
    <3>1. ASSUME NEW n \in D, NEW f \in [D -> Int] PROVE value(n, f) \in Int
      <4> HIDE DEF value
      <4>. QED
        BY <1>2, <1>3
    <3> HIDE DEF value, G
    <3>. QED
      BY <1>1, <3>1
  <2>2. \A n \in D : \A f, g \in [D -> Int] :
          (\A m \in D : rank[m] < rank[n] => f[m] = g[m]) => G[n][f] = G[n][g]
    <3>1. ASSUME NEW n \in D, NEW f \in [D -> Int], NEW g \in [D -> Int],
                 \A m \in D : rank[m] < rank[n] => f[m] = g[m]
          PROVE  value(n, f) = value(n, g)
      <4> HIDE DEF rank
      <4>. QED
        BY <1>3, <3>1
    <3> HIDE DEF value, G, rank
    <3>. QED
      BY <1>1, <3>1
  <2>3. rank \in [D -> 0 .. N] /\ 0 \in Int
    BY <1>0
  <2> HIDE DEF value, G, D, rank
  <2>4. LooksBelow(D, rank, Int, G)
    BY <2>1, <2>2 DEF LooksBelow
  <2>5. Solvable(D, Int, G)
    BY <1>0, <2>3, <2>4, RecursionHasSolution
  <2>. QED
    BY <2>5 DEF Solvable
<1>5. f = body(f)
  <2>1. \A n \in D : f[n] = value(n, f)
    BY <1>1, <1>4
  <2> HIDE DEF value, G
  <2>. QED
    BY <2>1, <1>4
<1>6. sum = body(sum)
  <2> HIDE DEF body
  <2>. QED
    BY <1>5
<1>7. Total(v) = sum[N]
  BY DEF Total
<1> HIDE DEF sum
<1>8. sum = [n \in D |-> sum[n]] /\ \A n \in D : sum[n] = value(n, sum)
  <2>1. \A n \in D : body(sum)[n] = value(n, sum)
    OBVIOUS
  <2>2. body(sum) = [n \in D |-> body(sum)[n]]
    OBVIOUS
  <2> HIDE DEF body, value
  <2>. QED
    BY <1>6, <2>1, <2>2
<1> DEFINE S == {n \in D : sum[n] \in Int}
<1>9. \A n \in 0 .. N : n \in S
  <2>1. 0 \in S
    BY <1>0, <1>8, SMTT(40)
  <2>2. ASSUME NEW n \in 1 .. N, n - 1 \in S PROVE n \in S
    <3>1. n \in D
      BY <1>0
    <3>2. sum[n - 1] \in Int
      BY <2>2
    <3> HIDE DEF value, D
    <3>3. value(n, sum) \in Int
      BY <1>2, <3>1, <3>2
    <3>. QED
      BY <1>8, <3>1, <3>3
  <2>3. \A n \in 1 .. N : n - 1 \in S => n \in S
    BY <2>2
  <2> HIDE DEF S, N
  <2>. QED
    BY <1>0, <2>1, <2>3, CountUp
<1>10. sum \in [0 .. N -> Int]
  <2> HIDE DEF value
  <2>. QED
    BY <1>8, <1>9
<1>11. IsSum(sum, v)
  <2>1. sum[0] = 0
    BY <1>0, <1>8, SMTT(40)
  <2>2. ASSUME NEW n \in 1 .. N PROVE sum[n] = sum[n - 1] + v[n]
    <3>1. n \in D /\ n # 0
      BY <1>0
    <3>. QED
      BY <1>8, <3>1
  <2>. QED
    BY <1>10, <2>1, <2>2 DEF IsSum
<1>. QED
  BY <1>7, <1>11

\* Of two sequences the one whose elements are larger has the larger sums, and
\* one element that is d larger makes them larger by d.
LEMMA SumsCompare ==
  ASSUME NEW v \in Seq(Int), NEW w \in Seq(Int), NEW s, NEW r, IsSum(s, v), IsSum(r, w),
         NEW N \in Nat, N <= Len(v), N <= Len(w), \A n \in 1 .. N : v[n] <= w[n]
  PROVE  s[N] <= r[N]
<1> DEFINE S == {n \in 0 .. N : s[n] <= r[n]}
<1>1. 0 \in S
  BY DEF IsSum
<1>2. ASSUME NEW n \in 1 .. N, n - 1 \in S PROVE n \in S
  <2>1. n \in 1 .. Len(v) /\ n \in 1 .. Len(w) /\ n - 1 \in 0 .. Len(v) /\ n - 1 \in 0 .. Len(w)
    OBVIOUS
  <2>2. s[n] = s[n - 1] + v[n] /\ r[n] = r[n - 1] + w[n] /\ s[n - 1] \in Int /\ r[n - 1] \in Int
    BY <2>1 DEF IsSum
  <2>3. v[n] \in Int /\ w[n] \in Int /\ v[n] <= w[n]
    BY <2>1
  <2>4. s[n - 1] <= r[n - 1]
    BY <1>2
  <2>. QED
    BY <2>2, <2>3, <2>4
<1>3. \A n \in 1 .. N : n - 1 \in S => n \in S
  BY <1>2
<1>4. N \in 0 .. N
  OBVIOUS
<1>5. N \in S
  <2> HIDE DEF S
  <2>. QED
    BY <1>1, <1>3, <1>4, CountUp
<1>. QED
  BY <1>5

RaisedAt(v, w, i, d) == /\ Len(w) = Len(v) /\ i \in 1 .. Len(v) /\ w[i] = v[i] + d
                        /\ \A n \in 1 .. Len(v) : n # i => w[n] = v[n]

LEMMA SumsShift ==
  ASSUME NEW v \in Seq(Int), NEW w \in Seq(Int), NEW s, NEW r, IsSum(s, v), IsSum(r, w),
         NEW i, NEW d \in Int, RaisedAt(v, w, i, d)
  PROVE  r[Len(v)] = s[Len(v)] + d
<1>. USE DEF RaisedAt
<1> DEFINE S == {n \in 0 .. Len(v) : r[n] = s[n] + (IF n < i THEN 0 ELSE d)}
<1>0. Len(v) \in Nat
  OBVIOUS
<1>1. 0 \in S
  BY DEF IsSum
<1>2. ASSUME NEW n \in 1 .. Len(v), n - 1 \in S PROVE n \in S
  <2>1. n - 1 \in 0 .. Len(v)
    OBVIOUS
  <2>2. s[n] = s[n - 1] + v[n] /\ r[n] = r[n - 1] + w[n] /\ s[n - 1] \in Int /\ r[n - 1] \in Int
    BY <2>1 DEF IsSum
  <2>3. v[n] \in Int /\ w[n] = IF n = i THEN v[n] + d ELSE v[n]
    OBVIOUS
  <2>4. r[n - 1] = s[n - 1] + (IF n - 1 < i THEN 0 ELSE d)
    BY <1>2
  <2>5. n \in Nat /\ i \in Nat
    OBVIOUS
  <2>6. CASE n < i
    <3>1. n - 1 < i /\ n # i
      BY <2>5, <2>6
    <3>. QED
      BY <2>2, <2>3, <2>4, <2>6, <3>1
  <2>7. CASE n = i
    <3>1. n - 1 < i /\ ~ (n < i)
      BY <2>5, <2>7
    <3>. QED
      BY <2>2, <2>3, <2>4, <2>7, <3>1
  <2>8. CASE n > i
    <3>1. ~ (n - 1 < i) /\ ~ (n < i) /\ n # i
      BY <2>5, <2>8
    <3>2. w[n] = v[n] /\ r[n - 1] = s[n - 1] + d
      BY <2>3, <2>4, <3>1
    <3>3. r[n] = s[n] + d
      BY <2>2, <2>3, <3>2
    <3>. QED
      BY <3>1, <3>3
  <2>. QED
    BY <2>5, <2>6, <2>7, <2>8
<1>3. \A n \in 1 .. Len(v) : n - 1 \in S => n \in S
  BY <1>2
<1>4. Len(v) \in 0 .. Len(v) /\ ~ (Len(v) < i)
  BY <1>0
<1>5. Len(v) \in S
  <2> HIDE DEF S
  <2>. QED
    BY <1>0, <1>1, <1>3, <1>4, CountUp
<1>. QED
  BY <1>4, <1>5

LEMMA TotalOfNothing == Total(<< >>) = 0
<1> DEFINE v == << >>
<1>1. v \in Seq(Int) /\ Len(v) = 0
  OBVIOUS
<1> HIDE DEF v
<1>2. PICK s : IsSum(s, v) /\ Total(v) = s[Len(v)]
  BY <1>1, TotalIs
<1>3. Total(v) = 0
  BY <1>1, <1>2 DEF IsSum
<1>. QED
  BY <1>3 DEF v

LEMMA TotalIsNat ==
  ASSUME NEW v \in Seq(Nat)
  PROVE  Total(v) \in Nat
<1>0. Len(v) \in Nat /\ v \in Seq(Int) /\ \A n \in 1 .. Len(v) : v[n] \in Nat
  OBVIOUS
<1>1. PICK s : IsSum(s, v) /\ Total(v) = s[Len(v)]
  BY <1>0, TotalIs
<1> DEFINE S == {n \in 0 .. Len(v) : s[n] \in Nat}
<1>2. 0 \in S
  BY <1>0, <1>1 DEF IsSum
<1>3. ASSUME NEW n \in 1 .. Len(v), n - 1 \in S PROVE n \in S
  <2>1. s[n] = s[n - 1] + v[n] /\ v[n] \in Nat
    BY <1>0, <1>1 DEF IsSum
  <2>2. s[n - 1] \in Nat
    BY <1>3
  <2>. QED
    BY <2>1, <2>2
<1>4. \A n \in 1 .. Len(v) : n - 1 \in S => n \in S
  BY <1>3
<1>5. Len(v) \in 0 .. Len(v)
  BY <1>0
<1>6. Len(v) \in S
  <2> HIDE DEF S
  <2>. QED
    BY <1>0, <1>2, <1>4, <1>5, CountUp
<1>. QED
  BY <1>1, <1>6

LEMMA TotalOfAppend ==
  ASSUME NEW v \in Seq(Nat), NEW x \in Nat
  PROVE  Total(Append(v, x)) = Total(v) + x
<1> DEFINE w == Append(v, x)
           N == Len(v)
<1>1. /\ N \in Nat /\ v \in Seq(Int) /\ w \in Seq(Int) /\ Len(w) = N + 1 /\ w[N + 1] = x
      /\ \A n \in 1 .. N : w[n] = v[n] /\ v[n] \in Nat
  OBVIOUS
<1>2. PICK s : IsSum(s, v) /\ Total(v) = s[N]
  BY <1>1, TotalIs
<1>3. PICK r : IsSum(r, w) /\ Total(w) = r[N + 1]
  BY <1>1, TotalIs
<1> HIDE DEF w, N
<1>4. N <= Len(w) /\ N <= Len(v)
  BY <1>1 DEF N
<1>5. s[N] <= r[N] /\ r[N] <= s[N]
  <2>1. (\A n \in 1 .. N : v[n] <= w[n]) /\ (\A n \in 1 .. N : w[n] <= v[n])
    BY <1>1
  <2>2. s[N] <= r[N]
    BY <1>1, <1>2, <1>3, <1>4, <2>1, SumsCompare
  <2>3. r[N] <= s[N]
    BY <1>1, <1>2, <1>3, <1>4, <2>1, SumsCompare
  <2>. QED
    BY <2>2, <2>3
<1>6. s[N] \in Int /\ r[N] \in Int
  BY <1>1, <1>2, <1>3 DEF IsSum, N
<1>7. r[N + 1] = r[N + 1 - 1] + w[N + 1]
  BY <1>1, <1>3 DEF IsSum
<1>8. N + 1 - 1 = N
  BY <1>1
<1>9. Total(w) = Total(v) + x
  BY <1>1, <1>2, <1>3, <1>5, <1>6, <1>7, <1>8
<1>. QED
  BY <1>9 DEF w

\* What is counted of a sequence is no more than its total.
LEMMA TotalOfPart ==
  ASSUME NEW v \in Seq(Nat), NEW w \in Seq(Nat), Len(w) = Len(v), \A n \in 1 .. Len(v) : w[n] <= v[n]
  PROVE  Total(w) <= Total(v)
<1>1. v \in Seq(Int) /\ w \in Seq(Int) /\ Len(v) \in Nat
  OBVIOUS
<1>2. PICK s : IsSum(s, v) /\ Total(v) = s[Len(v)]
  BY <1>1, TotalIs
<1>3. PICK r : IsSum(r, w) /\ Total(w) = r[Len(v)]
  BY <1>1, TotalIs
<1>4. Len(v) <= Len(w) /\ Len(v) <= Len(v)
  BY <1>1
<1>5. r[Len(v)] <= s[Len(v)]
  BY <1>1, <1>2, <1>3, <1>4, SumsCompare
<1>. QED
  BY <1>2, <1>3, <1>5

\* max_index is an index, and with the rest the values make up max_value.
LEMMA AdjustedIs ==
  ASSUME NEW v \in Seq(Nat), v # << >>, Total(v) <= MaxValue
  PROVE  /\ AdjustedValues(v) \in Seq(Nat) /\ Len(AdjustedValues(v)) = Len(v)
         /\ Total(AdjustedValues(v)) = MaxValue
<1>0. Len(v) \in Nat /\ Len(v) >= 1 /\ DOMAIN v = 1 .. Len(v) /\ \A n \in 1 .. Len(v) : v[n] \in Nat
  OBVIOUS
<1> DEFINE Ok(i) == (v[i] > 0 \/ i = 1) /\ \A j \in i + 1 .. Len(v) : v[j] = 0
           Large == {i \in DOMAIN v : v[i] > 0}
           Ranks == {Len(v) - i : i \in Large}
<1>1. \E i \in DOMAIN v : Ok(i)
  <2>1. CASE Large = {}
    <3>1. 1 \in DOMAIN v /\ \A j \in 1 + 1 .. Len(v) : v[j] = 0
      BY <1>0, <2>1
    <3>. QED
      BY <3>1
  <2>2. CASE Large # {}
    <3>1. Ranks \subseteq Nat /\ Ranks # {}
      BY <1>0, <2>2
    <3>2. PICK r \in Ranks : \A q \in Ranks : r <= q
      <4> HIDE DEF Ranks
      <4>. QED
        BY <3>1, LeastNat
    <3>3. PICK i \in Large : r = Len(v) - i
      BY <3>2
    <3>4. \A j \in Large : Len(v) - i <= Len(v) - j
      BY <3>2, <3>3
    <3>5. \A j \in i + 1 .. Len(v) : j \notin Large
      BY <1>0, <3>4
    <3>6. \A j \in i + 1 .. Len(v) : v[j] = 0
      BY <1>0, <3>5
    <3>. QED
      BY <3>6
  <2>. QED
    BY <2>1, <2>2
<1> DEFINE m == MaxIndex(v)
           d == MaxValue - Total(v)
           w == AdjustedValues(v)
<1>2. m \in DOMAIN v
  BY <1>1 DEF MaxIndex
<1>3. d \in Nat /\ Total(v) \in Nat
  BY TotalIsNat, SchTreeAssumption
<1>4. w = [v EXCEPT ![m] = @ + MaxValue - Total(v)]
  BY DEF AdjustedValues
<1>5. v[m] + MaxValue - Total(v) = v[m] + d /\ v[m] + d \in Nat
  BY <1>0, <1>2, <1>3, SchTreeAssumption
<1> HIDE DEF m, d, w
<1>6. w \in Seq(Nat) /\ Len(w) = Len(v) /\ w[m] = v[m] + d /\ \A n \in 1 .. Len(v) : n # m => w[n] = v[n]
  BY <1>0, <1>2, <1>4, <1>5
<1>7. v \in Seq(Int) /\ w \in Seq(Int)
  BY <1>6
<1>8. PICK s : IsSum(s, v) /\ Total(v) = s[Len(v)]
  BY <1>7, TotalIs
<1>9. PICK r : IsSum(r, w) /\ Total(w) = r[Len(v)]
  BY <1>6, <1>7, TotalIs
<1>10. r[Len(v)] = s[Len(v)] + d
  <2>1. m \in 1 .. Len(v) /\ d \in Int
    BY <1>0, <1>2, <1>3
  <2>2. RaisedAt(v, w, m, d)
    BY <1>6, <2>1 DEF RaisedAt
  <2>. QED
    BY <1>7, <1>8, <1>9, <2>1, <2>2, SumsShift
<1>11. Total(w) = MaxValue
  BY <1>3, <1>8, <1>9, <1>10, SchTreeAssumption DEF d
<1>. QED
  BY <1>6, <1>11 DEF w
-----------------------------------------------------------------------------
(* The tree that is built of a batch.                                      *)

ShapedTrees == {t \in Trees : Shaped(t)}

LEMMA EmptyTreeIs ==
  EmptyTree \in ShapedTrees /\ DOMAIN EmptyTree = {} /\ Full(EmptyTree) /\ Need(EmptyTree)[Root] = MaxValue
<1>1. DOMAIN EmptyTree = {} /\ EmptyTree \in [{} -> NodeRecords]
  BY DEF EmptyTree
<1>2. EmptyTree \in Trees
  BY <1>1, TreeIs
<1>3. Shaped(EmptyTree) /\ Full(EmptyTree)
  BY <1>1 DEF Shaped, Full
<1>4. Root \in Node
  BY Nodes
<1>5. Childless(EmptyTree, Root) /\ ~ Owned(EmptyTree, Root)
  BY <1>1, <1>2, <1>4, ChildrenAre DEF Owned
<1>6. Need(EmptyTree)[Root] = Worth(Root)
  BY <1>2, <1>4, <1>5, NeedIs
<1>. QED
  BY <1>1, <1>2, <1>3, <1>4, <1>6, WorthIs DEF ShapedTrees

LEMMA InsertStays ==
  ASSUME NEW t \in ShapedTrees, NEW p \in Path, NEW c \in Nat
  PROVE  /\ Insert(t, p, c) \in ShapedTrees /\ Root \in DOMAIN Insert(t, p, c)
         /\ Need(Insert(t, p, c))[Root] = 0 \/ Need(Insert(t, p, c))[Root] + c <= Need(t)[Root]
<1>1. t \in Trees /\ Shaped(t)
  BY DEF ShapedTrees
<1>2. Insert(t, p, c) \in Trees
  BY <1>1, InsertIs
<1>3. Shaped(Insert(t, p, c)) /\ Root \in DOMAIN Insert(t, p, c)
  BY <1>1, InsertKeepsShape
<1>4. Need(Insert(t, p, c))[Root] = 0 \/ Need(Insert(t, p, c))[Root] + c <= Need(t)[Root]
  BY <1>1, NeedShrinks
<1>. QED
  BY <1>2, <1>3, <1>4 DEF ShapedTrees

\* The trees that a batch is built through, one for every path that is in.
IsBuilt(b, paths, values) ==
  /\ b[0] = EmptyTree
  /\ \A n \in 1 .. Len(paths) : b[n] = Insert(b[n - 1], paths[n], values[n])

LEMMA BuiltIs ==
  ASSUME NEW paths \in Seq(Path), NEW values \in Seq(Nat), Len(values) = Len(paths)
  PROVE  \E b : IsBuilt(b, paths, values) /\ BuildTree(paths, values) = b[Len(paths)]
<1> DEFINE N == Len(paths)
           D == 0 .. N
           rank == [n \in D |-> n]
           value(n, f) == IF n = 0 THEN EmptyTree ELSE Insert(f[n - 1], paths[n], values[n])
           G == [n \in D |-> [f \in [D -> ShapedTrees] |-> value(n, f)]]
           body(f) == [n \in D |-> value(n, f)]
           built == CHOOSE f : f = body(f)
<1>0. N \in Nat /\ \A n \in 1 .. N : paths[n] \in Path /\ values[n] \in Nat
  OBVIOUS
<1>1. \A n \in D : \A f \in [D -> ShapedTrees] : G[n][f] = value(n, f)
  <2> HIDE DEF value
  <2>. QED
    OBVIOUS
<1>2. ASSUME NEW n \in D, NEW f, n # 0 => f[n - 1] \in ShapedTrees PROVE value(n, f) \in ShapedTrees
  <2>1. n # 0 => paths[n] \in Path /\ values[n] \in Nat
    BY <1>0
  <2>. QED
    BY <1>2, <2>1, InsertStays, EmptyTreeIs
<1>3. \A n \in D : n # 0 => n - 1 \in D /\ n \in 1 .. N /\ rank[n - 1] < rank[n]
  BY <1>0
<1>4. PICK f \in [D -> ShapedTrees] : \A n \in D : f[n] = G[n][f]
  <2>1. \A n \in D : \A f \in [D -> ShapedTrees] : G[n][f] \in ShapedTrees
    <3>1. ASSUME NEW n \in D, NEW f \in [D -> ShapedTrees] PROVE value(n, f) \in ShapedTrees
      <4> HIDE DEF value
      <4>. QED
        BY <1>2, <1>3
    <3> HIDE DEF value, G
    <3>. QED
      BY <1>1, <3>1
  <2>2. \A n \in D : \A f, g \in [D -> ShapedTrees] :
          (\A m \in D : rank[m] < rank[n] => f[m] = g[m]) => G[n][f] = G[n][g]
    <3>1. ASSUME NEW n \in D, NEW f \in [D -> ShapedTrees], NEW g \in [D -> ShapedTrees],
                 \A m \in D : rank[m] < rank[n] => f[m] = g[m]
          PROVE  value(n, f) = value(n, g)
      <4> HIDE DEF rank
      <4>. QED
        BY <1>3, <3>1
    <3> HIDE DEF value, G, rank
    <3>. QED
      BY <1>1, <3>1, SMTT(30)
  <2>3. rank \in [D -> 0 .. N] /\ ShapedTrees # {}
    BY <1>0, EmptyTreeIs
  <2> HIDE DEF value, G, D, rank
  <2>4. LooksBelow(D, rank, ShapedTrees, G)
    BY <2>1, <2>2 DEF LooksBelow
  <2>5. Solvable(D, ShapedTrees, G)
    BY <1>0, <2>3, <2>4, RecursionHasSolution
  <2>. QED
    BY <2>5 DEF Solvable
<1>5. f = body(f)
  <2>1. \A n \in D : f[n] = value(n, f)
    BY <1>1, <1>4
  <2> HIDE DEF value, G
  <2>. QED
    BY <2>1, <1>4
<1>6. built = body(built)
  <2> HIDE DEF body
  <2>. QED
    BY <1>5
<1>7. BuildTree(paths, values) = built[N]
  BY DEF BuildTree
<1> HIDE DEF built
<1>8. \A n \in D : built[n] = value(n, built)
  <2>1. \A n \in D : body(built)[n] = value(n, built)
    OBVIOUS
  <2> HIDE DEF body, value
  <2>. QED
    BY <1>6, <2>1
<1>9. IsBuilt(built, paths, values)
  <2>1. \A n \in 1 .. N : n \in D /\ n # 0
    BY <1>0
  <2>2. 0 \in D
    BY <1>0
  <2>. QED
    BY <1>8, <2>1, <2>2 DEF IsBuilt
<1>. QED
  BY <1>7, <1>9

\* Values that make up max_value fill the tree.
LEMMA BuildTreeIs ==
  ASSUME NEW paths \in Seq(Path), NEW values \in Seq(Nat), Len(values) = Len(paths),
         Len(paths) = 0 \/ Total(values) = MaxValue
  PROVE  /\ BuildTree(paths, values) \in ShapedTrees /\ Full(BuildTree(paths, values))
<1> DEFINE N == Len(paths)
<1>0. N \in Nat /\ \A n \in 1 .. N : paths[n] \in Path /\ values[n] \in Nat
  OBVIOUS
<1>1. PICK built : IsBuilt(built, paths, values) /\ BuildTree(paths, values) = built[N]
  BY BuiltIs
<1>2. built[0] = EmptyTree /\ \A n \in 1 .. N : built[n] = Insert(built[n - 1], paths[n], values[n])
  BY <1>1 DEF IsBuilt
<1>3. PICK s : IsSum(s, values) /\ Total(values) = s[N]
  BY TotalIs
<1> DEFINE need(n) == Need(built[n])[Root]
           S == {n \in 0 .. N : built[n] \in ShapedTrees /\ (need(n) = 0 \/ need(n) + s[n] <= MaxValue)}
<1>4. 0 \in S
  <2>1. built[0] = EmptyTree /\ 0 \in 0 .. N
    BY <1>0, <1>2
  <2>2. need(0) = MaxValue /\ s[0] = 0 /\ MaxValue \in Nat
    BY <1>3, <2>1, EmptyTreeIs, Nodes DEF IsSum
  <2>. QED
    BY <2>1, <2>2, EmptyTreeIs
<1>5. ASSUME NEW n \in 1 .. N, n - 1 \in S PROVE n \in S
  <2>1. n \in 0 .. N /\ n # 0 /\ n - 1 \in 0 .. N /\ n \in 1 .. Len(values)
    BY <1>0
  <2>2. built[n] = Insert(built[n - 1], paths[n], values[n])
    BY <1>2
  <2>3. built[n - 1] \in ShapedTrees
    BY <1>5
  <2>4. /\ built[n] \in ShapedTrees
        /\ need(n) = 0 \/ need(n) + values[n] <= need(n - 1)
    BY <1>0, <2>2, <2>3, InsertStays
  <2>5. need(n) \in Nat /\ need(n - 1) \in Nat
    <3>1. built[n] \in Trees /\ built[n - 1] \in Trees /\ Root \in Node
      BY <2>3, <2>4, Nodes DEF ShapedTrees
    <3>. QED
      BY <3>1, NeedIs
  <2>6. s[n] = s[n - 1] + values[n] /\ s[n - 1] \in Int /\ values[n] \in Nat
    BY <1>0, <1>3, <2>1 DEF IsSum
  <2>7. need(n - 1) = 0 \/ need(n - 1) + s[n - 1] <= MaxValue
    BY <1>5
  <2> HIDE DEF need
  <2>8. need(n) = 0 \/ need(n) + s[n] <= MaxValue
    BY <2>4, <2>5, <2>6, <2>7, SchTreeAssumption
  <2>. QED
    BY <2>1, <2>4, <2>8
<1>6. N \in S
  <2>1. \A n \in 1 .. N : n - 1 \in S => n \in S
    BY <1>5
  <2>2. N \in 0 .. N
    BY <1>0
  <2> HIDE DEF S
  <2>. QED
    BY <1>0, <1>4, <2>1, <2>2, CountUp
<1>7. built[N] \in ShapedTrees
  BY <1>6
<1>8. Full(built[N])
  <2>1. CASE N = 0
    <3>1. built[N] = EmptyTree
      BY <1>0, <1>2, <2>1
    <3>. QED
      BY <3>1, EmptyTreeIs
  <2>2. CASE N # 0
    <3>1. s[N] = MaxValue
      BY <1>3, <2>2
    <3>2. need(N) \in Nat
      BY <1>7, NeedIs, Nodes DEF ShapedTrees
    <3>3. need(N) = 0 \/ need(N) + s[N] <= MaxValue
      BY <1>6
    <3>4. need(N) = 0
      <4> HIDE DEF need
      <4>. QED
        BY <3>1, <3>2, <3>3, SchTreeAssumption
    <3>. QED
      BY <1>7, <3>4, FullWhenNothingNeeded DEF ShapedTrees
  <2>. QED
    BY <2>1, <2>2
<1>. QED
  BY <1>1, <1>7, <1>8

\* Overlapping the trees changes nothing but next.
LEMMA OverlapIs ==
  ASSUME NEW old \in Trees, NEW t \in ShapedTrees, NEW u, u = OverlapTrees(old, t)
  PROVE  /\ u \in ShapedTrees /\ DOMAIN u = DOMAIN t /\ \A k \in DOMAIN t : u[k].path = t[k].path
         /\ Full(t) => Full(u)
<1>0. t \in Trees /\ Shaped(t)
  BY DEF ShapedTrees
<1>1. /\ DOMAIN t \subseteq Node /\ DOMAIN u = DOMAIN t
      /\ \A k \in DOMAIN t : t[k] \in NodeRecords /\ k \in Nat
  BY <1>0, TreeIs, Nodes DEF OverlapTrees
<1>2. ASSUME NEW k \in DOMAIN t
      PROVE  /\ u[k] \in NodeRecords /\ u[k].path = t[k].path
             /\ u[k].next \in {NoNode, 2 * k, 2 * k + 1}
  <2>1. u[k] \in {t[k], [t[k] EXCEPT !.next = RightOf(t, k)]}
    BY DEF OverlapTrees
  <2>2. RightOf(t, k) \in {NoNode, 2 * k, 2 * k + 1} /\ t[k].next \in {NoNode, 2 * k, 2 * k + 1}
    BY <1>0 DEF Shaped, RightOf
  <2>3. {NoNode, 2 * k, 2 * k + 1} \subseteq 0 .. 8 * MaxValue
    <3>1. k \in Nat /\ k <= 4 * MaxValue - 1 /\ MaxValue \in Nat
      BY <1>1, SchTreeAssumption DEF Node
    <3>. QED
      BY <3>1 DEF NoNode
  <2>4. t[k] \in NodeRecords
    BY <1>1
  <2>. QED
    BY <2>1, <2>2, <2>3, <2>4 DEF NodeRecords
<1>3. \A k : Owned(u, k) <=> Owned(t, k)
  BY <1>1, <1>2 DEF Owned
<1>4. u \in Trees
  <2>1. u = [k \in DOMAIN t |-> u[k]]
    BY DEF OverlapTrees
  <2>2. u \in [DOMAIN t -> NodeRecords]
    BY <1>2, <2>1
  <2>. QED
    BY <1>1, <2>2, TreeIs
<1>5. Shaped(u)
  BY <1>0, <1>1, <1>2, <1>3 DEF Shaped
<1>6. Full(t) => Full(u)
  BY <1>1, <1>3 DEF Full
<1>. QED
  BY <1>1, <1>2, <1>4, <1>5, <1>6 DEF ShapedTrees
-----------------------------------------------------------------------------
(* Sums over finite sets.                                                  *)

\* The parts of SumFunction(f).
Sums(f) == CHOOSE g : g = [s \in SUBSET DOMAIN f |->
   IF s = {} THEN 0 ELSE f[CHOOSE x \in s : TRUE] + g[s \ {CHOOSE x \in s : TRUE}]]

LEMMA SumsSum == ASSUME NEW f PROVE SumFunction(f) = Sums(f)[DOMAIN f]
BY DEF SumFunction, SumFunctionOnSet, FoldFunctionOnSet, MapThenFoldSet, Sums

LEMMA SumsAre ==
  ASSUME NEW X, IsFiniteSet(X), NEW f \in [X -> Nat]
  PROVE  /\ Sums(f) \in [SUBSET X -> Nat] /\ Sums(f)[{}] = 0
         /\ \A s \in SUBSET X : s # {} =>
              Sums(f)[s] = f[CHOOSE x \in s : TRUE] + Sums(f)[s \ {CHOOSE x \in s : TRUE}]
<1> DEFINE D == SUBSET X
           one(s) == CHOOSE x \in s : TRUE
           rank == [s \in D |-> Cardinality(s)]
           N == Cardinality(X)
           value(s, g) == IF s = {} THEN 0 ELSE f[one(s)] + g[s \ {one(s)}]
           G == [s \in D |-> [g \in [D -> Nat] |-> value(s, g)]]
           body(g) == [s \in D |-> value(s, g)]
<1>1. N \in Nat /\ rank \in [D -> 0 .. N]
  <2>1. \A s \in D : Cardinality(s) \in Nat /\ Cardinality(s) <= N
    BY FS_Subset, FS_CardinalityType
  <2>2. N \in Nat
    BY FS_CardinalityType
  <2> HIDE DEF N
  <2>. QED
    BY <2>1, <2>2
<1>2. ASSUME NEW s \in D, s # {}
      PROVE  one(s) \in s /\ s \ {one(s)} \in D /\ rank[s \ {one(s)}] < rank[s]
  <2>1. one(s) \in s
    BY <1>2
  <2>2. s \ {one(s)} \in D /\ IsFiniteSet(s)
    BY FS_Subset
  <2>3. Cardinality(s \ {one(s)}) = Cardinality(s) - 1 /\ Cardinality(s) \in Nat
    BY <2>1, <2>2, FS_RemoveElement, FS_CardinalityType
  <2>4. rank[s] = Cardinality(s) /\ rank[s \ {one(s)}] = Cardinality(s \ {one(s)})
    BY <2>2
  <2> HIDE DEF one, rank, D
  <2>. QED
    BY <2>1, <2>2, <2>3, <2>4
<1>3. \A s \in D : \A g \in [D -> Nat] : G[s][g] = value(s, g)
  <2> HIDE DEF value
  <2>. QED
    OBVIOUS
<1>4. ASSUME NEW s \in D, NEW g, s # {} => g[s \ {one(s)}] \in Nat PROVE value(s, g) \in Nat
  <2>1. s # {} => f[one(s)] \in Nat
    BY <1>2
  <2> HIDE DEF one
  <2>. QED
    BY <1>4, <2>1
<1>5. PICK g \in [D -> Nat] : \A s \in D : g[s] = G[s][g]
  <2> HIDE DEF value, G, D, rank, N
  <2>1. \A s \in D : \A g \in [D -> Nat] : G[s][g] \in Nat
    BY <1>2, <1>3, <1>4
  <2>2. \A s \in D : \A g, h \in [D -> Nat] :
          (\A r \in D : rank[r] < rank[s] => g[r] = h[r]) => G[s][g] = G[s][h]
    <3>1. ASSUME NEW s \in D, NEW g \in [D -> Nat], NEW h \in [D -> Nat],
                 \A r \in D : rank[r] < rank[s] => g[r] = h[r]
          PROVE  value(s, g) = value(s, h)
      BY <1>2, <3>1 DEF value
    <3>. QED
      BY <1>3, <3>1
  <2>3. LooksBelow(D, rank, Nat, G)
    BY <2>1, <2>2 DEF LooksBelow
  <2>4. Nat # {}
    BY Nodes
  <2>5. Solvable(D, Nat, G)
    BY <1>1, <2>3, <2>4, RecursionHasSolution
  <2>. QED
    BY <2>5 DEF Solvable
<1>6. g = body(g)
  <2>1. \A s \in D : g[s] = value(s, g)
    BY <1>3, <1>5
  <2> HIDE DEF value, G, D
  <2>. QED
    BY <1>5, <2>1
<1>7. DOMAIN f = X
  OBVIOUS
<1>8. Sums(f) = CHOOSE h : h = body(h)
  BY <1>7 DEF Sums
<1> DEFINE sums == Sums(f)
<1>9. sums = body(sums)
  <2> HIDE DEF body
  <2>. QED
    BY <1>6, <1>8
<1> HIDE DEF sums
<1>10. sums = [s \in D |-> sums[s]] /\ \A s \in D : sums[s] = value(s, sums)
  <2>1. \A s \in D : body(sums)[s] = value(s, sums)
    OBVIOUS
  <2>2. body(sums) = [s \in D |-> body(sums)[s]]
    OBVIOUS
  <2> HIDE DEF body, value
  <2>. QED
    BY <1>9, <2>1, <2>2
<1> DEFINE S == {s \in D : sums[s] \in Nat}
<1>11. D \subseteq S
  <2>1. ASSUME NEW s \in D, \A r \in D : rank[r] < rank[s] => r \in S PROVE s \in S
    <3> HIDE DEF value, D, rank
    <3>1. s # {} => sums[s \ {one(s)}] \in Nat
      BY <1>2, <2>1
    <3> HIDE DEF one
    <3>2. value(s, sums) \in Nat
      BY <1>4, <3>1
    <3>. QED
      BY <1>10, <3>2
  <2>2. rank \in [D -> Nat]
    BY <1>1
  <2> HIDE DEF S, D, rank
  <2>. QED
    BY <2>1, <2>2, RankInduction
<1>12. sums \in [D -> Nat]
  <2> HIDE DEF D, value
  <2>. QED
    BY <1>10, <1>11
<1>13. sums[{}] = 0 /\ \A s \in D : s # {} => sums[s] = f[one(s)] + sums[s \ {one(s)}]
  <2>1. {} \in D
    OBVIOUS
  <2> HIDE DEF D, one
  <2>. QED
    BY <1>10, <2>1
<1>. QED
  BY <1>12, <1>13 DEF sums

Orderly(X, f) == \A s \in SUBSET X : \A x \in s : Sums(f)[s] = f[x] + Sums(f)[s \ {x}]

\* In which order the elements are taken does not matter.
LEMMA SumsInAnyOrder ==
  ASSUME NEW X, IsFiniteSet(X), NEW f \in [X -> Nat]
  PROVE  Orderly(X, f)
<1> DEFINE D == SUBSET X
           rank == [s \in D |-> Cardinality(s)]
           sums == Sums(f)
           S == {s \in D : \A x \in s : sums[s] = f[x] + sums[s \ {x}]}
<1>1. /\ sums \in [D -> Nat]
      /\ \A s \in D : s # {} => sums[s] = f[CHOOSE x \in s : TRUE] + sums[s \ {CHOOSE x \in s : TRUE}]
  BY SumsAre
<1> HIDE DEF sums
<1>2. ASSUME NEW s \in D, NEW x \in s
      PROVE  s \ {x} \in D /\ rank[s \ {x}] < rank[s]
  <2>1. IsFiniteSet(s) /\ s \ {x} \in D
    BY FS_Subset
  <2>2. Cardinality(s \ {x}) = Cardinality(s) - 1 /\ Cardinality(s) \in Nat
    BY <2>1, FS_RemoveElement, FS_CardinalityType
  <2>3. rank[s] = Cardinality(s) /\ rank[s \ {x}] = Cardinality(s \ {x})
    BY <2>1
  <2> HIDE DEF rank, D
  <2>. QED
    BY <2>1, <2>2, <2>3
<1>3. rank \in [D -> Nat]
  BY FS_Subset, FS_CardinalityType
<1>4. ASSUME NEW s \in D, \A r \in D : rank[r] < rank[s] => r \in S, NEW x \in s
      PROVE  sums[s] = f[x] + sums[s \ {x}]
  <2> DEFINE y == CHOOSE y \in s : TRUE
  <2>1. y \in s /\ sums[s] = f[y] + sums[s \ {y}]
    BY <1>1
  <2> HIDE DEF y, rank
  <2>2. CASE x = y
    BY <2>1, <2>2
  <2>3. CASE x # y
    <3>1. s \ {y} \in S /\ s \ {x} \in S /\ x \in s \ {y} /\ y \in s \ {x}
      BY <1>2, <1>4, <2>1, <2>3
    <3>2. (s \ {y}) \ {x} = (s \ {x}) \ {y} /\ (s \ {x}) \ {y} \in D
      OBVIOUS
    <3>3. sums[s \ {y}] = f[x] + sums[(s \ {y}) \ {x}] /\ sums[s \ {x}] = f[y] + sums[(s \ {x}) \ {y}]
      BY <3>1
    <3>4. f[x] \in Nat /\ f[y] \in Nat /\ sums[(s \ {x}) \ {y}] \in Nat
      BY <1>1, <2>1, <3>2
    <3> DEFINE r == sums[(s \ {x}) \ {y}]
    <3>5. sums[s \ {y}] = f[x] + r /\ sums[s \ {x}] = f[y] + r /\ r \in Nat
      BY <3>2, <3>3, <3>4
    <3> HIDE DEF S, D, r
    <3>6. sums[s] = f[y] + (f[x] + r)
      BY <2>1, <3>5
    <3>. QED
      BY <3>4, <3>5, <3>6
  <2>. QED
    BY <2>2, <2>3
<1>5. D \subseteq S
  <2>1. \A s \in D : (\A r \in D : rank[r] < rank[s] => r \in S) => s \in S
    <3> HIDE DEF rank
    <3>. QED
      BY <1>4
  <2> HIDE DEF S, D, rank
  <2>. QED
    BY <1>3, <2>1, RankInduction
<1>. QED
  BY <1>5 DEF sums, Orderly

\* Of a function on part of the set the sums are the same.
LEMMA SumsOfPart ==
  ASSUME NEW X, IsFiniteSet(X), NEW f \in [X -> Nat], NEW Y \in SUBSET X
  PROVE  SumFunction([y \in Y |-> f[y]]) = Sums(f)[Y]
<1> DEFINE D == SUBSET Y
           rank == [s \in D |-> Cardinality(s)]
<1>0. PICK g : g = [y \in Y |-> f[y]]
  OBVIOUS
<1> DEFINE S == {s \in D : Sums(g)[s] = Sums(f)[s]}
<1>1. IsFiniteSet(Y) /\ g \in [Y -> Nat]
  BY <1>0, FS_Subset
<1>2. /\ Sums(g)[{}] = 0 /\ Sums(f)[{}] = 0
      /\ \A s \in D : \A x \in s : /\ Sums(g)[s] = f[x] + Sums(g)[s \ {x}]
                                   /\ Sums(f)[s] = f[x] + Sums(f)[s \ {x}]
  <2>1. \A s \in D : s \in SUBSET X /\ \A x \in s : g[x] = f[x]
    BY <1>0
  <2>2. \A s \in D : \A x \in s : Sums(g)[s] = g[x] + Sums(g)[s \ {x}]
    <3>1. Orderly(Y, g)
      BY <1>1, SumsInAnyOrder
    <3>. QED
      BY <3>1 DEF Orderly
  <2>3. \A s \in SUBSET X : \A x \in s : Sums(f)[s] = f[x] + Sums(f)[s \ {x}]
    <3>1. Orderly(X, f)
      BY SumsInAnyOrder
    <3>. QED
      BY <3>1 DEF Orderly
  <2>4. Sums(g)[{}] = 0 /\ Sums(f)[{}] = 0
    BY <1>1, SumsAre
  <2> HIDE DEF D
  <2>. QED
    BY <2>1, <2>2, <2>3, <2>4
<1>3. ASSUME NEW s \in D, NEW x \in s
      PROVE  s \ {x} \in D /\ rank[s \ {x}] < rank[s]
  <2>1. IsFiniteSet(s) /\ s \ {x} \in D
    BY <1>1, FS_Subset
  <2>2. Cardinality(s \ {x}) = Cardinality(s) - 1 /\ Cardinality(s) \in Nat
    BY <2>1, FS_RemoveElement, FS_CardinalityType
  <2>3. rank[s] = Cardinality(s) /\ rank[s \ {x}] = Cardinality(s \ {x})
    BY <2>1
  <2> HIDE DEF rank, D
  <2>. QED
    BY <2>1, <2>2, <2>3
<1>4. rank \in [D -> Nat]
  BY <1>1, FS_Subset, FS_CardinalityType
<1>5. D \subseteq S
  <2>1. ASSUME NEW s \in D, \A r \in D : rank[r] < rank[s] => r \in S PROVE s \in S
    <3> HIDE DEF rank
    <3>1. CASE s = {}
      BY <1>2, <3>1
    <3>2. CASE s # {}
      <4>1. PICK x \in s : TRUE
        BY <3>2
      <4>2. Sums(g)[s \ {x}] = Sums(f)[s \ {x}]
        BY <1>3, <2>1
      <4>. QED
        BY <1>2, <4>2
    <3>. QED
      BY <3>1, <3>2
  <2> HIDE DEF S, D, rank
  <2>. QED
    BY <1>4, <2>1, RankInduction
<1>6. DOMAIN g = Y /\ Y \in S
  BY <1>0, <1>5
<1>. QED
  BY <1>0, <1>6, SumsSum

\* A sum is what one element adds and the sum of the others.
LEMMA SumWithout ==
  ASSUME NEW X, IsFiniteSet(X), NEW f \in [X -> Nat]
  PROVE  /\ SumFunction(f) \in Nat
         /\ X = {} => SumFunction(f) = 0
         /\ \A x \in X : /\ SumFunction([y \in X \ {x} |-> f[y]]) \in Nat
                         /\ SumFunction(f) = f[x] + SumFunction([y \in X \ {x} |-> f[y]])
<1>1. SumFunction(f) = Sums(f)[X] /\ DOMAIN f = X /\ X \in SUBSET X
  BY SumsSum
<1>2. Sums(f) \in [SUBSET X -> Nat] /\ Sums(f)[{}] = 0
  BY SumsAre
<1>3. \A x \in X : SumFunction([y \in X \ {x} |-> f[y]]) = Sums(f)[X \ {x}]
  BY SumsOfPart
<1>4. \A x \in X : Sums(f)[X] = f[x] + Sums(f)[X \ {x}]
  BY <1>1, SumsInAnyOrder DEF Orderly
<1>. QED
  BY <1>1, <1>2, <1>3, <1>4

LEMMA SumOfChange ==
  ASSUME NEW X, IsFiniteSet(X), NEW f \in [X -> Nat], NEW g \in [X -> Nat], NEW x \in X,
         \A y \in X \ {x} : f[y] = g[y]
  PROVE  SumFunction(g) + f[x] = SumFunction(f) + g[x]
<1>1. [y \in X \ {x} |-> f[y]] = [y \in X \ {x} |-> g[y]]
  OBVIOUS
<1> DEFINE others == SumFunction([y \in X \ {x} |-> f[y]])
<1>2. others \in Nat /\ SumFunction(f) = f[x] + others
  BY SumWithout
<1>3. SumFunction(g) = g[x] + others
  BY <1>1, SumWithout
<1> HIDE DEF others
<1>4. f[x] \in Nat /\ g[x] \in Nat
  OBVIOUS
<1>. QED
  BY <1>2, <1>3, <1>4

LEMMA SumOfZeros ==
  ASSUME NEW X, IsFiniteSet(X), NEW f \in [X -> Nat], \A x \in X : f[x] = 0
  PROVE  SumFunction(f) = 0
<1> DEFINE D == SUBSET X
           rank == [s \in D |-> Cardinality(s)]
           S == {s \in D : Sums(f)[s] = 0}
<1>1. rank \in [D -> Nat]
  BY FS_Subset, FS_CardinalityType
<1>2. Sums(f) \in [D -> Nat] /\ Sums(f)[{}] = 0 /\ Orderly(X, f)
  BY SumsAre, SumsInAnyOrder
<1>3. ASSUME NEW s \in D, \A r \in D : rank[r] < rank[s] => r \in S PROVE s \in S
  <2>1. CASE s = {}
    BY <1>2, <2>1
  <2>2. CASE s # {}
    <3>1. PICK x \in s : TRUE
      BY <2>2
    <3>2. IsFiniteSet(s) /\ s \ {x} \in D
      BY FS_Subset
    <3>3. Cardinality(s \ {x}) = Cardinality(s) - 1 /\ Cardinality(s) \in Nat
      BY <3>1, <3>2, FS_RemoveElement, FS_CardinalityType
    <3>4. rank[s] = Cardinality(s) /\ rank[s \ {x}] = Cardinality(s \ {x})
      BY <3>2
    <3>5. rank[s \ {x}] < rank[s]
      <4> HIDE DEF rank
      <4>. QED
        BY <3>3, <3>4
    <3>6. Sums(f)[s \ {x}] = 0
      BY <1>3, <3>2, <3>5
    <3>7. Sums(f)[s] = f[x] + Sums(f)[s \ {x}] /\ f[x] = 0
      BY <1>2, <3>1 DEF Orderly
    <3>. QED
      BY <3>6, <3>7
  <2>. QED
    BY <2>1, <2>2
<1>4. D \subseteq S
  <2> HIDE DEF S, D, rank
  <2>. QED
    BY <1>1, <1>3, RankInduction
<1>5. X \in S /\ DOMAIN f = X
  BY <1>4
<1>. QED
  BY <1>5, SumsSum

\* Of numbers the sum can be taken in their order.
Lists(v, f) ==
  /\ v \in Seq(Nat) /\ f \in [DOMAIN f -> Nat] /\ DOMAIN f \subseteq 1 .. Len(v)
  /\ \A n \in 1 .. Len(v) : v[n] = IF n \in DOMAIN f THEN f[n] ELSE 0

LEMMA SumInOrder ==
  ASSUME NEW v, NEW f, Lists(v, f)
  PROVE  SumFunction(f) = Total(v)
<1> DEFINE N == Len(v)
           X == DOMAIN f
<1>0. /\ N \in Nat /\ X \in SUBSET (1 .. N) /\ v \in Seq(Nat) /\ f \in [X -> Nat]
      /\ \A n \in 1 .. N : v[n] \in Nat /\ v[n] = IF n \in X THEN f[n] ELSE 0
  BY DEF Lists
<1> HIDE DEF X
<1>1. IsFiniteSet(1 .. N) /\ IsFiniteSet(X)
  <2>1. IsFiniteSet(1 .. N)
    BY <1>0, FS_Interval
  <2>. QED
    BY <1>0, <2>1, FS_Subset
<1>2. Sums(f) \in [SUBSET X -> Nat] /\ Sums(f)[{}] = 0 /\ Orderly(X, f)
  BY <1>0, <1>1, SumsAre, SumsInAnyOrder
<1>3. v \in Seq(Int)
  BY <1>0
<1>4. PICK s : IsSum(s, v) /\ Total(v) = s[Len(v)]
  BY <1>3, TotalIs
<1> DEFINE part(n) == X \cap (1 .. n)
           S == {n \in 0 .. N : Sums(f)[part(n)] = s[n]}
<1>5. 0 \in S
  <2>1. part(0) = {}
    OBVIOUS
  <2>. QED
    BY <1>2, <1>4, <2>1 DEF IsSum
<1>6. ASSUME NEW n \in 1 .. N, n - 1 \in S PROVE n \in S
  <2>1. s[n] = s[n - 1] + v[n] /\ v[n] \in Nat /\ s[n - 1] \in Int
    <3>1. n - 1 \in 0 .. N /\ v[n] \in Nat
      BY <1>0
    <3>. QED
      BY <1>4, <3>1 DEF IsSum
  <2>2. Sums(f)[part(n - 1)] = s[n - 1]
    BY <1>6
  <2>3. CASE n \in X
    <3>1. part(n) \ {n} = part(n - 1) /\ n \in part(n) /\ part(n) \in SUBSET X
      BY <1>0, <2>3
    <3>2. Sums(f)[part(n)] = f[n] + Sums(f)[part(n) \ {n}]
      BY <1>2, <3>1 DEF Orderly
    <3>3. v[n] = f[n]
      BY <1>0, <2>3
    <3> HIDE DEF part
    <3>4. Sums(f)[part(n)] = v[n] + Sums(f)[part(n - 1)]
      BY <3>1, <3>2, <3>3
    <3>5. Sums(f)[part(n)] = s[n]
      BY <2>1, <2>2, <3>4
    <3>. QED
      BY <3>5
  <2>4. CASE n \notin X
    <3>1. part(n) = part(n - 1)
      BY <1>0, <2>4
    <3>2. v[n] = 0
      BY <1>0, <2>4
    <3> HIDE DEF part
    <3>. QED
      BY <2>1, <2>2, <3>1, <3>2
  <2>. QED
    BY <2>3, <2>4
<1>7. N \in S
  <2>1. \A n \in 1 .. N : n - 1 \in S => n \in S
    BY <1>6
  <2>2. N \in 0 .. N
    BY <1>0
  <2> HIDE DEF S, N
  <2>. QED
    BY <1>0, <1>5, <2>1, <2>2, CountUp
<1>8. part(N) = X
  BY <1>0
<1>. QED
  BY <1>4, <1>7, <1>8, SumsSum DEF X
-----------------------------------------------------------------------------
(* The units a path gets.                                                  *)

\* The nodes of a level lie between its weight and twice that, and the last
\* level, below the units, begins with twice max_value.
LEMMA LevelsLie ==
  ASSUME NEW k \in Node
  PROVE  /\ Weight[k] <= k
         /\ LevelValue[k] = 0 <=> k >= 2 * MaxValue
<1>0. LevelValue \in [Node -> Nat] /\ Weight \in [Node -> Nat] /\ MaxValue \in Nat /\ MaxValue >= 1
  BY LevelValueIs, WeightIs, SchTreeAssumption
<1> DEFINE S == {n \in Node : Weight[n] <= n /\ (LevelValue[n] = 0 => Weight[n] >= 2 * MaxValue)}
<1>1. ASSUME NEW n \in Node, n # Root => Parent(n) \in S PROVE n \in S
  <2>1. CASE n = Root
    BY <1>0, <2>1, WeightIs, LevelValueIs DEF Root
  <2>2. CASE n # Root
    <3> DEFINE m == Parent(n)
    <3>1. /\ m \in Node /\ m \in Nat /\ n \in Nat /\ (n = 2 * m \/ n = 2 * m + 1)
          /\ Weight[m] \in Nat /\ Weight[m] <= m /\ LevelValue[m] \in Nat
          /\ LevelValue[m] = 0 => Weight[m] >= 2 * MaxValue
      BY <1>0, <1>1, <2>2, Nodes
    <3>2. Weight[n] = 2 * Weight[m] /\ LevelValue[n] = LevelValue[m] \div 2
      BY <2>2, WeightIs, LevelValueIs
    <3>3. LevelValue[m] = 1 => Weight[m] = MaxValue
      <4>1. LevelValue[m] = 1 => Weight[m] * 1 = MaxValue
        BY <3>1, LevelsHalve
      <4> HIDE DEF m
      <4>. QED
        BY <3>1, <4>1
    <3> HIDE DEF m
    <3>4. LevelValue[n] = 0 => LevelValue[m] \in {0, 1}
      BY <3>1, <3>2
    <3>5. LevelValue[n] = 0 => Weight[n] >= 2 * MaxValue
      BY <1>0, <3>1, <3>2, <3>3, <3>4
    <3>6. Weight[n] <= n
      BY <3>1, <3>2
    <3>. QED
      BY <3>5, <3>6
  <2>. QED
    BY <2>1, <2>2
<1>2. k \in S
  <2> HIDE DEF S
  <2>. QED
    BY <1>1, FromTheRoot
<1>3. k < 2 * Weight[k] /\ k \in Nat
  BY WeightIs, Nodes
<1>4. LevelValue[k] >= 1 => k < 2 * MaxValue
  <2>1. LevelValue[k] >= 1 => Weight[k] * LevelValue[k] = MaxValue /\ Weight[k] >= 1
    BY LevelsHalve, WeightIs
  <2>2. LevelValue[k] >= 1 => Weight[k] <= MaxValue
    BY <1>0, <2>1, Products
  <2>. QED
    BY <1>0, <1>3, <2>2
<1>5. Weight[k] <= k /\ (LevelValue[k] = 0 => Weight[k] >= 2 * MaxValue)
  BY <1>2
<1>. QED
  BY <1>0, <1>3, <1>4, <1>5

\* What a node has by itself and what its subtree has.
Accumulates(a, w) ==
  \A k \in Node : a[k] = IF 2 * k \in Node THEN w[k] + a[2 * k] + a[2 * k + 1] ELSE w[k]

\* The root accumulates all there is: nodes are left one after the other for
\* their children.
LEMMA RootHasAll ==
  ASSUME NEW w \in [Node -> Nat], NEW a \in [Node -> Nat], Accumulates(a, w)
  PROVE  a[Root] = Total(w)
<1> DEFINE N == 4 * MaxValue - 1
           end(n) == IF 2 * n + 1 <= N THEN 2 * n + 1 ELSE N
<1>0. /\ N \in Nat /\ N >= 3 /\ N % 2 = 1 /\ Node = 1 .. N
      /\ \A n \in Nat : 2 * n <= N => 2 * n + 1 <= N
  BY SchTreeAssumption DEF Node
<1>1. w \in Seq(Int) /\ Len(w) = N /\ a \in Seq(Int) /\ Len(a) = N
  <2> HIDE DEF N
  <2>. QED
    BY <1>0
<1>2. PICK s : IsSum(s, w) /\ Total(w) = s[N]
  BY <1>1, TotalIs
<1>3. PICK r : IsSum(r, a) /\ Total(a) = r[N]
  BY <1>1, TotalIs
<1> HIDE DEF N
<1>4. /\ s[0] = 0 /\ r[0] = 0 /\ \A n \in 0 .. N : s[n] \in Int /\ r[n] \in Int
      /\ \A n \in 1 .. N : s[n] = s[n - 1] + w[n] /\ r[n] = r[n - 1] + a[n]
  BY <1>1, <1>2, <1>3 DEF IsSum
<1> DEFINE S == {n \in 0 .. N : a[Root] = s[n] + r[end(n)] - r[n]}
<1>5. 0 \in S
  <2>1. end(0) = 1 /\ 1 \in 1 .. N /\ 0 \in 0 .. N
    BY <1>0
  <2>2. r[1] = a[1] /\ a[1] \in Nat
    BY <1>0, <1>4, <2>1
  <2>. QED
    BY <1>4, <2>1, <2>2 DEF Root
<1>6. ASSUME NEW n \in 1 .. N, n - 1 \in S PROVE n \in S
  <2>1. a[Root] = s[n - 1] + r[end(n - 1)] - r[n - 1]
    BY <1>6
  <2>2. n \in Node /\ n - 1 \in 0 .. N /\ n \in 0 .. N /\ n \in Nat
    BY <1>0
  <2>3. s[n] = s[n - 1] + w[n] /\ r[n] = r[n - 1] + a[n] /\ w[n] \in Nat /\ a[n] \in Nat
    BY <1>4, <2>2
  <2>4. CASE 2 * n <= N
    <3>1. 2 * n \in Node /\ 2 * n + 1 \in Node /\ 2 * n - 1 \in 0 .. N
      BY <1>0, <2>2, <2>4
    <3>2. end(n) = 2 * n + 1 /\ end(n - 1) = 2 * n - 1
      BY <1>0, <2>2, <2>4
    <3>3. a[n] = w[n] + a[2 * n] + a[2 * n + 1] /\ a[2 * n] \in Nat /\ a[2 * n + 1] \in Nat
      BY <2>2, <3>1 DEF Accumulates
    <3>4. r[2 * n] = r[2 * n - 1] + a[2 * n]
      BY <1>0, <1>4, <3>1
    <3>5. r[2 * n + 1] = r[2 * n] + a[2 * n + 1]
      <4>1. 2 * n + 1 \in 1 .. N /\ 2 * n + 1 - 1 = 2 * n
        BY <1>0, <2>2, <3>1
      <4>. QED
        BY <1>4, <4>1
    <3>6. s[n - 1] \in Int /\ r[n - 1] \in Int /\ r[2 * n - 1] \in Int
      BY <1>4, <2>2, <3>1
    <3> DEFINE x == r[2 * n - 1]
               y == r[2 * n + 1]
    <3>7. y = x + a[2 * n] + a[2 * n + 1] /\ a[Root] = s[n - 1] + x - r[n - 1] /\ x \in Int
      BY <2>1, <3>2, <3>3, <3>4, <3>5, <3>6
    <3> HIDE DEF x, y, end
    <3>8. a[Root] = s[n] + y - r[n]
      BY <2>3, <3>3, <3>6, <3>7
    <3>. QED
      BY <2>2, <3>2, <3>8 DEF y
  <2>5. CASE ~ (2 * n <= N)
    <3>1. 2 * n \notin Node
      BY <1>0, <2>5
    <3>2. end(n) = N /\ end(n - 1) = N
      BY <1>0, <2>2, <2>5
    <3>3. a[n] = w[n]
      BY <2>2, <3>1 DEF Accumulates
    <3>4. s[n - 1] \in Int /\ r[n - 1] \in Int /\ r[N] \in Int
      BY <1>0, <1>4, <2>2
    <3> HIDE DEF end
    <3>5. a[Root] = s[n] + r[N] - r[n]
      BY <2>1, <2>3, <3>2, <3>3, <3>4
    <3>. QED
      BY <2>2, <3>2, <3>5
  <2>. QED
    BY <2>4, <2>5
<1>7. N \in S
  <2>1. \A n \in 1 .. N : n - 1 \in S => n \in S
    BY <1>6
  <2>2. N \in 0 .. N
    BY <1>0
  <2> HIDE DEF S
  <2>. QED
    BY <1>0, <1>5, <2>1, <2>2, CountUp
<1>8. end(N) = N /\ s[N] \in Int /\ r[N] \in Int
  BY <1>0, <1>4
<1>. QED
  BY <1>2, <1>7, <1>8

\* The sum over some of the nodes.
LEMMA RootHasPart ==
  ASSUME NEW L \in SUBSET Node, NEW f \in [L -> Nat], NEW a \in [Node -> Nat],
         Accumulates(a, [k \in Node |-> IF k \in L THEN f[k] ELSE 0])
  PROVE  SumFunction(f) = a[Root]
<1> DEFINE w == [k \in Node |-> IF k \in L THEN f[k] ELSE 0]
           N == 4 * MaxValue - 1
<1>1. w \in [Node -> Nat] /\ \A k \in Node : w[k] = IF k \in L THEN f[k] ELSE 0
  OBVIOUS
<1>2. N \in Nat /\ Node = 1 .. N
  BY SchTreeAssumption DEF Node
<1>3. Accumulates(a, w)
  OBVIOUS
<1> HIDE DEF w, N
<1>4. w \in Seq(Nat) /\ Len(w) = N
  BY <1>1, <1>2
<1>5. SumFunction(f) = Total(w)
  <2>1. DOMAIN f = L /\ L \subseteq 1 .. N /\ f \in [L -> Nat]
    BY <1>2
  <2>2. Lists(w, f)
    BY <1>1, <1>2, <1>4, <2>1 DEF Lists
  <2>. QED
    BY <2>2, SumInOrder
<1>. QED
  BY <1>1, <1>3, <1>5, RootHasAll

LeavesOf(t, p) == {k \in DOMAIN t : t[k].path = p}

\* What insertion takes goes to the path, and all else stays whose it was.
Taken(t, c) == {k \in Node : Entered(t, c)[k] # NotEntered /\ Takes(t, k, Entered(t, c)[k])}

LEMMA InsertGives ==
  ASSUME NEW t \in Trees, NEW p \in Path, NEW c \in Nat
  PROVE  /\ LeavesOf(Insert(t, p, c), p) = LeavesOf(t, p) \cup Taken(t, c)
         /\ \A q \in Path \ {p} : LeavesOf(Insert(t, p, c), q) = LeavesOf(t, q)
<1> DEFINE u == Insert(t, p, c)
           visited == {k \in Node : Entered(t, c)[k] # NotEntered}
           taken == {k \in visited : Takes(t, k, Entered(t, c)[k])}
           node(k) == IF k \in DOMAIN t THEN t[k] ELSE NewNode
           at(k) == IF k \in taken THEN [node(k) EXCEPT !.path = p] ELSE node(k)
<1>1. u = [k \in DOMAIN t \cup visited |-> at(k)]
  BY DEF Insert
<1>2. taken = Taken(t, c) /\ taken \subseteq visited
  BY DEF Taken
<1>3. ASSUME NEW k \in taken PROVE ~ (k \in DOMAIN t /\ t[k].path # NoPath)
  BY DEF Takes, Owned
<1>4. \A k : node(k) \in NodeRecords /\ NewNode.path = NoPath
  <2>1. NewNode \in NodeRecords /\ NewNode.path = NoPath
    BY SchTreeAssumption DEF NewNode, NodeRecords, NoNode
  <2>. QED
    BY <2>1, TreeIs
<1>5. \A k : at(k).path = IF k \in taken THEN p ELSE node(k).path
  <2> HIDE DEF taken, node
  <2>. QED
    BY <1>4 DEF NodeRecords
<1>6. \A k : node(k).path = IF k \in DOMAIN t THEN t[k].path ELSE NoPath
  BY <1>4
<1>7. DOMAIN u = DOMAIN t \cup visited /\ \A k \in DOMAIN u : u[k] = at(k)
  <2> HIDE DEF at, visited
  <2>. QED
    BY <1>1
<1> HIDE DEF u, visited, taken, at, node
<1>8. \A k \in DOMAIN u : u[k].path = IF k \in taken THEN p
                                      ELSE IF k \in DOMAIN t THEN t[k].path ELSE NoPath
  BY <1>5, <1>6, <1>7
<1>9. NoPath \notin Path
  BY SchTreeAssumption
<1>10. LeavesOf(u, p) = LeavesOf(t, p) \cup taken
  BY <1>2, <1>3, <1>7, <1>8, <1>9 DEF LeavesOf
<1>11. \A q \in Path \ {p} : LeavesOf(u, q) = LeavesOf(t, q)
  BY <1>2, <1>3, <1>7, <1>8, <1>9 DEF LeavesOf
<1>. QED
  BY <1>2, <1>10, <1>11 DEF u

\* What is taken is worth what is not left over.
LEMMA TakenIsWorth ==
  ASSUME NEW t \in Trees, NEW c \in Nat, NEW m \in {1, 2},
         NEW f, f = [k \in Taken(t, c) |-> m * LevelValue[k]]
  PROVE  /\ Rest(t)[Root][c] \in 0 .. c
         /\ SumFunction(f) = m * (c - Rest(t)[Root][c])
<1> DEFINE e == Entered(t, c)
           rest == Rest(t)
           a == [k \in Node |-> IF e[k] = NotEntered THEN 0 ELSE m * (e[k] - rest[k][e[k]])]
           w == [k \in Node |-> IF k \in Taken(t, c) THEN f[k] ELSE 0]
           S == {k \in Node : \A d \in Nat : rest[k][d] <= d}
<1>0. \A k \in Node : LevelValue[k] \in Nat
  BY LevelValueIs
<1>1. \A k \in Node : \A d \in Nat : rest[k][d] \in Nat /\ rest[k][d] = RestOf(t, k, d, rest)
  BY RestIs
<1> HIDE DEF e, rest
<1>2. ASSUME NEW k \in Node, \A n \in {2 * k, 2 * k + 1} : n \in Node => n \in S, NEW d \in Nat
      PROVE  rest[k][d] <= d
  <2>1. CASE Owned(t, k) \/ Takes(t, k, d)
    BY <1>0, <1>1, <2>1 DEF RestOf, Takes
  <2>2. CASE ~ Owned(t, k) /\ ~ Takes(t, k, d)
    <3>1. 2 * k \in Node /\ 2 * k + 1 \in Node
      BY <1>0, <2>2, BothChildren DEF Takes
    <3> DEFINE left == rest[2 * k][d]
    <3>2. left \in Nat /\ left <= d
      BY <1>1, <1>2, <3>1
    <3>3. rest[2 * k + 1][left] \in Nat /\ rest[2 * k + 1][left] <= left
      <4> HIDE DEF left
      <4>. QED
        BY <1>1, <1>2, <3>1, <3>2
    <3>4. rest[k][d] = IF left < 1 THEN left ELSE rest[2 * k + 1][left]
      BY <1>1, <2>2 DEF RestOf
    <3> HIDE DEF left
    <3>. QED
      BY <3>2, <3>3, <3>4
  <2>. QED
    BY <2>1, <2>2
<1>3. \A k \in Node : k \in S
  <2>1. \A k \in Node : (\A n \in {2 * k, 2 * k + 1} : n \in Node => n \in S) => k \in S
    BY <1>2
  <2> HIDE DEF S
  <2>. QED
    BY <2>1, FromTheLeaves
<1>4. \A k \in Node : \A d \in Nat : rest[k][d] \in Nat /\ rest[k][d] <= d
  BY <1>1, <1>3
<1>5. e \in [Node -> Nat \cup {NotEntered}] /\ e[Root] = c /\ Root \in Node
  BY EnteredIs, Nodes DEF e
<1>6. a \in [Node -> Nat] /\ \A k \in Node : a[k] = IF e[k] = NotEntered THEN 0 ELSE m * (e[k] - rest[k][e[k]])
  <2>1. ASSUME NEW k \in Node, e[k] # NotEntered PROVE m * (e[k] - rest[k][e[k]]) \in Nat
    <3>1. e[k] \in Nat
      BY <1>5, <2>1
    <3>2. rest[k][e[k]] \in Nat /\ rest[k][e[k]] <= e[k]
      BY <1>4, <3>1
    <3>. QED
      BY <3>1, <3>2
  <2>. QED
    BY <2>1
<1>7. /\ \A k \in Node : w[k] = IF e[k] # NotEntered /\ Takes(t, k, e[k]) THEN m * LevelValue[k] ELSE 0
      /\ w = [k \in Node |-> IF k \in Taken(t, c) THEN f[k] ELSE 0]
  BY DEF Taken, e
<1> HIDE DEF a, w, S
<1>8. ASSUME NEW k \in Node
      PROVE  a[k] = IF 2 * k \in Node THEN w[k] + a[2 * k] + a[2 * k + 1] ELSE w[k]
  <2>0. e[k] \in Nat \cup {NotEntered} /\ NotEntered \notin Nat
    BY <1>5 DEF NotEntered
  <2>1. 2 * k \in Node => 2 * k + 1 \in Node
    <3>1. k \in Nat /\ MaxValue \in Nat
      BY Nodes
    <3>. QED
      BY <3>1 DEF Node
  <2>2. CASE e[k] = NotEntered \/ Owned(t, k) \/ Takes(t, k, e[k])
    <3>1. \A n \in {2 * k, 2 * k + 1} : n \in Node => e[n] = NotEntered
      BY <2>2, EnteredBelow DEF e
    <3>2. \A n \in {2 * k, 2 * k + 1} : n \in Node => a[n] = 0
      BY <1>6, <3>1
    <3>3. a[k] = w[k] /\ w[k] \in Nat
      <4>1. CASE e[k] = NotEntered
        BY <1>6, <1>7, <4>1
      <4>2. CASE e[k] # NotEntered /\ Owned(t, k)
        <5>1. rest[k][e[k]] = e[k] /\ ~ Takes(t, k, e[k])
          BY <1>1, <2>0, <4>2 DEF RestOf, Takes
        <5>2. w[k] = 0 /\ a[k] = m * (e[k] - e[k])
          BY <1>6, <1>7, <4>2, <5>1
        <5>. QED
          BY <2>0, <4>2, <5>2
      <4>3. CASE e[k] # NotEntered /\ Takes(t, k, e[k])
        <5>1. rest[k][e[k]] = e[k] - LevelValue[k]
          BY <1>1, <2>0, <4>3 DEF RestOf, Takes
        <5>2. w[k] = m * LevelValue[k] /\ a[k] = m * (e[k] - (e[k] - LevelValue[k]))
          BY <1>6, <1>7, <4>3, <5>1
        <5>. QED
          BY <1>0, <2>0, <4>3, <5>2
      <4>. QED
        BY <2>2, <4>1, <4>2, <4>3
    <3>. QED
      BY <2>1, <3>2, <3>3
  <2>3. CASE e[k] # NotEntered /\ ~ Owned(t, k) /\ ~ Takes(t, k, e[k])
    <3> DEFINE left == rest[2 * k][e[k]]
               right == rest[2 * k + 1][left]
    <3>1. /\ 2 * k \in Node /\ 2 * k + 1 \in Node /\ e[2 * k] = e[k]
          /\ e[2 * k + 1] = IF left < 1 THEN NotEntered ELSE left
      BY <2>3, EnteredBelow DEF e, rest
    <3>2. left \in Nat /\ left <= e[k] /\ e[k] \in Nat
      BY <1>4, <2>0, <2>3, <3>1
    <3>3. right \in Nat /\ right <= left
      BY <1>4, <3>1, <3>2
    <3>4. rest[k][e[k]] = IF left < 1 THEN left ELSE right
      BY <1>1, <2>3, <3>2 DEF RestOf
    <3>5. a[k] = m * (e[k] - (IF left < 1 THEN left ELSE right)) /\ w[k] = 0
      BY <1>6, <1>7, <2>3, <3>4
    <3>6. a[2 * k] = m * (e[k] - left)
      BY <1>6, <2>3, <3>1
    <3>7. a[2 * k + 1] = IF left < 1 THEN 0 ELSE m * (left - right)
      <4>1. CASE left < 1
        BY <1>6, <3>1, <4>1
      <4>2. CASE ~ (left < 1)
        <5>1. e[2 * k + 1] = left /\ left # NotEntered
          BY <2>0, <3>1, <3>2, <4>2
        <5> HIDE DEF left
        <5>. QED
          BY <1>6, <3>1, <4>2, <5>1
      <4>. QED
        BY <4>1, <4>2
    <3> HIDE DEF left, right
    <3>8. a[k] = w[k] + a[2 * k] + a[2 * k + 1]
      <4>1. CASE m = 1
        BY <3>2, <3>3, <3>5, <3>6, <3>7, <4>1
      <4>2. CASE m = 2
        BY <3>2, <3>3, <3>5, <3>6, <3>7, <4>2
      <4>. QED
        BY <4>1, <4>2
    <3>. QED
      BY <3>1, <3>8
  <2>. QED
    BY <2>2, <2>3
<1>9. Accumulates(a, w)
  BY <1>8 DEF Accumulates
<1>10. Taken(t, c) \in SUBSET Node /\ f \in [Taken(t, c) -> Nat]
  BY <1>0 DEF Taken
<1>11. SumFunction(f) = a[Root]
  BY <1>6, <1>7, <1>9, <1>10, RootHasPart
<1>12. c # NotEntered
  BY DEF NotEntered
<1>. QED
  BY <1>4, <1>5, <1>6, <1>11, <1>12 DEF rest
-----------------------------------------------------------------------------
(* How much of the tree is left, in whole units.                           *)

Room(t) == CHOOSE n \in [Node -> Nat] :
  \A k \in Node : n[k] = IF Owned(t, k) THEN 0
                         ELSE IF Childless(t, k) THEN LevelValue[k] ELSE n[2 * k] + n[2 * k + 1]

LEMMA RoomIs ==
  ASSUME NEW t \in Trees
  PROVE  /\ Room(t) \in [Node -> Nat]
         /\ \A k \in Node : Room(t)[k] = IF Owned(t, k) THEN 0
                                         ELSE IF Childless(t, k) THEN LevelValue[k]
                                         ELSE Room(t)[2 * k] + Room(t)[2 * k + 1]
<1> DEFINE value(k, f) == IF Owned(t, k) THEN 0
                          ELSE IF Childless(t, k) THEN LevelValue[k] ELSE f[2 * k] + f[2 * k + 1]
           G == [k \in Node |-> [f \in [Node -> Nat] |-> value(k, f)]]
<1>1. \A k \in Node : \A f \in [Node -> Nat] : G[k][f] = value(k, f)
  <2> HIDE DEF value
  <2>. QED
    OBVIOUS
<1>2. ASSUME NEW k \in Node, NEW f \in [Node -> Nat] PROVE value(k, f) \in Nat
  <2>1. LevelValue[k] \in Nat
    BY LevelValueIs
  <2>2. ~ Childless(t, k) => f[2 * k] \in Nat /\ f[2 * k + 1] \in Nat
    BY BothChildren
  <2>. QED
    BY <2>1, <2>2
<1>3. ASSUME NEW k \in Node, NEW f \in [Node -> Nat], NEW g \in [Node -> Nat],
             \A c \in {2 * k, 2 * k + 1} : c \in Node => f[c] = g[c]
      PROVE  value(k, f) = value(k, g)
  <2>1. ~ Childless(t, k) => f[2 * k] = g[2 * k] /\ f[2 * k + 1] = g[2 * k + 1]
    BY <1>3, BothChildren
  <2>. QED
    BY <2>1
<1>4. \E f \in [Node -> Nat] : \A k \in Node : f[k] = value(k, f)
  <2> HIDE DEF value, G
  <2>1. \A k \in Node : \A f \in [Node -> Nat] : G[k][f] \in Nat
    BY <1>1, <1>2
  <2>2. \A k \in Node : \A f, g \in [Node -> Nat] :
          (\A c \in {2 * k, 2 * k + 1} : c \in Node => f[c] = g[c]) => G[k][f] = G[k][g]
    <3>1. ASSUME NEW k \in Node, NEW f \in [Node -> Nat], NEW g \in [Node -> Nat],
                 \A c \in {2 * k, 2 * k + 1} : c \in Node => f[c] = g[c]
          PROVE  G[k][f] = G[k][g]
      BY <1>1, <1>3, <3>1
    <3>. QED
      BY <3>1
  <2>3. Nat # {}
    BY Nodes
  <2>4. Solvable(Node, Nat, G)
    BY <2>1, <2>2, <2>3, LeafRecursion
  <2>. QED
    BY <1>1, <2>4 DEF Solvable
<1>. QED
  BY <1>4 DEF Room

\* What a node has room for its children have room for, if insertion goes on
\* below it with something.
LEMMA RoomSplits ==
  ASSUME NEW t \in Trees, Shaped(t), NEW k \in Node, ~ Owned(t, k),
         ~ Childless(t, k) \/ LevelValue[k] >= 1
  PROVE  /\ 2 * k \in Node /\ 2 * k + 1 \in Node
         /\ Room(t)[k] = Room(t)[2 * k] + Room(t)[2 * k + 1]
                         + (IF Childless(t, k) /\ LevelValue[k] = 1 THEN 1 ELSE 0)
<1>1. 2 * k \in Node /\ 2 * k + 1 \in Node
  BY BothChildren
<1>2. CASE ~ Childless(t, k)
  BY <1>1, <1>2, RoomIs
<1>3. CASE Childless(t, k)
  <2>1. ASSUME NEW c \in {2 * k, 2 * k + 1} PROVE Room(t)[c] = LevelValue[c]
    <3>1. c \in Node /\ c \notin DOMAIN t
      BY <1>1, <1>3, ChildrenAre
    <3>2. ASSUME NEW d \in {2 * c, 2 * c + 1}, d \in DOMAIN t PROVE FALSE
      <4>1. c \in Nat /\ c >= 1
        BY <3>1, ChildrenAre
      <4>2. Parent(d) = c
        BY <3>2, <4>1, Nodes
      <4>3. d # Root
        BY <3>2, <4>1 DEF Root
      <4>. QED
        BY <3>1, <3>2, <4>2, <4>3 DEF Shaped
    <3>3. Childless(t, c) /\ ~ Owned(t, c)
      BY <3>1, <3>2, ChildrenAre DEF Owned
    <3>. QED
      BY <3>1, <3>3, RoomIs
  <2>2. Room(t)[k] = LevelValue[k]
    BY <1>3, RoomIs
  <2>3. LevelValue[k] >= 1 /\ LevelValue[k] \in Nat /\ (LevelValue[k] = 1 \/ LevelValue[k] % 2 = 0)
    BY <1>3, LevelsHalve
  <2>4. \A c \in {2 * k, 2 * k + 1} : LevelValue[c] = LevelValue[k] \div 2
    <3>1. k \in Nat /\ k >= 1 /\ Parent(2 * k) = k /\ Parent(2 * k + 1) = k
      BY Nodes, ChildrenAre
    <3>2. 2 * k # Root /\ 2 * k + 1 # Root
      BY <3>1 DEF Root
    <3>. QED
      BY <1>1, <3>1, <3>2, LevelValueIs
  <2>5. Room(t)[2 * k] = LevelValue[k] \div 2 /\ Room(t)[2 * k + 1] = LevelValue[k] \div 2
    BY <2>1, <2>4
  <2>. QED
    BY <1>1, <1>3, <2>2, <2>3, <2>5
<1>. QED
  BY <1>1, <1>2, <1>3

\* Insertion takes all it is given, as long as there is room.
LEMMA RestIsExact ==
  ASSUME NEW t \in Trees, Shaped(t)
  PROVE  \A k \in Node : \A c \in Nat :
           Rest(t)[k][c] = IF c <= Room(t)[k] THEN 0 ELSE c - Room(t)[k]
<1> DEFINE Over(k, c) == IF c <= Room(t)[k] THEN 0 ELSE c - Room(t)[k]
           S == {k \in Node : \A c \in Nat : Rest(t)[k][c] = Over(k, c)}
<1>1. ASSUME NEW k \in Node, \A n \in {2 * k, 2 * k + 1} : n \in Node => n \in S, NEW c \in Nat
      PROVE  Rest(t)[k][c] = Over(k, c)
  <2>1. /\ Rest(t)[k][c] \in Nat /\ Rest(t)[k][c] = RestOf(t, k, c, Rest(t))
        /\ Room(t)[k] \in Nat /\ LevelValue[k] \in Nat
    BY RestIs, RoomIs, LevelValueIs
  <2>2. CASE Owned(t, k)
    <3>1. Rest(t)[k][c] = c /\ Room(t)[k] = 0
      BY <2>1, <2>2, RoomIs DEF RestOf, Takes
    <3>. QED
      BY <2>1, <3>1
  <2>3. CASE Takes(t, k, c)
    <3>1. Rest(t)[k][c] = c - LevelValue[k] /\ c >= LevelValue[k]
      BY <2>1, <2>3 DEF RestOf, Takes
    <3>2. Room(t)[k] = LevelValue[k]
      BY <2>3, RoomIs DEF Takes
    <3>. QED
      BY <2>1, <3>1, <3>2
  <2>4. CASE ~ Owned(t, k) /\ ~ Takes(t, k, c)
    <3>1. ~ Childless(t, k) \/ LevelValue[k] >= 1
      BY <2>1, <2>4 DEF Takes
    <3>2. /\ 2 * k \in Node /\ 2 * k + 1 \in Node
          /\ Room(t)[k] = Room(t)[2 * k] + Room(t)[2 * k + 1]
                          + (IF Childless(t, k) /\ LevelValue[k] = 1 THEN 1 ELSE 0)
      BY <2>4, <3>1, RoomSplits
    <3> DEFINE left == Rest(t)[2 * k][c]
               right == Rest(t)[2 * k + 1][left]
               a == Room(t)[2 * k]
               b == Room(t)[2 * k + 1]
    <3>3. left \in Nat /\ right \in Nat /\ a \in Nat /\ b \in Nat
      BY <3>2, RestIs, RoomIs
    <3>4. left = (IF c <= a THEN 0 ELSE c - a) /\ right = (IF left <= b THEN 0 ELSE left - b)
      <4>1. 2 * k \in S /\ 2 * k + 1 \in S
        BY <1>1, <3>2
      <4>. QED
        BY <3>3, <4>1
    <3>5. Rest(t)[k][c] = IF left < 1 THEN left ELSE right
      BY <2>1, <2>4 DEF RestOf
    <3>6. Childless(t, k) /\ LevelValue[k] = 1 => c = 0
      BY <2>1, <2>4 DEF Takes
    <3> HIDE DEF left, right, a, b
    <3>7. CASE Childless(t, k) /\ LevelValue[k] = 1
      BY <3>2, <3>3, <3>4, <3>5, <3>6, <3>7 DEF a, b
    <3>8. CASE ~ (Childless(t, k) /\ LevelValue[k] = 1)
      <4>1. Room(t)[k] = a + b
        BY <3>2, <3>3, <3>8 DEF a, b
      <4>. QED
        BY <3>3, <3>4, <3>5, <4>1
    <3>. QED
      BY <3>7, <3>8
  <2>. QED
    BY <2>2, <2>3, <2>4
<1>2. \A k \in Node : k \in S
  <2>1. \A k \in Node : (\A n \in {2 * k, 2 * k + 1} : n \in Node => n \in S) => k \in S
    BY <1>1
  <2> HIDE DEF S
  <2>. QED
    BY <2>1, FromTheLeaves
<1>. QED
  BY <1>2

\* Nothing is carried on below the leftmost nodes only, and if something was
\* given at all it is carried on everywhere.
LEMMA CarriedOn ==
  ASSUME NEW t \in Trees, Shaped(t), NEW c \in Nat, NEW e, e = Entered(t, c)
  PROVE  \A k \in Node : e[k] # NotEntered =>
           /\ e[k] \in Nat /\ (e[k] = 0 <=> c = 0)
           /\ c = 0 => k = Weight[k]
<1> DEFINE S == {k \in Node : e[k] # NotEntered => e[k] \in Nat /\ (e[k] = 0 <=> c = 0) /\ (c = 0 => k = Weight[k])}
<1>1. ASSUME NEW k \in Node, k # Root => Parent(k) \in S, e[k] # NotEntered
      PROVE  e[k] \in Nat /\ (e[k] = 0 <=> c = 0) /\ (c = 0 => k = Weight[k])
  <2>1. CASE k = Root
    BY <2>1, EnteredIs, WeightIs DEF Root
  <2>2. CASE k # Root
    <3> DEFINE m == Parent(k)
               left == Rest(t)[2 * m][e[m]]
    <3>1. m \in Node /\ (k = 2 * m \/ k = 2 * m + 1) /\ m \in Nat
      BY <2>2, Nodes
    <3>2. e[m] # NotEntered /\ ~ Owned(t, m) /\ ~ Takes(t, m, e[m])
      BY <1>1, <2>2, EnteredBelow
    <3>3. e[m] \in Nat /\ (e[m] = 0 <=> c = 0) /\ (c = 0 => m = Weight[m])
      BY <1>1, <2>2, <3>2
    <3>4. /\ 2 * m \in Node /\ e[2 * m] = e[m]
          /\ e[2 * m + 1] = IF left < 1 THEN NotEntered ELSE left
      BY <3>1, <3>2, EnteredBelow
    <3>5. left \in Nat /\ (c = 0 => left = 0)
      <4>1. left = IF e[m] <= Room(t)[2 * m] THEN 0 ELSE e[m] - Room(t)[2 * m]
        BY <3>3, <3>4, RestIsExact
      <4>2. Room(t)[2 * m] \in Nat
        BY <3>4, RoomIs
      <4> HIDE DEF left, m
      <4>. QED
        BY <3>3, <4>1, <4>2
    <3>6. Weight[k] = 2 * Weight[m] /\ Weight[m] \in Nat
      BY <2>2, <3>1, WeightIs
    <3> HIDE DEF left, m
    <3>7. CASE k = 2 * m
      BY <3>1, <3>3, <3>4, <3>6, <3>7
    <3>8. CASE k = 2 * m + 1
      BY <1>1, <3>3, <3>4, <3>5, <3>8
    <3>. QED
      BY <3>1, <3>7, <3>8
  <2>. QED
    BY <2>1, <2>2
<1>2. \A k \in Node : k \in S
  <2>1. \A k \in Node : (k # Root => Parent(k) \in S) => k \in S
    BY <1>1
  <2> HIDE DEF S
  <2>. QED
    BY <2>1, FromTheRoot
<1>. QED
  BY <1>2

\* The room shrinks by what is taken; who is given nothing may take half a
\* unit, and then the other half is no room for a unit either.
LEMMA RoomShrinks ==
  ASSUME NEW t \in Trees, Shaped(t), NEW p \in Path, NEW c \in Nat,
         NEW u, u = Insert(t, p, c)
  PROVE  /\ c >= 1 => Room(u)[Root] + c = Room(t)[Root] + Rest(t)[Root][c]
         /\ c = 0 => Room(u)[Root] + 1 >= Room(t)[Root]
<1> DEFINE e == Entered(t, c)
           Good(k) == IF e[k] = NotEntered THEN Room(u)[k] = Room(t)[k]
                      ELSE IF c = 0 THEN Room(u)[k] + 1 >= Room(t)[k]
                      ELSE Room(u)[k] + e[k] = Room(t)[k] + Rest(t)[k][e[k]]
           S == {k \in Node : Good(k)}
<1>0. u \in Trees /\ Shaped(u)
  BY InsertIs, InsertKeepsShape
<1>1. /\ \A k : k \in DOMAIN u <=> k \in DOMAIN t \/ (k \in Node /\ e[k] # NotEntered)
      /\ \A k \in Node : Owned(u, k) <=> Owned(t, k) \/ (e[k] # NotEntered /\ Takes(t, k, e[k]))
  BY InsertIs
<1>2. /\ Room(t) \in [Node -> Nat] /\ Room(u) \in [Node -> Nat]
  BY <1>0, RoomIs
<1>20. \A k \in Node : e[k] # NotEntered => e[k] \in Nat /\ (e[k] = 0 <=> c = 0)
  BY CarriedOn
<1>21. \A k \in Node : \A d \in Nat :
         Rest(t)[k][d] \in Nat /\ Rest(t)[k][d] = IF d <= Room(t)[k] THEN 0 ELSE d - Room(t)[k]
  BY RestIs, RestIsExact
<1> HIDE DEF e
<1>3. ASSUME NEW k \in Node, \A n \in {2 * k, 2 * k + 1} : n \in Node => n \in S
      PROVE  Good(k)
  <2>1. /\ e[k] \in Nat \cup {NotEntered}
        /\ e[k] # NotEntered /\ ~ Owned(t, k) /\ ~ Takes(t, k, e[k]) =>
             /\ 2 * k \in Node /\ 2 * k + 1 \in Node /\ e[2 * k] = e[k]
             /\ e[2 * k + 1] = IF Rest(t)[2 * k][e[k]] < 1 THEN NotEntered ELSE Rest(t)[2 * k][e[k]]
        /\ e[k] = NotEntered =>
             \A n \in {2 * k, 2 * k + 1} : n \in Node => e[n] = NotEntered
    BY EnteredBelow DEF e
  <2>2. CASE e[k] = NotEntered
    <3>1. Owned(u, k) <=> Owned(t, k)
      BY <1>1, <2>2
    <3>2. \A n \in {2 * k, 2 * k + 1} :
            (n \in DOMAIN u <=> n \in DOMAIN t) /\ (n \in Node => Room(u)[n] = Room(t)[n])
      BY <1>1, <1>3, <2>1, <2>2
    <3>3. Childless(u, k) <=> Childless(t, k)
      BY <1>0, <3>2, ChildrenAre
    <3>4. ~ Childless(t, k) => 2 * k \in Node /\ 2 * k + 1 \in Node
      BY BothChildren
    <3>5. ~ Childless(t, k) => /\ Room(u)[2 * k] = Room(t)[2 * k]
                               /\ Room(u)[2 * k + 1] = Room(t)[2 * k + 1]
      BY <3>2, <3>4
    <3>6. Room(u)[k] = Room(t)[k]
      BY <1>0, <3>1, <3>3, <3>5, RoomIs
    <3>. QED
      BY <2>2, <3>6
  <2>3. CASE e[k] # NotEntered /\ (Owned(t, k) \/ Takes(t, k, e[k]))
    <3>1. Room(u)[k] = 0 /\ e[k] \in Nat /\ LevelValue[k] \in Nat
      BY <1>0, <1>1, <2>1, <2>3, RoomIs, LevelValueIs
    <3>2. Rest(t)[k][e[k]] = RestOf(t, k, e[k], Rest(t))
      BY <3>1, RestIs
    <3>3. CASE Owned(t, k)
      <4>1. Room(t)[k] = 0 /\ Rest(t)[k][e[k]] = e[k]
        BY <3>2, <3>3, RoomIs DEF RestOf, Takes
      <4>. QED
        BY <2>3, <3>1, <4>1
    <3>4. CASE Takes(t, k, e[k])
      <4>1. Room(t)[k] = LevelValue[k] /\ Rest(t)[k][e[k]] = e[k] - LevelValue[k] /\ e[k] >= LevelValue[k]
        BY <3>2, <3>4, RoomIs DEF RestOf, Takes
      <4>2. c = 0 => e[k] = 0
        BY <1>20, <2>3
      <4>. QED
        BY <2>3, <3>1, <4>1, <4>2
    <3>. QED
      BY <2>3, <3>3, <3>4
  <2>4. CASE e[k] # NotEntered /\ ~ Owned(t, k) /\ ~ Takes(t, k, e[k])
    <3>1. e[k] \in Nat /\ LevelValue[k] \in Nat /\ ~ Owned(u, k)
      BY <1>1, <2>1, <2>4, LevelValueIs
    <3>2. ~ Childless(t, k) \/ LevelValue[k] >= 1
      BY <2>4, <3>1 DEF Takes
    <3> DEFINE left == Rest(t)[2 * k][e[k]]
               a == Room(t)[2 * k]
               b == Room(t)[2 * k + 1]
               x == Room(u)[2 * k]
               y == Room(u)[2 * k + 1]
               split == Childless(t, k) /\ LevelValue[k] = 1
    <3>3. /\ 2 * k \in Node /\ 2 * k + 1 \in Node
          /\ Room(t)[k] = a + b + (IF split THEN 1 ELSE 0)
      BY <2>4, <3>2, RoomSplits
    <3>4. 2 * k \in DOMAIN u
      BY <1>1, <2>1, <2>4, <3>3
    <3>5. Room(u)[k] = x + y
      <4>1. ~ Childless(u, k)
        BY <1>0, <3>4, ChildrenAre
      <4>. QED
        BY <1>0, <3>1, <4>1, RoomIs
    <3>6. left \in Nat /\ a \in Nat /\ b \in Nat /\ x \in Nat /\ y \in Nat
      BY <1>2, <3>1, <3>3, RestIs
    <3>7. left = IF e[k] <= a THEN 0 ELSE e[k] - a
      BY <1>21, <3>1, <3>3
    <3>8. split => e[k] = 0
      BY <2>4, <3>1 DEF Takes
    <3>9. e[k] = 0 <=> c = 0
      BY <1>20, <2>4
    <3>10. IF c = 0 THEN x + 1 >= a ELSE x + e[k] = a + left
      <4>1. Good(2 * k) /\ e[2 * k] = e[k]
        BY <1>3, <2>1, <2>4, <3>3
      <4>. QED
        BY <2>4, <4>1
    <3>11. IF left < 1 THEN y = b ELSE c # 0 /\ y + left = b + Rest(t)[2 * k + 1][left]
      <4>1. Good(2 * k + 1)
        BY <1>3, <3>3
      <4>2. NotEntered \notin Nat
        BY DEF NotEntered
      <4>3. e[2 * k + 1] = IF left < 1 THEN NotEntered ELSE left
        BY <2>1, <2>4
      <4>4. c = 0 => left = 0
        BY <3>6, <3>7, <3>9
      <4> HIDE DEF left
      <4>. QED
        BY <3>6, <4>1, <4>2, <4>3, <4>4
    <3>12. Rest(t)[k][e[k]] = IF left < 1 THEN left ELSE Rest(t)[2 * k + 1][left]
      <4>1. Rest(t)[k][e[k]] = RestOf(t, k, e[k], Rest(t))
        BY <3>1, RestIs
      <4>. QED
        BY <2>4, <4>1 DEF RestOf
    <3>13. Rest(t)[2 * k + 1][left] \in Nat
      <4> HIDE DEF left
      <4>. QED
        BY <1>21, <3>3, <3>6
    <3> DEFINE right == Rest(t)[2 * k + 1][left]
    <3>14. /\ Rest(t)[k][e[k]] = (IF left < 1 THEN left ELSE right) /\ right \in Nat
           /\ IF left < 1 THEN y = b ELSE c # 0 /\ y + left = b + right
      BY <3>11, <3>12, <3>13
    <3> HIDE DEF left, a, b, x, y, right
    <3>15. CASE c = 0
      <4>1. y = b
        BY <3>14, <3>15
      <4>2. split => a = 0 /\ b = 0
        <5>1. split => a + b = 0
          <6>1. split => Room(t)[k] = 1
            BY <3>1, RoomIs, <2>4
          <6>. QED
            BY <3>3, <3>6, <6>1
        <5>. QED
          BY <3>6, <5>1
      <4>3. Room(u)[k] + 1 >= Room(t)[k]
        <5>1. CASE split
          BY <3>3, <3>5, <3>6, <4>2, <5>1
        <5>2. CASE ~ split
          <6> HIDE DEF split
          <6>. QED
            BY <3>3, <3>5, <3>6, <3>10, <3>15, <4>1, <5>2
        <5>. QED
          BY <5>1, <5>2
      <4>. QED
        BY <2>4, <3>15, <4>3
    <3>16. CASE c # 0
      <4>1. ~ split
        BY <3>8, <3>9, <3>16
      <4> HIDE DEF split
      <4>2. Room(u)[k] + e[k] = Room(t)[k] + Rest(t)[k][e[k]]
        BY <3>1, <3>3, <3>5, <3>6, <3>10, <3>14, <3>16, <4>1
      <4>. QED
        BY <2>4, <3>16, <4>2
    <3>. QED
      BY <3>15, <3>16
  <2>. QED
    BY <2>2, <2>3, <2>4
<1>4. \A k \in Node : k \in S
  <2>1. \A k \in Node : (\A n \in {2 * k, 2 * k + 1} : n \in Node => n \in S) => k \in S
    BY <1>3
  <2> HIDE DEF S
  <2>. QED
    BY <2>1, FromTheLeaves
<1>5. e[Root] = c /\ c # NotEntered /\ Root \in Node
  <2>1. c # NotEntered
    BY DEF NotEntered
  <2>. QED
    BY <2>1, EnteredIs, Nodes DEF e
<1>6. Good(Root)
  BY <1>4, <1>5
<1>. QED
  BY <1>5, <1>6
-----------------------------------------------------------------------------
(* The leaves below the units.                                             *)

Halves(t) == {k \in DOMAIN t : LevelValue[k] = 0}
HalfNodes == {2 * MaxValue, 2 * MaxValue + 1}

\* Insertion comes below the units at the leftmost of them only, and takes no
\* more than half of it.
LEMMA HalvesAreOne ==
  ASSUME NEW t \in Trees, Shaped(t), NEW p \in Path, NEW c \in Nat, Halves(t) \subseteq HalfNodes
  PROVE  /\ Halves(Insert(t, p, c)) \subseteq HalfNodes
         /\ c >= 1 /\ Halves(t) = {} => Halves(Insert(t, p, c)) = {}
         /\ \A j, k \in Taken(t, c) : LevelValue[j] = 0 /\ LevelValue[k] = 0 => j = k
         /\ Taken(t, c) \subseteq DOMAIN Insert(t, p, c)
<1> DEFINE u == Insert(t, p, c)
           e == Entered(t, c)
           M == MaxValue
<1>0. /\ M \in Nat \ {0} /\ DOMAIN t \subseteq Node
      /\ \A k \in Node : k \in Nat /\ k >= 1 /\ k < 4 * M /\ LevelValue[k] \in Nat
                         /\ (LevelValue[k] = 0 <=> k >= 2 * M)
  BY TreeIs, LevelsLie, LevelValueIs, SchTreeAssumption DEF Node
<1>1. \A k : k \in DOMAIN u <=> k \in DOMAIN t \/ (k \in Node /\ e[k] # NotEntered)
  BY InsertIs
<1>2. Taken(t, c) = {k \in Node : e[k] # NotEntered /\ Takes(t, k, e[k])}
  BY DEF Taken
<1> HIDE DEF u
<1>3. ASSUME NEW k \in Node, LevelValue[k] = 0, e[k] # NotEntered
      PROVE  k \in HalfNodes /\ (c >= 1 => Halves(t) # {})
  <2> DEFINE m == Parent(k)
  <2>1. k >= 2 * M /\ k # Root
    BY <1>0, <1>3 DEF Root
  <2>2. m \in Node /\ (k = 2 * m \/ k = 2 * m + 1) /\ LevelValue[k] = LevelValue[m] \div 2
    BY <2>1, Nodes, LevelValueIs
  <2>3. e[m] # NotEntered /\ ~ Owned(t, m) /\ ~ Takes(t, m, e[m])
    BY <1>3, <2>1, EnteredBelow
  <2> HIDE DEF m, e
  <2>4. m \in Nat /\ LevelValue[m] = 1 /\ m >= M /\ 2 * m >= 2 * M
    <3>1. m \in Nat /\ LevelValue[m] \in Nat /\ m < 2 * M /\ m >= M
      BY <1>0, <2>1, <2>2
    <3>2. LevelValue[m] # 0
      BY <1>0, <2>2, <3>1
    <3>3. M \in Nat
      BY <1>0
    <3>. QED
      BY <1>3, <2>2, <3>1, <3>2, <3>3
  <2>5. CASE c >= 1
    <3>1. e[m] \in Nat /\ e[m] # 0
      BY <2>2, <2>3, <2>5, CarriedOn DEF e
    <3>2. ~ Childless(t, m)
      BY <2>3, <2>4, <3>1 DEF Takes
    <3>3. PICK n \in {2 * m, 2 * m + 1} : n \in DOMAIN t
      BY <2>2, <3>2, ChildrenAre
    <3>4. n \in Node /\ n >= 2 * M
      BY <1>0, <2>4, <3>3
    <3>5. n \in Halves(t)
      BY <1>0, <3>3, <3>4 DEF Halves
    <3>6. m = M
      BY <1>0, <2>4, <3>3, <3>5 DEF HalfNodes
    <3>. QED
      BY <2>2, <3>5, <3>6 DEF HalfNodes
  <2>6. CASE c = 0
    <3>1. m = Weight[m]
      BY <2>2, <2>3, <2>6, CarriedOn DEF e
    <3>2. Weight[m] * LevelValue[m] = M
      BY <2>2, <2>4, LevelsHalve
    <3>3. m = M
      BY <2>4, <3>1, <3>2
    <3>. QED
      BY <2>2, <2>6, <3>3 DEF HalfNodes
  <2>. QED
    BY <2>5, <2>6
<1>4. Halves(u) \subseteq HalfNodes /\ (c >= 1 /\ Halves(t) = {} => Halves(u) = {})
  BY <1>0, <1>1, <1>3 DEF Halves
<1>5. ~ (2 * M \in Taken(t, c) /\ 2 * M + 1 \in Taken(t, c))
  <2>1. SUFFICES ASSUME 2 * M \in Taken(t, c), 2 * M + 1 \in Taken(t, c) PROVE FALSE
    OBVIOUS
  <2>2. /\ M \in Node /\ 2 * M \in Node /\ 2 * M + 1 \in Node
        /\ Parent(2 * M + 1) = M /\ 2 * M + 1 # Root
    BY <1>0, <1>2, <2>1 DEF Node, Parent, Root
  <2>3. e[2 * M + 1] # NotEntered /\ Takes(t, 2 * M, e[2 * M])
    BY <1>2, <2>1
  <2>4. e[M] # NotEntered /\ ~ Owned(t, M) /\ ~ Takes(t, M, e[M])
    <3>1. ASSUME NEW k \in Node, k = 2 * M + 1
          PROVE  e[M] # NotEntered /\ ~ Owned(t, M) /\ ~ Takes(t, M, e[M])
      <4>1. Parent(k) = M /\ k # Root /\ e[k] # NotEntered
        BY <2>2, <2>3, <3>1
      <4>. QED
        BY <4>1, EnteredBelow
    <3>. QED
      BY <2>2, <3>1
  <2>5. e[2 * M + 1] = IF Rest(t)[2 * M][e[M]] < 1 THEN NotEntered ELSE Rest(t)[2 * M][e[M]]
    BY <2>2, <2>4, EnteredBelow
  <2>6. e[M] \in Nat /\ (e[M] = 0 <=> c = 0)
    BY <2>2, <2>4, CarriedOn
  <2> HIDE DEF e
  <2>7. CASE c = 0
    <3>1. Room(t)[2 * M] \in Nat
      BY <2>2, RoomIs
    <3>2. Rest(t)[2 * M][e[M]] = 0
      BY <2>2, <2>6, <2>7, <3>1, RestIsExact
    <3>. QED
      BY <2>3, <2>5, <3>2
  <2>8. CASE c # 0
    <3>1. LevelValue[M] = 1
      <4>1. Weight[M] * LevelValue[M] = M /\ Weight[M] \in Nat /\ LevelValue[M] \in Nat
        BY <1>0, <2>2, LevelsHalve, WeightIs
      <4>2. LevelValue[2 * M + 1] = LevelValue[M] \div 2 /\ LevelValue[2 * M + 1] = 0
        <5>1. ASSUME NEW k \in Node, k = 2 * M + 1 PROVE LevelValue[k] = LevelValue[M] \div 2 /\ LevelValue[k] = 0
          <6>1. Parent(k) = M /\ k # Root /\ k >= 2 * M
            BY <1>0, <2>2, <5>1
          <6>. QED
            BY <1>0, <6>1, LevelValueIs
        <5>. QED
          BY <2>2, <5>1
      <4>3. LevelValue[M] # 0
        BY <1>0, <2>2
      <4>. QED
        BY <4>1, <4>2, <4>3, SMTT(30)
    <3>2. ~ Childless(t, M)
      BY <2>4, <2>6, <2>8, <3>1 DEF Takes
    <3>3. 2 * M \in DOMAIN t
      <4>1. CASE 2 * M \in DOMAIN t
        BY <4>1
      <4>2. CASE 2 * M + 1 \in DOMAIN t
        <5>1. M \in DOMAIN t
          <6>1. ASSUME NEW k \in DOMAIN t, k = 2 * M + 1 PROVE M \in DOMAIN t
            BY <2>2, <6>1 DEF Shaped
          <6>. QED
            BY <4>2, <6>1
        <5>. QED
          BY <2>4, <5>1 DEF Shaped
      <4>. QED
        BY <2>2, <3>2, <4>1, <4>2, ChildrenAre
    <3>4. 2 * (2 * M) \notin DOMAIN t
      BY <1>0
    <3>5. Owned(t, 2 * M)
      <4>1. ASSUME NEW k \in DOMAIN t, k = 2 * M PROVE Owned(t, k)
        BY <3>4, <4>1 DEF Shaped
      <4>. QED
        BY <3>3, <4>1
    <3>. QED
      BY <2>3, <3>5 DEF Takes
  <2>. QED
    BY <2>7, <2>8
<1>6. ASSUME NEW j \in Taken(t, c), NEW k \in Taken(t, c), LevelValue[j] = 0, LevelValue[k] = 0
      PROVE  j = k
  <2>1. j \in HalfNodes /\ k \in HalfNodes
    BY <1>2, <1>3, <1>6
  <2>. QED
    BY <1>5, <1>6, <2>1 DEF HalfNodes
<1>7. Taken(t, c) \subseteq DOMAIN u
  BY <1>1, <1>2
<1>. QED
  BY <1>4, <1>6, <1>7 DEF u

\* Who is given nothing gets nothing of a tree that has its root.
LEMMA NothingTaken ==
  ASSUME NEW t \in Trees, Shaped(t), NEW p \in Path, Root \in DOMAIN t
  PROVE  Insert(t, p, 0) = t /\ Taken(t, 0) = {}
<1> DEFINE e == Entered(t, 0)
           S == {k \in Node : e[k] # NotEntered => k \in DOMAIN t /\ ~ Takes(t, k, e[k])}
           visited == {k \in Node : e[k] # NotEntered}
           taken == {k \in visited : Takes(t, k, e[k])}
           node(k) == IF k \in DOMAIN t THEN t[k] ELSE NewNode
<1>1. ASSUME NEW k \in Node, k # Root => Parent(k) \in S, e[k] # NotEntered
      PROVE  k \in DOMAIN t /\ ~ Takes(t, k, e[k])
  <2>1. k \in DOMAIN t
    <3>1. CASE k # Root
      <4> DEFINE m == Parent(k)
      <4>1. m \in Node /\ (k = 2 * m \/ k = 2 * m + 1)
        BY <3>1, Nodes
      <4>2. e[m] # NotEntered /\ ~ Owned(t, m) /\ ~ Takes(t, m, e[m])
        BY <1>1, <3>1, EnteredBelow
      <4>3. m \in DOMAIN t
        BY <1>1, <3>1, <4>2
      <4>4. e[m] = 0
        BY <4>1, <4>2, CarriedOn
      <4>5. /\ 2 * m \in Node
            /\ e[2 * m + 1] = IF Rest(t)[2 * m][e[m]] < 1 THEN NotEntered ELSE Rest(t)[2 * m][e[m]]
        BY <4>1, <4>2, EnteredBelow
      <4>6. Room(t)[2 * m] \in Nat
        BY <4>5, RoomIs
      <4>7. Rest(t)[2 * m][e[m]] = 0
        BY <4>4, <4>5, <4>6, RestIsExact
      <4>8. k = 2 * m
        BY <1>1, <4>1, <4>5, <4>7
      <4>. QED
        BY <4>2, <4>3, <4>8 DEF Shaped
    <3>. QED
      BY <3>1
  <2>2. Owned(t, k) \/ ~ Childless(t, k)
    BY <2>1, ChildrenAre DEF Shaped
  <2>. QED
    BY <2>1, <2>2 DEF Takes
<1>2. \A k \in Node : k \in S
  <2>1. \A k \in Node : (k # Root => Parent(k) \in S) => k \in S
    BY <1>1
  <2> HIDE DEF S
  <2>. QED
    BY <2>1, FromTheRoot
<1>3. visited \subseteq DOMAIN t /\ taken = {} /\ Taken(t, 0) = {}
  BY <1>2 DEF Taken
<1>4. Insert(t, p, 0) = [k \in DOMAIN t \cup visited |->
                           IF k \in taken THEN [node(k) EXCEPT !.path = p] ELSE node(k)]
  BY DEF Insert
<1> HIDE DEF visited, taken
<1>5. Insert(t, p, 0) = [k \in DOMAIN t |-> t[k]]
  BY <1>3, <1>4
<1>. QED
  BY <1>3, <1>5, TreeIs

\* A tree that has a node has a leaf.
LEMMA HasLeaf ==
  ASSUME NEW t \in Trees, Shaped(t), Root \in DOMAIN t
  PROVE  \E k \in DOMAIN t : Owned(t, k)
<1> DEFINE S == {k \in Node : k \notin DOMAIN t}
<1>1. SUFFICES ASSUME \A k \in DOMAIN t : ~ Owned(t, k) PROVE FALSE
  OBVIOUS
<1>2. ASSUME NEW k \in Node, \A n \in {2 * k, 2 * k + 1} : n \in Node => n \in S PROVE k \in S
  <2>1. DOMAIN t \subseteq Node
    BY TreeIs
  <2>2. 2 * k \notin DOMAIN t
    BY <1>2, <2>1
  <2>. QED
    BY <1>1, <2>2 DEF Shaped
<1>3. \A k \in Node : k \in S
  <2> HIDE DEF S
  <2>. QED
    BY <1>2, FromTheLeaves
<1>. QED
  BY <1>3, Nodes

\* The half units under a path: HalfUnits, of any tree.
HalfValue(k) == IF LevelValue[k] = 0 THEN 1 ELSE 2 * LevelValue[k]
UnitsIn(t, p) == SumFunction([k \in LeavesOf(t, p) |-> HalfValue(k)])

LEMMA LeavesAreFinite ==
  ASSUME NEW t \in Trees, NEW p
  PROVE  /\ LeavesOf(t, p) \subseteq Node /\ IsFiniteSet(LeavesOf(t, p))
         /\ \A L \in SUBSET Node : IsFiniteSet(L)
         /\ \A k \in Node : HalfValue(k) \in Nat
         /\ UnitsIn(t, p) \in Nat
         /\ LeavesOf(t, p) = {} => UnitsIn(t, p) = 0
<1>1. IsFiniteSet(Node)
  <2>1. 1 \in Int /\ 4 * MaxValue - 1 \in Int
    BY SchTreeAssumption
  <2>. QED
    BY <2>1, FS_Interval DEF Node
<1>2. \A L \in SUBSET Node : IsFiniteSet(L)
  BY <1>1, FS_Subset
<1>3. LeavesOf(t, p) \subseteq Node
  BY TreeIs DEF LeavesOf
<1>4. \A k \in Node : HalfValue(k) \in Nat
  BY LevelValueIs DEF HalfValue
<1>5. [k \in LeavesOf(t, p) |-> HalfValue(k)] \in [LeavesOf(t, p) -> Nat] /\ IsFiniteSet(LeavesOf(t, p))
  BY <1>2, <1>3, <1>4
<1>6. UnitsIn(t, p) \in Nat /\ (LeavesOf(t, p) = {} => UnitsIn(t, p) = 0)
  BY <1>5, SumWithout DEF UnitsIn
<1>. QED
  BY <1>2, <1>3, <1>4, <1>5, <1>6

\* A path is given what is not left over, and at most half a unit more.
LEMMA InsertPays ==
  ASSUME NEW t \in Trees, Shaped(t), NEW p \in Path, NEW c \in Nat, Halves(t) \subseteq HalfNodes,
         LeavesOf(t, p) = {}, NEW u, u = Insert(t, p, c), NEW r, r = Rest(t)[Root][c]
  PROVE  /\ UnitsIn(u, p) - 2 * (c - r) \in {0, 1}
         /\ Halves(u) = {} => UnitsIn(u, p) = 2 * (c - r)
         /\ \A q \in Path \ {p} : UnitsIn(u, q) = UnitsIn(t, q)
<1> DEFINE X == Taken(t, c)
           f == [k \in X |-> 2 * LevelValue[k]]
           g == [k \in X |-> HalfValue(k)]
<1>0. /\ u \in Trees /\ X \subseteq Node /\ X \subseteq DOMAIN u /\ IsFiniteSet(X)
      /\ \A k \in Node : HalfValue(k) \in Nat /\ LevelValue[k] \in Nat
      /\ \A j, k \in X : LevelValue[j] = 0 /\ LevelValue[k] = 0 => j = k
  <2>1. X \subseteq Node
    BY DEF Taken
  <2>2. X \subseteq DOMAIN u /\ \A j, k \in X : LevelValue[j] = 0 /\ LevelValue[k] = 0 => j = k
    BY HalvesAreOne
  <2>3. u \in Trees
    BY InsertIs
  <2>4. IsFiniteSet(X) /\ \A k \in Node : HalfValue(k) \in Nat
    BY <2>1, LeavesAreFinite
  <2>. QED
    BY <2>1, <2>2, <2>3, <2>4, LevelValueIs
<1>1. LeavesOf(u, p) = X /\ \A q \in Path \ {p} : LeavesOf(u, q) = LeavesOf(t, q)
  <2>1. /\ LeavesOf(u, p) = LeavesOf(t, p) \cup Taken(t, c)
        /\ \A q \in Path \ {p} : LeavesOf(u, q) = LeavesOf(t, q)
    <3>1. /\ LeavesOf(Insert(t, p, c), p) = LeavesOf(t, p) \cup Taken(t, c)
          /\ \A q \in Path \ {p} : LeavesOf(Insert(t, p, c), q) = LeavesOf(t, q)
      BY InsertGives
    <3>. QED
      BY <3>1
  <2>2. {} \cup Taken(t, c) = Taken(t, c)
    OBVIOUS
  <2>. QED
    BY <2>1, <2>2
<1>2. UnitsIn(u, p) = SumFunction(g) /\ \A q \in Path \ {p} : UnitsIn(u, q) = UnitsIn(t, q)
  BY <1>1 DEF UnitsIn
<1>3. SumFunction(f) = 2 * (c - r) /\ r \in 0 .. c
  BY TakenIsWorth
<1> HIDE DEF X
<1>4. f \in [X -> Nat] /\ g \in [X -> Nat] /\ \A k \in X : f[k] = 2 * LevelValue[k] /\ g[k] = HalfValue(k)
  BY <1>0
<1>5. SumFunction(f) \in Nat /\ SumFunction(g) \in Nat
  BY <1>0, <1>4, SumWithout
<1>6. ASSUME \A k \in X : LevelValue[k] # 0 PROVE SumFunction(g) = SumFunction(f)
  <2>1. \A k \in X : g[k] = f[k]
    BY <1>4, <1>6 DEF HalfValue
  <2>2. f = g
    BY <1>6 DEF HalfValue
  <2>. QED
    BY <2>2
<1>7. ASSUME NEW k \in X, LevelValue[k] = 0 PROVE SumFunction(g) = SumFunction(f) + 1
  <2>1. f[k] = 0 /\ g[k] = 1
    BY <1>4, <1>7 DEF HalfValue
  <2>2. \A j \in X \ {k} : f[j] = g[j]
    <3>1. \A j \in X \ {k} : LevelValue[j] # 0
      BY <1>0, <1>7
    <3>. QED
      BY <1>4, <3>1 DEF HalfValue
  <2> HIDE DEF f, g
  <2>3. SumFunction(g) + f[k] = SumFunction(f) + g[k]
    BY <1>0, <1>4, <2>2, SumOfChange
  <2>. QED
    BY <1>5, <2>1, <2>3
<1>8. Halves(u) = {} => \A k \in X : LevelValue[k] # 0
  BY <1>0 DEF Halves
<1> HIDE DEF f, g
<1>9. SumFunction(g) - SumFunction(f) \in {0, 1} /\ (Halves(u) = {} => SumFunction(g) = SumFunction(f))
  BY <1>5, <1>6, <1>7, <1>8
<1>. QED
  BY <1>2, <1>3, <1>9

LEMMA RoomOfEmpty == Room(EmptyTree)[Root] = MaxValue
<1>1. EmptyTree \in Trees /\ DOMAIN EmptyTree = {} /\ Root \in Node
  BY EmptyTreeIs, Nodes DEF ShapedTrees
<1>2. Childless(EmptyTree, Root) /\ ~ Owned(EmptyTree, Root)
  BY <1>1, ChildrenAre DEF Owned
<1>. QED
  BY <1>1, <1>2, RoomIs, LevelValueIs

\* Who is given more than there is room for loses what there is no room for.
LEMMA RestOfRoom ==
  ASSUME NEW t \in Trees, Shaped(t), NEW c \in Nat
  PROVE  /\ Room(t)[Root] \in Nat
         /\ Rest(t)[Root][c] = IF c <= Room(t)[Root] THEN 0 ELSE c - Room(t)[Root]
BY RoomIs, RestIsExact, Nodes

\* Of naturals no part adds up to more than all.
LEMMA SumsGrow ==
  ASSUME NEW v \in Seq(Nat), NEW s, IsSum(s, v)
  PROVE  \A n \in 0 .. Len(v) : s[n] \in Nat /\ s[n] <= s[Len(v)]
<1> DEFINE N == Len(v)
           S == {n \in 0 .. N : s[n] \in Nat}
           U == {n \in 0 .. N : s[N - n] <= s[N]}
<1>0. N \in Nat /\ s[0] = 0 /\ \A n \in 1 .. N : v[n] \in Nat /\ s[n] = s[n - 1] + v[n]
  BY DEF IsSum
<1>1. \A n \in 0 .. N : n \in S
  <2>1. 0 \in S
    BY <1>0
  <2>2. ASSUME NEW n \in 1 .. N, n - 1 \in S PROVE n \in S
    <3>1. s[n - 1] \in Nat /\ v[n] \in Nat /\ s[n] = s[n - 1] + v[n] /\ n \in 0 .. N
      BY <1>0, <2>2
    <3>. QED
      BY <3>1
  <2>3. \A n \in 1 .. N : n - 1 \in S => n \in S
    BY <2>2
  <2> HIDE DEF S
  <2>. QED
    BY <1>0, <2>1, <2>3, CountUp
<1>2. \A n \in 0 .. N : n \in U
  <2>1. 0 \in U
    BY <1>0, <1>1
  <2>2. ASSUME NEW n \in 1 .. N, n - 1 \in U PROVE n \in U
    <3>1. N - n + 1 \in 1 .. N /\ (N - n + 1) - 1 = N - n /\ N - (n - 1) = N - n + 1 /\ N - n \in 0 .. N
      BY <1>0
    <3>2. s[N - n + 1] = s[N - n] + v[N - n + 1] /\ v[N - n + 1] \in Nat
      BY <1>0, <3>1
    <3>3. s[N - n + 1] <= s[N]
      BY <2>2, <3>1
    <3>4. s[N - n] \in Nat /\ s[N] \in Nat
      BY <1>0, <1>1, <3>1
    <3>. QED
      BY <1>0, <3>2, <3>3, <3>4
  <2>3. \A n \in 1 .. N : n - 1 \in U => n \in U
    BY <2>2
  <2> HIDE DEF U
  <2>. QED
    BY <1>0, <2>1, <2>3, CountUp
<1>3. ASSUME NEW n \in 0 .. N PROVE s[n] <= s[N]
  <2>1. N - n \in U /\ N - (N - n) = n
    BY <1>0, <1>2
  <2>. QED
    BY <2>1
<1>. QED
  BY <1>1, <1>3

Distinct(paths) == \A i, j \in 1 .. Len(paths) : paths[i] = paths[j] => i = j

\* What the paths of a batch get of the tree that is built of it.
Dealt(t, paths, values, n) ==
  /\ \A i \in 1 .. n : /\ UnitsIn(t, paths[i]) - 2 * values[i] \in -2 .. 1
                       /\ values[1] # 0 => UnitsIn(t, paths[i]) = 2 * values[i]
  /\ \A p \in Path : (\A i \in 1 .. n : paths[i] # p) => LeavesOf(t, p) = {}
  /\ values[1] # 0 => Halves(t) = {}
  /\ values[1] = 0 /\ n >= 1 => LeavesOf(t, paths[1]) # {}

LEMMA BuildDeals ==
  ASSUME NEW paths \in Seq(Path), NEW values \in Seq(Nat), Len(values) = Len(paths),
         Total(values) = MaxValue, Distinct(paths)
  PROVE  Dealt(BuildTree(paths, values), paths, values, Len(paths))
<1> DEFINE N == Len(paths)
           M == MaxValue
           slack == IF values[1] = 0 THEN 1 ELSE 0
<1>0. N \in Nat /\ \A n \in 1 .. N : paths[n] \in Path /\ values[n] \in Nat
  OBVIOUS
<1>1. PICK b : IsBuilt(b, paths, values) /\ BuildTree(paths, values) = b[N]
  BY BuiltIs
<1>2. PICK s : IsSum(s, values) /\ Total(values) = s[N]
  BY TotalIs
<1>3. \A n \in 0 .. N : s[n] \in Nat /\ s[n] <= M
  BY <1>2, SumsGrow
<1> DEFINE Shape(n) == /\ b[n] \in ShapedTrees /\ Halves(b[n]) \subseteq HalfNodes
                       /\ n >= 1 => Root \in DOMAIN b[n]
           Roomy(n) == Room(b[n])[Root] + s[n] + slack >= M
           S == {n \in 0 .. N : Shape(n) /\ Roomy(n) /\ Dealt(b[n], paths, values, n)}
<1>4. 0 \in S
  <2>1. b[0] = EmptyTree /\ EmptyTree \in ShapedTrees /\ DOMAIN EmptyTree = {}
    BY <1>1, EmptyTreeIs DEF IsBuilt
  <2>2. Shape(0)
    BY <2>1 DEF Halves
  <2>3. Roomy(0)
    <3>1. Room(b[0])[Root] = M /\ s[0] = 0 /\ M \in Nat /\ slack \in {0, 1}
      BY <1>2, <2>1, RoomOfEmpty, SchTreeAssumption DEF IsSum
    <3> HIDE DEF slack
    <3>. QED
      BY <3>1
  <2>4. Dealt(b[0], paths, values, 0)
    BY <2>1 DEF Dealt, LeavesOf, Halves
  <2>. QED
    BY <1>0, <2>2, <2>3, <2>4
<1>5. ASSUME NEW n \in 1 .. N, n - 1 \in S PROVE n \in S
  <2> DEFINE t == b[n - 1]
             u == b[n]
             p == paths[n]
             c == values[n]
             r == Rest(t)[Root][c]
  <2>1. /\ n \in 0 .. N /\ n - 1 \in 0 .. N /\ n \in Nat /\ n >= 1 /\ 1 \in 1 .. N
        /\ p \in Path /\ c \in Nat /\ u = Insert(t, p, c) /\ values[1] \in Nat
    BY <1>0, <1>1 DEF IsBuilt
  <2>2. /\ t \in Trees /\ Shaped(t) /\ Halves(t) \subseteq HalfNodes
        /\ n - 1 >= 1 => Root \in DOMAIN t
    BY <1>5 DEF ShapedTrees
  <2>3. Dealt(t, paths, values, n - 1)
    BY <1>5
  <2>4. /\ s[n] = s[n - 1] + c /\ s[n] \in Nat /\ s[n - 1] \in Nat /\ s[n] <= M
        /\ M \in Nat /\ slack \in {0, 1}
    BY <1>0, <1>2, <1>3, <2>1, SchTreeAssumption DEF IsSum
  <2>5. Room(t)[Root] + s[n - 1] + slack >= M
    BY <1>5
  <2> HIDE DEF t, u, p, c, r, slack, S
  <2>6. Room(t)[Root] \in Nat /\ r = IF c <= Room(t)[Root] THEN 0 ELSE c - Room(t)[Root]
    BY <2>1, <2>2, RestOfRoom DEF r
  <2>7. r \in Nat /\ r <= slack
    <3> DEFINE room == Room(t)[Root]
               before == s[n - 1]
    <3>1. /\ room \in Nat /\ before \in Nat /\ before + c <= M /\ room + before + slack >= M
          /\ r = (IF c <= room THEN 0 ELSE c - room)
      BY <2>4, <2>5, <2>6
    <3>2. M \in Nat /\ c \in Nat /\ slack \in {0, 1}
      BY <2>1, <2>4
    <3> HIDE DEF room, before, M
    <3>. QED
      BY <3>1, <3>2
  <2>8. u \in ShapedTrees /\ Root \in DOMAIN u /\ u \in Trees /\ Shaped(u)
    BY <2>1, <2>2, InsertStays DEF ShapedTrees
  <2>9. n = 1 => t = EmptyTree
    BY <1>1 DEF IsBuilt, t
  <2>10. /\ Halves(u) \subseteq HalfNodes
         /\ c >= 1 /\ Halves(t) = {} => Halves(u) = {}
    BY <2>1, <2>2, HalvesAreOne
  <2>11. c = 0 /\ n # 1 => u = t
    BY <2>1, <2>2, NothingTaken
  <2>12. Room(u)[Root] + s[n] + slack >= M
    <3>1. Room(u)[Root] \in Nat
      BY <2>1, <2>8, RestOfRoom
    <3>2. CASE c >= 1
      <4>1. Room(u)[Root] + c = Room(t)[Root] + r
        BY <2>1, <2>2, <3>2, RoomShrinks DEF r
      <4> DEFINE room == Room(t)[Root]
                 after == Room(u)[Root]
                 before == s[n - 1]
      <4>2. /\ room \in Nat /\ after \in Nat /\ before \in Nat /\ s[n] = before + c
            /\ room + before + slack >= M /\ after + c = room + r
        BY <2>4, <2>5, <2>6, <3>1, <4>1
      <4>3. M \in Nat /\ c \in Nat /\ r \in Nat /\ slack \in {0, 1}
        BY <2>1, <2>4, <2>7
      <4> HIDE DEF room, after, before, M
      <4>4. after + (before + c) + slack >= M
        BY <4>2, <4>3
      <4>. QED
        BY <4>2, <4>4 DEF after
    <3>3. CASE c = 0 /\ n = 1
      <4>1. Room(u)[Root] + 1 >= Room(t)[Root] /\ Room(t)[Root] = M
        BY <2>1, <2>2, <2>9, <3>3, RoomShrinks, RoomOfEmpty
      <4>2. slack = 1
        BY <3>3 DEF slack, c
      <4>. QED
        BY <2>4, <3>1, <4>1, <4>2
    <3>4. CASE c = 0 /\ n # 1
      BY <2>4, <2>5, <2>11, <3>4
    <3>. QED
      BY <2>1, <3>2, <3>3, <3>4
  <2>13. values[1] # 0 => Halves(u) = {} /\ slack = 0
    <3>1. values[1] # 0 => Halves(t) = {}
      BY <2>3 DEF Dealt
    <3>2. c = 0 /\ n = 1 => values[1] = 0
      BY DEF c
    <3>. QED
      BY <2>1, <2>10, <2>11, <3>1, <3>2 DEF slack
  <2>14. \A i \in 1 .. n - 1 : paths[i] # p /\ paths[i] \in Path
    <3>1. \A i \in 1 .. n - 1 : i \in 1 .. N /\ i # n
      BY <1>0, <2>1
    <3>. QED
      BY <1>0, <3>1 DEF Distinct, p
  <2>15. LeavesOf(t, p) = {}
    BY <2>1, <2>3, <2>14 DEF Dealt
  <2>16. /\ UnitsIn(u, p) - 2 * (c - r) \in {0, 1}
         /\ Halves(u) = {} => UnitsIn(u, p) = 2 * (c - r)
         /\ \A q \in Path \ {p} : UnitsIn(u, q) = UnitsIn(t, q)
    BY <2>1, <2>2, <2>15, InsertPays DEF r
  <2>17. /\ LeavesOf(u, p) = LeavesOf(t, p) \cup Taken(t, c)
         /\ \A q \in Path \ {p} : LeavesOf(u, q) = LeavesOf(t, q)
    BY <2>1, <2>2, InsertGives
  <2>18. UnitsIn(u, p) \in Nat
    BY <2>8, LeavesAreFinite
  <2>19. /\ UnitsIn(u, p) - 2 * c \in -2 .. 1
         /\ values[1] # 0 => UnitsIn(u, p) = 2 * c
    <3> DEFINE units == UnitsIn(u, p)
    <3>1. units \in Nat /\ c \in Nat /\ r \in {0, 1} /\ (values[1] # 0 => r = 0)
      BY <2>1, <2>4, <2>7, <2>13, <2>18
    <3>2. units - 2 * (c - r) \in {0, 1} /\ (values[1] # 0 => units = 2 * (c - r))
      BY <2>13, <2>16
    <3> HIDE DEF units
    <3>3. units - 2 * c \in -2 .. 1 /\ (values[1] # 0 => units = 2 * c)
      BY <3>1, <3>2
    <3>. QED
      BY <3>3 DEF units
  <2>20. ASSUME NEW i \in 1 .. n
         PROVE  /\ UnitsIn(u, paths[i]) - 2 * values[i] \in -2 .. 1
                /\ values[1] # 0 => UnitsIn(u, paths[i]) = 2 * values[i]
    <3>1. CASE i = n
      BY <2>19, <3>1 DEF p, c
    <3>2. CASE i # n
      <4>1. i \in 1 .. n - 1
        BY <2>1, <3>2
      <4>2. UnitsIn(u, paths[i]) = UnitsIn(t, paths[i])
        BY <2>14, <2>16, <4>1
      <4>. QED
        BY <2>3, <4>1, <4>2 DEF Dealt
    <3>. QED
      BY <3>1, <3>2
  <2>21. ASSUME NEW q \in Path, \A i \in 1 .. n : paths[i] # q PROVE LeavesOf(u, q) = {}
    <3>1. q # p /\ \A i \in 1 .. n - 1 : i \in 1 .. n
      BY <2>1, <2>21 DEF p
    <3>2. LeavesOf(t, q) = {}
      BY <2>3, <2>21, <3>1 DEF Dealt
    <3>. QED
      BY <2>17, <3>1, <3>2
  <2>22. values[1] = 0 => LeavesOf(u, paths[1]) # {}
    <3>1. CASE n = 1
      <4>1. PICK k \in DOMAIN u : Owned(u, k)
        BY <2>8, HasLeaf
      <4>2. u[k].path \in Path /\ k \in LeavesOf(u, u[k].path)
        BY <2>8, <4>1, OwnedIs DEF LeavesOf
      <4>3. u[k].path = p
        <5>1. DOMAIN t = {}
          BY <2>9, <3>1, EmptyTreeIs
        <5>2. \A q : LeavesOf(t, q) = {}
          BY <5>1 DEF LeavesOf
        <5>. QED
          BY <2>17, <4>2, <5>2
      <4>. QED
        BY <3>1, <4>2, <4>3 DEF p
    <3>2. CASE n # 1
      <4>1. n - 1 >= 1 /\ 1 \in 1 .. n - 1
        BY <2>1, <3>2
      <4>. QED
        BY <2>3, <2>14, <2>17, <4>1 DEF Dealt
    <3>. QED
      BY <3>1, <3>2
  <2>23. Dealt(u, paths, values, n)
    BY <2>13, <2>20, <2>21, <2>22 DEF Dealt
  <2>. QED
    BY <2>1, <2>8, <2>10, <2>12, <2>23 DEF S, u
<1>6. N \in S
  <2>1. \A n \in 1 .. N : n - 1 \in S => n \in S
    BY <1>5
  <2>2. N \in 0 .. N
    BY <1>0
  <2> HIDE DEF S
  <2>. QED
    BY <1>0, <1>4, <2>1, <2>2, CountUp
<1>. QED
  BY <1>1, <1>6
-----------------------------------------------------------------------------
(* What a tree owes the paths of its batch.                                *)

Owed(paths, values) ==
  [p \in Path |-> Total([i \in 1 .. Len(paths) |-> IF paths[i] = p THEN values[i] ELSE 0])]

LEMMA OwedIs ==
  ASSUME NEW paths \in Seq(Path), NEW values \in Seq(Nat), Len(values) = Len(paths), Distinct(paths)
  PROVE  /\ Owed(paths, values) \in [Path -> Nat]
         /\ \A i \in 1 .. Len(paths) : Owed(paths, values)[paths[i]] = values[i]
         /\ \A p \in Path : (\A i \in 1 .. Len(paths) : paths[i] # p) => Owed(paths, values)[p] = 0
<1> DEFINE N == Len(paths)
           part(p) == [i \in 1 .. N |-> IF paths[i] = p THEN values[i] ELSE 0]
<1>0. N \in Nat /\ \A i \in 1 .. N : paths[i] \in Path /\ values[i] \in Nat
  OBVIOUS
<1>1. \A p : /\ part(p) \in Seq(Nat) /\ Len(part(p)) = N
             /\ \A i \in 1 .. N : part(p)[i] = IF paths[i] = p THEN values[i] ELSE 0
  BY <1>0
<1>2. \A p \in Path : Owed(paths, values)[p] = Total(part(p))
  BY DEF Owed
<1> HIDE DEF part
<1>3. Owed(paths, values) \in [Path -> Nat]
  <2>1. \A p \in Path : Total(part(p)) \in Nat
    BY <1>1, TotalIsNat
  <2>2. Owed(paths, values) = [p \in Path |-> Owed(paths, values)[p]]
    BY DEF Owed
  <2>. QED
    BY <1>2, <2>1, <2>2
<1>4. ASSUME NEW i \in 1 .. N PROVE Total(part(paths[i])) = values[i]
  <2> DEFINE f == [j \in {i} |-> values[i]]
             rest == [j \in {i} \ {i} |-> f[j]]
  <2>1. f \in [{i} -> Nat] /\ f[i] = values[i] /\ DOMAIN f = {i} /\ IsFiniteSet({i})
    BY <1>0, FS_Singleton
  <2>2. rest \in [{} -> Nat] /\ IsFiniteSet({})
    BY FS_EmptySet
  <2>3. \A j \in 1 .. N : part(paths[i])[j] = IF j \in {i} THEN f[j] ELSE 0
    BY <1>1 DEF Distinct
  <2>4. Lists(part(paths[i]), f)
    BY <1>1, <2>1, <2>3 DEF Lists
  <2> HIDE DEF f
  <2>5. SumFunction(f) = f[i] + SumFunction(rest)
    BY <2>1, SumWithout
  <2> HIDE DEF rest
  <2>6. SumFunction(rest) = 0
    BY <2>2, SumOfZeros
  <2>7. SumFunction(f) = Total(part(paths[i]))
    BY <2>4, SumInOrder
  <2>. QED
    BY <1>0, <2>1, <2>5, <2>6, <2>7
<1>5. ASSUME NEW p \in Path, \A i \in 1 .. N : paths[i] # p PROVE Total(part(p)) = 0
  <2> DEFINE f == [j \in {} |-> 0]
  <2>1. f \in [{} -> Nat] /\ DOMAIN f = {} /\ IsFiniteSet({})
    BY FS_EmptySet
  <2> HIDE DEF f
  <2>2. Lists(part(p), f)
    BY <1>1, <1>5, <2>1 DEF Lists
  <2>3. SumFunction(f) = Total(part(p))
    BY <2>2, SumInOrder
  <2>4. SumFunction(f) = 0
    BY <2>1, SumOfZeros
  <2>. QED
    BY <2>3, <2>4
<1>. QED
  BY <1>0, <1>2, <1>3, <1>4, <1>5

LEMMA OwedAddsUp ==
  ASSUME NEW paths \in Seq(Path), NEW values \in Seq(Nat), Len(values) = Len(paths), Distinct(paths),
         IsFiniteSet(Path)
  PROVE  SumFunction(Owed(paths, values)) = Total(values)
<1> DEFINE N == Len(paths)
           T == Owed(paths, values)
           upto(n) == [p \in Path |-> IF \E i \in 1 .. n : paths[i] = p THEN T[p] ELSE 0]
<1>0. N \in Nat /\ \A i \in 1 .. N : paths[i] \in Path /\ values[i] \in Nat
  OBVIOUS
<1>1. /\ T \in [Path -> Nat] /\ \A i \in 1 .. N : T[paths[i]] = values[i]
      /\ \A p \in Path : (\A i \in 1 .. N : paths[i] # p) => T[p] = 0
  BY OwedIs
<1> HIDE DEF T
<1>2. \A n : /\ upto(n) \in [Path -> Nat]
             /\ \A p \in Path : upto(n)[p] = IF \E i \in 1 .. n : paths[i] = p THEN T[p] ELSE 0
  BY <1>1
<1>3. upto(N) = T
  BY <1>1
<1> HIDE DEF upto
<1>4. PICK s : IsSum(s, values) /\ Total(values) = s[N]
  BY TotalIs
<1> DEFINE S == {n \in 0 .. N : SumFunction(upto(n)) = s[n]}
<1>5. 0 \in S
  <2>1. \A p \in Path : upto(0)[p] = 0
    BY <1>2
  <2>2. SumFunction(upto(0)) = 0
    BY <1>2, <2>1, SumOfZeros
  <2>. QED
    BY <1>0, <1>4, <2>2 DEF IsSum
<1>6. ASSUME NEW n \in 1 .. N, n - 1 \in S PROVE n \in S
  <2> DEFINE p == paths[n]
  <2>1. p \in Path /\ T[p] = values[n] /\ values[n] \in Nat /\ n \in 0 .. N
    BY <1>0, <1>1
  <2>2. \A i \in 1 .. n - 1 : paths[i] # p
    <3>1. \A i \in 1 .. n - 1 : i \in 1 .. N /\ i # n
      BY <1>0
    <3>. QED
      BY <3>1 DEF Distinct
  <2>3. upto(n - 1)[p] = 0 /\ upto(n)[p] = values[n]
    <3>1. n \in 1 .. n /\ p = paths[n]
      BY <1>0
    <3> HIDE DEF p
    <3>2. (\E i \in 1 .. n : paths[i] = p) /\ ~ \E i \in 1 .. n - 1 : paths[i] = p
      BY <2>2, <3>1
    <3>. QED
      BY <1>2, <2>1, <3>2
  <2>4. \A q \in Path \ {p} : upto(n - 1)[q] = upto(n)[q]
    <3>1. \A i \in 1 .. n : i = n \/ i \in 1 .. n - 1
      BY <1>0
    <3>2. \A i \in 1 .. n - 1 : i \in 1 .. n
      BY <1>0
    <3>. QED
      BY <1>2, <3>1, <3>2
  <2> HIDE DEF p
  <2>5. SumFunction(upto(n)) + upto(n - 1)[p] = SumFunction(upto(n - 1)) + upto(n)[p]
    <3> DEFINE f == upto(n - 1)
               g == upto(n)
    <3>1. f \in [Path -> Nat] /\ g \in [Path -> Nat] /\ \A q \in Path \ {p} : f[q] = g[q]
      BY <1>2, <2>4
    <3> HIDE DEF f, g
    <3>2. SumFunction(g) + f[p] = SumFunction(f) + g[p]
      BY <2>1, <3>1, SumOfChange, ZenonT(60)
    <3>. QED
      BY <3>2 DEF f, g
  <2>6. SumFunction(upto(n)) \in Nat /\ SumFunction(upto(n - 1)) \in Nat
    BY <1>2, SumWithout
  <2>7. s[n] = s[n - 1] + values[n] /\ SumFunction(upto(n - 1)) = s[n - 1]
    BY <1>0, <1>4, <1>6 DEF IsSum
  <2>. QED
    BY <2>1, <2>3, <2>5, <2>6, <2>7
<1>7. N \in S
  <2>1. \A n \in 1 .. N : n - 1 \in S => n \in S
    BY <1>6
  <2>2. N \in 0 .. N
    BY <1>0
  <2> HIDE DEF S
  <2>. QED
    BY <1>0, <1>5, <2>1, <2>2, CountUp
<1>. QED
  BY <1>3, <1>4, <1>7 DEF T

LEMMA SumTwice ==
  ASSUME NEW X, IsFiniteSet(X), NEW f \in [X -> Nat], NEW g \in [X -> Nat],
         \A x \in X : g[x] = 2 * f[x]
  PROVE  SumFunction(g) = 2 * SumFunction(f)
<1> DEFINE D == SUBSET X
           rank == [s \in D |-> Cardinality(s)]
           S == {s \in D : Sums(g)[s] = 2 * Sums(f)[s]}
<1>1. rank \in [D -> Nat] /\ \A s \in D : IsFiniteSet(s)
  BY FS_Subset, FS_CardinalityType
<1>2. /\ Sums(f) \in [D -> Nat] /\ Sums(f)[{}] = 0 /\ Orderly(X, f)
      /\ Sums(g) \in [D -> Nat] /\ Sums(g)[{}] = 0 /\ Orderly(X, g)
  BY SumsAre, SumsInAnyOrder
<1>3. ASSUME NEW s \in D, \A r \in D : rank[r] < rank[s] => r \in S PROVE s \in S
  <2>1. CASE s = {}
    BY <1>2, <2>1
  <2>2. CASE s # {}
    <3>1. PICK x \in s : TRUE
      BY <2>2
    <3>2. s \ {x} \in D /\ rank[s \ {x}] < rank[s]
      <4>1. IsFiniteSet(s) /\ IsFiniteSet(s \ {x})
        BY <1>1, FS_Subset
      <4>2. Cardinality(s \ {x}) < Cardinality(s)
        BY <3>1, <4>1, FS_RemoveElement, FS_CardinalityType
      <4>. QED
        BY <4>2
    <3>3. Sums(g)[s \ {x}] = 2 * Sums(f)[s \ {x}]
      BY <1>3, <3>2
    <3>4. Sums(f)[s] = f[x] + Sums(f)[s \ {x}] /\ Sums(g)[s] = g[x] + Sums(g)[s \ {x}]
      BY <1>2, <3>1 DEF Orderly
    <3>5. f[x] \in Nat /\ g[x] = 2 * f[x] /\ Sums(f)[s \ {x}] \in Nat
      BY <1>2, <3>1, <3>2
    <3>. QED
      BY <3>3, <3>4, <3>5
  <2>. QED
    BY <2>1, <2>2
<1>4. X \in S
  <2>1. \A s \in D : (\A r \in D : rank[r] < rank[s] => r \in S) => s \in S
    BY <1>3
  <2> HIDE DEF S, rank
  <2>2. D \subseteq S
    BY <1>1, <2>1, RankInduction
  <2>. QED
    BY <2>2
<1>. QED
  BY <1>4, SumsSum

LEMMA SumAtLeast ==
  ASSUME NEW X, IsFiniteSet(X), NEW f \in [X -> Nat], NEW x \in X
  PROVE  f[x] <= SumFunction(f) /\ SumFunction(f) \in Nat
<1>1. /\ SumFunction([y \in X \ {x} |-> f[y]]) \in Nat
      /\ SumFunction(f) = f[x] + SumFunction([y \in X \ {x} |-> f[y]])
  BY SumWithout
<1>2. f[x] \in Nat
  OBVIOUS
<1>. QED
  BY <1>1, <1>2

LEMMA SameLeaves ==
  ASSUME NEW t, NEW u, DOMAIN u = DOMAIN t, \A k \in DOMAIN t : u[k].path = t[k].path
  PROVE  /\ \A p : LeavesOf(u, p) = LeavesOf(t, p) /\ UnitsIn(u, p) = UnitsIn(t, p)
         /\ Halves(u) = Halves(t)
<1>1. \A p : LeavesOf(u, p) = LeavesOf(t, p)
  BY DEF LeavesOf
<1>. QED
  BY <1>1 DEF UnitsIn, Halves
-----------------------------------------------------------------------------
(* How often the leaves are still to be drawn in a round.                  *)

LeftOver(t, left, p) == SumFunction([k \in LeavesOf(t, p) |-> left[k]])

\* So many draws of each leaf last until the end of the round.
InTime(t, left, d) ==
  /\ left \in [Node -> Nat]
  /\ \A k \in DOMAIN t : Owned(t, k) => MaxValue - d <= left[k] * Weight[k] + Wait(t)[k]

LEMMA LeftOverIs ==
  ASSUME NEW t \in Trees, NEW left \in [Node -> Nat], NEW p
  PROVE  /\ LeftOver(t, left, p) \in Nat
         /\ \A k \in LeavesOf(t, p) : left[k] <= LeftOver(t, left, p)
<1>1. LeavesOf(t, p) \subseteq Node /\ IsFiniteSet(LeavesOf(t, p))
  BY LeavesAreFinite
<1> DEFINE X == LeavesOf(t, p)
           f == [k \in X |-> left[k]]
<1> HIDE DEF X
<1>2. f \in [X -> Nat] /\ IsFiniteSet(X) /\ \A k \in X : f[k] = left[k]
  BY <1>1 DEF X
<1> HIDE DEF f
<1>3. SumFunction(f) \in Nat
  BY <1>2, SumWithout
<1>4. \A k \in X : f[k] <= SumFunction(f)
  BY <1>2, SumAtLeast
<1>5. \A k \in X : left[k] <= SumFunction(f)
  BY <1>2, <1>4
<1>. QED
  BY <1>3, <1>5 DEF LeftOver, f, X

\* At the start of a round a leaf is to be drawn as often as it is worth.
LEMMA RoundStarts ==
  ASSUME NEW t \in Trees, Halves(t) = {}
  PROVE  /\ InTime(t, LevelValue, 0)
         /\ \A p : UnitsIn(t, p) = 2 * LeftOver(t, LevelValue, p)
<1>1. LevelValue \in [Node -> Nat]
  BY LevelValueIs
<1>2. ASSUME NEW k \in DOMAIN t
      PROVE  /\ k \in Node /\ LevelValue[k] # 0
             /\ MaxValue <= LevelValue[k] * Weight[k] + Wait(t)[k]
  <2>1. k \in Node /\ LevelValue[k] # 0 /\ LevelValue[k] \in Nat
    BY <1>1, TreeIs DEF Halves
  <2>2. Weight[k] * LevelValue[k] = MaxValue /\ Weight[k] \in Nat
    BY <2>1, LevelsHalve, WeightIs
  <2>3. LevelValue[k] * Weight[k] = MaxValue
    <3> DEFINE l == LevelValue[k]
               w == Weight[k]
    <3>1. l \in Nat /\ w \in Nat /\ w * l = MaxValue
      BY <2>1, <2>2
    <3> HIDE DEF l, w
    <3>2. l * w = MaxValue
      BY <3>1
    <3>. QED
      BY <3>2 DEF l, w
  <2>4. Wait(t)[k] \in Nat
    BY <2>1, WaitIs
  <2>. QED
    BY <2>1, <2>3, <2>4, SchTreeAssumption
<1>3. InTime(t, LevelValue, 0)
  BY <1>1, <1>2, SchTreeAssumption DEF InTime
<1>4. ASSUME NEW p PROVE UnitsIn(t, p) = 2 * LeftOver(t, LevelValue, p)
  <2> DEFINE X == LeavesOf(t, p)
             f == [k \in X |-> LevelValue[k]]
             g == [k \in X |-> HalfValue(k)]
  <2>1. X \subseteq DOMAIN t /\ X \subseteq Node /\ IsFiniteSet(X)
    BY LeavesAreFinite DEF LeavesOf
  <2> HIDE DEF X
  <2>2. f \in [X -> Nat] /\ g \in [X -> Nat] /\ \A k \in X : g[k] = 2 * f[k]
    BY <1>1, <1>2, <2>1 DEF HalfValue
  <2> HIDE DEF f, g
  <2>3. SumFunction(g) = 2 * SumFunction(f)
    BY <2>1, <2>2, SumTwice
  <2>. QED
    BY <2>3 DEF UnitsIn, LeftOver, f, g, X
<1>. QED
  BY <1>3, <1>4

LEMMA OneLess ==
  ASSUME NEW l \in Nat, NEW w \in Nat, l >= 1
  PROVE  (l - 1) * w = l * w - w /\ l * w \in Nat
OBVIOUS

\* One draw less is left of a leaf.
OneOff(left, q) == [left EXCEPT ![q] = @ - 1]

\* A draw takes one from the leaf it ends at.
LEMMA DrawTakesOne ==
  ASSUME NEW t \in Trees, Shaped(t), Full(t), DOMAIN t # {}, NEW d \in 0 .. MaxValue - 1,
         NEW left, InTime(t, left, d), NEW q, q = Selected(t)
  PROVE  /\ left[q] >= 1
         /\ InTime(TurnedTree(t), OneOff(left, q), d + 1)
         /\ LeftOver(t, OneOff(left, q), t[q].path) = LeftOver(t, left, t[q].path) - 1
         /\ \A p : p # t[q].path =>
              LeftOver(t, OneOff(left, q), p) = LeftOver(t, left, p)
<1> DEFINE u == TurnedTree(t)
           less == OneOff(left, q)
<1>0. left \in [Node -> Nat] /\ MaxValue \in Nat /\ d \in Nat /\ MaxValue - d \in Nat /\ MaxValue - d >= 1
  BY SchTreeAssumption DEF InTime
<1>1. /\ Owned(t, q) /\ q \in DOMAIN t /\ q \in Node
      /\ \A k \in DOMAIN t : Owned(t, k) => (Wait(t)[k] = 0 <=> k = q)
  BY DrawPicks, OwnedIs
<1>2. /\ u \in Trees /\ DOMAIN u = DOMAIN t /\ \A k : Owned(u, k) = Owned(t, k)
  BY DrawnTree
<1>3. left[q] \in Nat /\ Weight[q] \in Nat /\ Wait(t)[q] = 0 /\ MaxValue - d <= left[q] * Weight[q] + Wait(t)[q]
  BY <1>0, <1>1, WeightIs DEF InTime
<1>4. left[q] >= 1
  <2>1. SUFFICES ASSUME left[q] = 0 PROVE FALSE
    BY <1>3
  <2>2. left[q] * Weight[q] = 0
    BY <1>3, <2>1
  <2>. QED
    BY <1>0, <1>3, <2>2
<1>5. /\ less \in [Node -> Nat] /\ less[q] = left[q] - 1
      /\ \A k \in Node : k # q => less[k] = left[k]
  BY <1>0, <1>1, <1>3, <1>4 DEF OneOff
<1> HIDE DEF less
<1>6. ASSUME NEW k \in DOMAIN t, Owned(t, k)
      PROVE  MaxValue - (d + 1) <= less[k] * Weight[k] + Wait(u)[k]
  <2>1. k \in Node
    BY <1>6, OwnedIs
  <2>2. /\ left[k] \in Nat /\ less[k] \in Nat /\ Weight[k] \in Nat /\ Wait(t)[k] \in Nat
        /\ MaxValue - d <= left[k] * Weight[k] + Wait(t)[k]
    BY <1>0, <1>5, <1>6, <2>1, WeightIs, WaitIs DEF InTime
  <2>3. Wait(u)[k] = IF Wait(t)[k] = 0 THEN Weight[k] - 1 ELSE Wait(t)[k] - 1
    BY DrawShortensWait
  <2>4. CASE k = q
    <3>1. less[k] * Weight[k] = left[k] * Weight[k] - Weight[k] /\ left[k] * Weight[k] \in Nat
      <4>1. less[k] = left[k] - 1 /\ left[k] >= 1
        BY <1>4, <1>5, <2>4
      <4>. QED
        BY <2>2, <4>1, OneLess
    <3> DEFINE prod == left[k] * Weight[k]
    <3>2. MaxValue - d <= prod
      BY <1>3, <2>4
    <3> HIDE DEF prod
    <3>3. Wait(u)[k] = Weight[k] - 1
      BY <1>3, <2>3, <2>4
    <3>4. MaxValue - (d + 1) <= (prod - Weight[k]) + (Weight[k] - 1)
      <4>1. prod \in Nat
        BY <3>1 DEF prod
      <4>. QED
        BY <1>0, <2>2, <3>2, <4>1
    <3>. QED
      BY <3>1, <3>3, <3>4 DEF prod
  <2>5. CASE k # q
    <3> DEFINE prod == left[k] * Weight[k]
    <3>1. less[k] * Weight[k] = prod /\ prod \in Nat
      BY <1>5, <2>1, <2>2, <2>5
    <3> HIDE DEF prod
    <3>2. Wait(u)[k] = Wait(t)[k] - 1
      BY <1>1, <1>6, <2>3, <2>5
    <3>3. MaxValue - d <= prod + Wait(t)[k]
      BY <2>2 DEF prod
    <3>. QED
      BY <1>0, <2>2, <3>1, <3>2, <3>3
  <2>. QED
    BY <2>4, <2>5
<1>7. InTime(u, less, d + 1)
  BY <1>2, <1>5, <1>6 DEF InTime
<1>8. LeftOver(t, less, t[q].path) = LeftOver(t, left, t[q].path) - 1
  <2> DEFINE X == LeavesOf(t, t[q].path)
             f == [k \in X |-> left[k]]
             g == [k \in X |-> less[k]]
  <2>1. X \subseteq Node /\ IsFiniteSet(X) /\ q \in X
    BY <1>1, LeavesAreFinite DEF LeavesOf
  <2> HIDE DEF X
  <2>2. /\ f \in [X -> Nat] /\ g \in [X -> Nat] /\ \A k \in X \ {q} : f[k] = g[k]
        /\ f[q] = left[q] /\ g[q] = left[q] - 1
    BY <1>0, <1>5, <2>1
  <2> HIDE DEF f, g
  <2>3. SumFunction(g) + f[q] = SumFunction(f) + g[q]
    BY <2>1, <2>2, SumOfChange
  <2>4. SumFunction(g) \in Nat /\ SumFunction(f) \in Nat
    BY <2>1, <2>2, SumWithout
  <2>5. SumFunction(g) = SumFunction(f) - 1
    BY <1>3, <2>2, <2>3, <2>4
  <2>. QED
    BY <2>5 DEF LeftOver, f, g, X
<1>9. ASSUME NEW p, p # t[q].path PROVE LeftOver(t, less, p) = LeftOver(t, left, p)
  <2>1. LeavesOf(t, p) \subseteq Node /\ q \notin LeavesOf(t, p)
    BY <1>9, LeavesAreFinite DEF LeavesOf
  <2>2. \A k \in LeavesOf(t, p) : less[k] = left[k]
    BY <1>5, <2>1
  <2>. QED
    BY <2>2 DEF LeftOver
<1>. QED
  BY <1>4, <1>7, <1>8, <1>9 DEF u, less
-----------------------------------------------------------------------------
(* The inductive invariant.                                                *)

\* The tree is one that was built of a whole batch, whatever has been drawn
\* from it since; actual is NULL, stale or a leaf of it.
TreeInv ==
  /\ sch \in [root : Trees, actual : Int, paths : Seq(Path), path_values : Seq(0 .. MaxValue)]
  /\ Shaped(sch.root) /\ Full(sch.root)
  /\ sch.actual \in {NoNode, Dangling} \/ Owned(sch.root, sch.actual)

\* The open batch fits the tree and lists no path twice.
BatchInv ==
  /\ Len(sch.paths) <= MaxPathNum /\ Len(sch.path_values) = Len(sch.paths) /\ Distinct(sch.paths)
  /\ Total(sch.path_values) <= MaxValue

\* No path was picked more often than there were picks.
HistoryInv ==
  /\ result \in Path \cup {NoPath, Fault}
  /\ target \in [Path -> 0 .. MaxValue] /\ served \in [Path -> 0 .. MaxValue]
  /\ drawn \in 0 .. MaxValue - 1 /\ gap \in [Path -> 0 .. MaxValue]
  /\ \A p \in Path : served[p] <= drawn

\* The picks a path has waited for and those that will still pass its leaf by
\* are less than the leaf is reached in.
SpreadInv ==
  \A k \in DOMAIN sch.root :
    Owned(sch.root, k) => gap[sch.root[k].path] + Wait(sch.root)[k] < Weight[k]

IInv == TreeInv /\ BatchInv /\ HistoryInv /\ SpreadInv

LEMMA InitHolds == Init => IInv
<1>1. SUFFICES ASSUME Init PROVE IInv
  OBVIOUS
<1>2. EmptyTree \in Trees /\ Shaped(EmptyTree) /\ Full(EmptyTree) /\ DOMAIN EmptyTree = {}
  BY EmptyTreeIs DEF ShapedTrees
<1>3. /\ sch.root = EmptyTree /\ sch.actual = NoNode /\ sch.paths = << >> /\ sch.path_values = << >>
      /\ sch \in [root : Trees, actual : Int, paths : Seq(Path), path_values : Seq(0 .. MaxValue)]
  BY <1>1, <1>2 DEF Init, InitTree, NoNode
<1>4. TreeInv
  BY <1>2, <1>3 DEF TreeInv
<1>5. BatchInv
  BY <1>3, TotalOfNothing, SchTreeAssumption, SchTreeSpecAssumption DEF BatchInv, Distinct
<1>6. HistoryInv
  BY <1>1, SchTreeAssumption DEF HistoryInv, Init, NoOne
<1>7. SpreadInv
  BY <1>2, <1>3 DEF SpreadInv
<1>. QED
  BY <1>4, <1>5, <1>6, <1>7 DEF IInv

LEMMA SetPathHolds ==
  ASSUME IInv, NEW p \in Path, NEW value \in Values, SchTreeSetPath(p, value)
  PROVE  IInv'
<1>. USE DEF IInv
<1>1. /\ Len(sch.paths) < MaxPathNum /\ Total(sch.path_values) + value <= MaxValue
      /\ sch' = SetPath(sch, p, value) /\ UNCHANGED <<result, target, drawn, served, gap>>
  BY DEF SchTreeSetPath, history
<1>2. /\ sch.root \in Trees /\ sch.actual \in Int /\ sch.paths \in Seq(Path)
      /\ sch.path_values \in Seq(0 .. MaxValue) /\ value \in Nat
      /\ sch = [root |-> sch.root, actual |-> sch.actual, paths |-> sch.paths,
                path_values |-> sch.path_values]
  BY SchTreeSpecAssumption DEF TreeInv
<1>3. /\ sch'.root = sch.root /\ sch'.actual = sch.actual /\ sch'.paths = Append(sch.paths, p)
      /\ sch'.path_values = Append(sch.path_values, value)
      /\ sch' = [root |-> sch.root, actual |-> sch.actual, paths |-> Append(sch.paths, p),
                 path_values |-> Append(sch.path_values, value)]
  BY <1>1, <1>2 DEF SetPath
<1>4. MaxValue \in Nat /\ MaxPathNum \in Nat
  BY SchTreeAssumption, SchTreeSpecAssumption
<1>5. sch.path_values \in Seq(Nat)
  BY <1>2, <1>4
<1>6. Total(sch.path_values) \in Nat /\ Total(Append(sch.path_values, value)) = Total(sch.path_values) + value
  BY <1>2, <1>5, TotalIsNat, TotalOfAppend
<1>7. value \in 0 .. MaxValue
  BY <1>1, <1>2, <1>4, <1>6
<1>8. TreeInv'
  <2>1. Append(sch.paths, p) \in Seq(Path) /\ Append(sch.path_values, value) \in Seq(0 .. MaxValue)
    BY <1>2, <1>7
  <2>. QED
    BY <1>2, <1>3, <2>1 DEF TreeInv
<1>9. BatchInv'
  <2>1. Distinct(Append(sch.paths, p))
    <3>1. Distinct(sch.paths) /\ \A i \in 1 .. Len(sch.paths) : sch.paths[i] # p
      BY DEF SchTreeSetPath, BatchInv
    <3>2. /\ Len(sch.paths) \in Nat /\ Len(Append(sch.paths, p)) = Len(sch.paths) + 1
          /\ \A i \in 1 .. Len(sch.paths) : Append(sch.paths, p)[i] = sch.paths[i]
          /\ Append(sch.paths, p)[Len(sch.paths) + 1] = p
      BY <1>2
    <3>3. \A i \in 1 .. Len(sch.paths) + 1 : i \in 1 .. Len(sch.paths) \/ i = Len(sch.paths) + 1
      BY <3>2
    <3>. QED
      BY <3>1, <3>2, <3>3 DEF Distinct
  <2>. QED
    BY <1>1, <1>2, <1>3, <1>4, <1>6, <2>1 DEF BatchInv
<1>10. HistoryInv' /\ SpreadInv'
  BY <1>1, <1>3 DEF HistoryInv, SpreadInv
<1>. QED
  BY <1>8, <1>9, <1>10

LEMMA CreateAndReplaceHolds ==
  ASSUME IInv, SchTreeCreateAndReplace
  PROVE  IInv'
<1>. USE DEF IInv
<1> DEFINE values == AdjustedValues(sch.path_values)
           new == BuildTree(sch.paths, values)
           part(p) == [i \in 1 .. Len(sch.paths) |-> IF sch.paths[i] = p THEN values[i] ELSE 0]
<1>1. /\ sch.root \in Trees /\ sch.paths \in Seq(Path) /\ sch.path_values \in Seq(Nat)
      /\ Len(sch.path_values) = Len(sch.paths) /\ Total(sch.path_values) <= MaxValue
  <2>1. sch.path_values \in Seq(0 .. MaxValue)
    BY DEF TreeInv
  <2>2. sch.path_values \in Seq(Nat)
    BY <2>1, SchTreeAssumption
  <2>. QED
    BY <2>2 DEF TreeInv, BatchInv
<1>2. /\ sch' = CreateAndReplace(sch) /\ result' = result /\ drawn' = 0 /\ served' = NoOne
      /\ gap' = NoOne /\ target' = [p \in Path |-> Total(part(p))]
  BY DEF SchTreeCreateAndReplace
<1>3. /\ values \in Seq(Nat) /\ Len(values) = Len(sch.paths)
      /\ sch.path_values # << >> => Total(values) = MaxValue
  <2>1. sch.path_values = << >> => values = sch.path_values
    BY DEF AdjustedValues
  <2>. QED
    BY <1>1, <2>1, AdjustedIs
<1>4. new \in ShapedTrees /\ Full(new)
  <2>1. Len(sch.paths) = 0 \/ sch.path_values # << >>
    BY <1>1
  <2>2. Len(sch.paths) = 0 \/ Total(values) = MaxValue
    BY <1>3, <2>1
  <2> HIDE DEF values
  <2>. QED
    BY <1>1, <1>3, <2>2, BuildTreeIs DEF values
<1>5. /\ OverlapTrees(sch.root, new) \in ShapedTrees /\ Full(OverlapTrees(sch.root, new))
  <2> HIDE DEF new
  <2>. QED
    BY <1>1, <1>4, OverlapIs
<1>6. /\ sch'.root = OverlapTrees(sch.root, new) /\ sch'.paths = << >> /\ sch'.path_values = << >>
      /\ sch'.actual \in {NoNode, Dangling}
      /\ sch' = [root |-> sch'.root, actual |-> sch'.actual, paths |-> << >>, path_values |-> << >>]
  BY <1>2 DEF CreateAndReplace
<1>7. sch'.root \in Trees /\ Shaped(sch'.root) /\ Full(sch'.root)
  BY <1>5, <1>6 DEF ShapedTrees
<1>8. TreeInv'
  <2>1. sch'.actual \in Int
    BY <1>6 DEF NoNode, Dangling
  <2>2. << >> \in Seq(Path) /\ << >> \in Seq(0 .. MaxValue)
    OBVIOUS
  <2>. QED
    BY <1>6, <1>7, <2>1, <2>2 DEF TreeInv
<1>9. BatchInv'
  BY <1>6, TotalOfNothing, SchTreeAssumption, SchTreeSpecAssumption DEF BatchInv, Distinct
<1>10. ASSUME NEW p \in Path PROVE Total(part(p)) \in 0 .. MaxValue
  <2>1. /\ part(p) \in Seq(Nat) /\ Len(part(p)) = Len(values)
        /\ \A n \in 1 .. Len(values) : part(p)[n] <= values[n]
    <3> HIDE DEF values
    <3>1. \A n \in 1 .. Len(sch.paths) : values[n] \in Nat
      BY <1>3
    <3>2. Len(sch.paths) \in Nat
      BY <1>1
    <3>. QED
      BY <1>3, <3>1, <3>2
  <2>2. Total(part(p)) \in Nat /\ Total(part(p)) <= Total(values)
    <3> HIDE DEF values, part
    <3>. QED
      BY <1>3, <2>1, TotalIsNat, TotalOfPart
  <2>3. Total(values) <= MaxValue
    <3>1. sch.path_values = << >> => values = sch.path_values
      BY DEF AdjustedValues
    <3>. QED
      BY <1>1, <1>3, <3>1, SchTreeAssumption
  <2>4. Total(values) \in Nat
    <3> HIDE DEF values
    <3>. QED
      BY <1>3, TotalIsNat
  <2>. QED
    BY <2>2, <2>3, <2>4, SchTreeAssumption
<1>11. HistoryInv'
  <2>1. target' \in [Path -> 0 .. MaxValue]
    <3> HIDE DEF part
    <3>. QED
      BY <1>2, <1>10
  <2>. QED
    BY <1>2, <2>1, SchTreeAssumption DEF HistoryInv, NoOne
<1>12. SpreadInv'
  <2>1. ASSUME NEW k \in DOMAIN sch'.root, Owned(sch'.root, k)
        PROVE  gap'[sch'.root[k].path] + Wait(sch'.root)[k] < Weight[k]
    <3>1. k \in Node /\ sch'.root[k].path \in Path
      BY <1>7, <2>1, OwnedIs
    <3>2. gap'[sch'.root[k].path] = 0
      BY <1>2, <3>1 DEF NoOne
    <3>3. Wait(sch'.root)[k] \in Nat /\ Wait(sch'.root)[k] < Weight[k]
      BY <3>1, WaitIs
    <3>. QED
      BY <3>2, <3>3
  <2>. QED
    BY <2>1 DEF SpreadInv
<1>. QED
  BY <1>8, <1>9, <1>11, <1>12

\* One draw, made by get_next or by the get_actual that finds nothing drawn.
LEMMA DrawHolds ==
  ASSUME IInv, sch' = GetNext(sch), result' = NextPath(sch),
         IF result' \in Path THEN Picked(result') ELSE UNCHANGED history
  PROVE  IInv' /\ (result' \in {Fault, NoPath} => DOMAIN sch.root = {})
<1>. USE DEF IInv
<1> DEFINE t == sch.root
           u == TurnedTree(t)
           q == Selected(t)
<1>1. /\ t \in Trees /\ Shaped(t) /\ Full(t) /\ sch.actual \in Int /\ sch.paths \in Seq(Path)
      /\ sch.path_values \in Seq(0 .. MaxValue)
      /\ sch = [root |-> t, actual |-> sch.actual, paths |-> sch.paths,
                path_values |-> sch.path_values]
  BY DEF TreeInv
<1>2. /\ sch'.root = u /\ sch'.actual = q /\ sch'.paths = sch.paths
      /\ sch'.path_values = sch.path_values
      /\ sch' = [root |-> u, actual |-> q, paths |-> sch.paths, path_values |-> sch.path_values]
  BY <1>1 DEF GetNext
<1> HIDE DEF t
<1>3. /\ u \in Trees /\ DOMAIN u = DOMAIN t /\ Shaped(u) /\ Full(u)
      /\ \A k \in DOMAIN t : u[k].path = t[k].path
      /\ \A k : Owned(u, k) <=> Owned(t, k)
  BY <1>1, DrawnTree
<1>4. DOMAIN t # {} => /\ Owned(t, q) /\ q # NoNode /\ result' = t[q].path /\ q \in DOMAIN t
                       /\ result' \in Path /\ q \in Int
  <2>1. DOMAIN t # {} => Owned(t, q) /\ q # NoNode
    BY <1>1, DrawPicks
  <2>2. DOMAIN t # {} => q \in DOMAIN t /\ q \in Node /\ t[q].path \in Path
    BY <1>1, <2>1, OwnedIs
  <2>3. result' = IF q = NoNode THEN Fault ELSE t[q].path
    BY DEF NextPath, t
  <2>4. \A k \in Node : k \in Int
    BY SchTreeAssumption DEF Node
  <2> HIDE DEF q
  <2>. QED
    BY <2>1, <2>2, <2>3, <2>4
<1>5. DOMAIN t = {} => q = NoNode /\ result' = Fault
  <2>1. DOMAIN t = {} => q = NoNode
    BY DEF Selected
  <2>. QED
    BY <2>1 DEF NextPath, t
<1> HIDE DEF u, q
<1>6. TreeInv'
  <2>1. q \in Int
    <3>1. NoNode \in Int
      BY DEF NoNode
    <3>. QED
      BY <1>4, <1>5, <3>1
  <2>. QED
    BY <1>1, <1>2, <1>3, <1>4, <1>5, <2>1 DEF TreeInv
<1>7. BatchInv'
  BY <1>2 DEF BatchInv
<1>8. result' \in {Fault, NoPath} => DOMAIN t = {}
  BY <1>4, SchTreeAssumption
<1>9. CASE DOMAIN t = {}
  <2>1. UNCHANGED <<target, drawn, served, gap>>
    BY <1>5, <1>9, SchTreeAssumption DEF history
  <2>2. HistoryInv'
    BY <1>5, <1>9, <2>1 DEF HistoryInv
  <2>3. SpreadInv'
    BY <1>2, <1>3, <1>9 DEF SpreadInv
  <2>. QED
    BY <1>6, <1>7, <1>9, <2>2, <2>3 DEF t
<1>10. CASE DOMAIN t # {}
  <2>1. result' \in Path /\ Picked(result')
    BY <1>4, <1>10
  <2>2. /\ MaxValue \in Nat \ {0} /\ drawn \in 0 .. MaxValue - 1
        /\ served \in [Path -> 0 .. MaxValue] /\ gap \in [Path -> 0 .. MaxValue]
        /\ \A p \in Path : served[p] <= drawn
    BY SchTreeAssumption DEF HistoryInv
  <2>3. /\ drawn' = (drawn + 1) % MaxValue
        /\ served' = IF drawn' = 0 THEN NoOne ELSE [served EXCEPT ![result'] = @ + 1]
        /\ gap' = [p \in Path |-> IF p = result' \/ target[p] = 0 THEN 0
                                  ELSE IF gap[p] = MaxValue THEN MaxValue ELSE gap[p] + 1]
        /\ target' = target
    BY <2>1 DEF Picked
  <2>4. drawn' \in 0 .. MaxValue - 1 /\ (drawn' = 0 \/ drawn' = drawn + 1)
    <3>1. CASE drawn + 1 = MaxValue
      BY <2>2, <2>3, <3>1
    <3>2. CASE drawn + 1 < MaxValue
      BY <2>2, <2>3, <3>2
    <3>. QED
      BY <2>2, <3>1, <3>2
  <2>5. served' \in [Path -> 0 .. MaxValue] /\ \A p \in Path : served'[p] <= drawn'
    <3>1. CASE drawn' = 0
      BY <2>2, <2>3, <3>1 DEF NoOne
    <3>2. CASE drawn' = drawn + 1 /\ drawn' # 0
      <4>1. \A p \in Path : served'[p] \in {served[p], served[p] + 1} /\ served[p] \in Nat
        BY <2>1, <2>2, <2>3, <3>2
      <4>2. \A p \in Path : served'[p] \in Nat /\ served'[p] <= drawn'
        BY <2>2, <3>2, <4>1
      <4>3. \A p \in Path : served'[p] \in 0 .. MaxValue
        BY <2>2, <2>4, <4>2
      <4>4. served' = [p \in Path |-> served'[p]]
        BY <2>2, <2>3, <3>2
      <4>. QED
        BY <4>2, <4>3, <4>4
    <3>. QED
      BY <2>4, <3>1, <3>2
  <2>6. /\ gap' \in [Path -> 0 .. MaxValue]
        /\ \A p \in Path : gap'[p] <= gap[p] + 1 /\ gap[p] \in Nat /\ gap'[p] \in Nat
        /\ gap'[result'] = 0
    BY <2>1, <2>2, <2>3
  <2>7. HistoryInv'
    BY <2>1, <2>3, <2>4, <2>5, <2>6 DEF HistoryInv
  <2>8. ASSUME NEW k \in DOMAIN t, Owned(t, k)
        PROVE  gap'[t[k].path] + Wait(u)[k] < Weight[k]
    <3>1. k \in Node /\ t[k].path \in Path
      BY <1>1, <2>8, OwnedIs
    <3>2. /\ Wait(t)[k] \in Nat /\ Wait(u)[k] \in Nat /\ Weight[k] \in Nat
          /\ Wait(u)[k] < Weight[k]
      BY <3>1, WaitIs, WeightIs
    <3>3. CASE k = q
      <4>1. gap'[t[k].path] = 0
        BY <1>4, <1>10, <2>6, <3>3
      <4>. QED
        BY <3>2, <4>1
    <3>4. CASE k # q
      <4>1. Wait(t)[k] # 0
        BY <1>1, <1>10, <2>8, <3>4, DrawPicks DEF q
      <4>2. Wait(u)[k] = Wait(t)[k] - 1
        BY <1>1, <4>1, DrawShortensWait DEF u
      <4>3. gap[t[k].path] + Wait(t)[k] < Weight[k]
        BY <2>8 DEF SpreadInv, t
      <4>. QED
        BY <2>6, <3>1, <3>2, <4>1, <4>2, <4>3
    <3>. QED
      BY <3>3, <3>4
  <2>9. SpreadInv'
    BY <1>2, <1>3, <2>8 DEF SpreadInv
  <2>. QED
    BY <1>6, <1>7, <1>8, <2>7, <2>9 DEF t
<1>. QED
  BY <1>9, <1>10

LEMMA GetNextHolds ==
  ASSUME IInv, SchTreeGetNext
  PROVE  IInv' /\ (result' \in {Fault, NoPath} => DOMAIN sch.root = {})
BY DrawHolds DEF SchTreeGetNext

LEMMA GetActualHolds ==
  ASSUME IInv, SchTreeGetActual
  PROVE  IInv' /\ (result' \in {Fault, NoPath} => DOMAIN sch.root = {} \/ sch.actual = Dangling)
<1>1. CASE sch.actual = NoNode
  <2>1. sch' = GetNext(sch) /\ result' = NextPath(sch)
    <3>1. GetActual(sch) = GetNext(sch)
      BY <1>1 DEF GetActual
    <3>2. ActualPaths(sch) = {NextPath(sch)}
      BY <1>1 DEF ActualPaths, NoNode, Dangling
    <3>. QED
      BY <3>1, <3>2 DEF SchTreeGetActual
  <2>2. IF result' \in Path THEN Picked(result') ELSE UNCHANGED history
    BY <1>1 DEF SchTreeGetActual
  <2>. QED
    BY <2>1, <2>2, DrawHolds
<1>2. CASE sch.actual # NoNode
  <2>1. sch' = sch /\ UNCHANGED <<target, drawn, served, gap>>
    BY <1>2 DEF SchTreeGetActual, GetActual, history
  <2>2. CASE sch.actual = Dangling
    <3>1. result' \in Path \cup {NoPath, Fault}
      BY <2>2 DEF SchTreeGetActual, ActualPaths, NoNode, Dangling
    <3>. QED
      BY <2>1, <2>2, <3>1 DEF IInv, TreeInv, BatchInv, HistoryInv, SpreadInv
  <2>3. CASE sch.actual # Dangling
    <3>1. sch.root \in Trees /\ Owned(sch.root, sch.actual)
      BY <1>2, <2>3 DEF IInv, TreeInv
    <3>2. result' = sch.root[sch.actual].path
      BY <1>2, <2>3 DEF SchTreeGetActual, ActualPaths
    <3>3. result' \in Path
      BY <3>1, <3>2, OwnedIs
    <3>4. result' \notin {Fault, NoPath}
      BY <3>3, SchTreeAssumption
    <3>. QED
      BY <2>1, <3>3, <3>4 DEF IInv, TreeInv, BatchInv, HistoryInv, SpreadInv
  <2>. QED
    BY <2>2, <2>3
<1>. QED
  BY <1>1, <1>2

LEMMA NextHolds == IInv /\ [Next]_vars => IInv'
<1>1. SUFFICES ASSUME IInv, [Next]_vars PROVE IInv'
  OBVIOUS
<1>2. ASSUME NEW p \in Path, NEW v \in Values, SchTreeSetPath(p, v) PROVE IInv'
  BY <1>1, <1>2, SetPathHolds
<1>3. CASE SchTreeCreateAndReplace
  BY <1>1, <1>3, CreateAndReplaceHolds
<1>4. CASE SchTreeGetNext
  BY <1>1, <1>4, GetNextHolds
<1>5. CASE SchTreeGetActual
  BY <1>1, <1>5, GetActualHolds
<1>6. CASE UNCHANGED vars
  BY <1>1, <1>6 DEF vars, history, IInv, TreeInv, BatchInv, HistoryInv, SpreadInv
<1>. QED
  BY <1>1, <1>2, <1>3, <1>4, <1>5, <1>6 DEF Next

LEMMA IInvHolds == Spec => []IInv
<1>. QED
  BY InitHolds, NextHolds, PTL DEF Spec
-----------------------------------------------------------------------------
(* What each path has of the tree, and has still to get of the round.      *)

\* The leaves of a path are worth what it is owed, exactly if no path came with
\* nothing.
ShareInv ==
  /\ \A p \in Path : UnitsIn(sch.root, p) - 2 * target[p] \in -2 .. 1
  /\ Exact => Halves(sch.root) = {} /\ \A p \in Path : UnitsIn(sch.root, p) = 2 * target[p]

Credit == [p \in Path |-> target[p] - served[p]]

\* The picks a path has still to get are the draws of its leaves that are left
\* in this round.
CreditInv ==
  /\ DOMAIN sch.root # {} => SumFunction(target) = MaxValue
  /\ DOMAIN sch.root # {} /\ Exact => SumFunction(Credit) = MaxValue - drawn
  /\ Exact => \E left : /\ InTime(sch.root, left, drawn)
                        /\ \A p \in Path : LeftOver(sch.root, left, p) = target[p] - served[p]

UnitInv == ShareInv /\ CreditInv

\* A tree without nodes owes nothing.
LEMMA NothingOwed ==
  ASSUME NEW t \in Trees, DOMAIN t = {}
  PROVE  /\ Halves(t) = {} /\ \A p : UnitsIn(t, p) = 0
         /\ InTime(t, LevelValue, 0) /\ \A p : LeftOver(t, LevelValue, p) = 0
<1>1. Halves(t) = {} /\ \A p : LeavesOf(t, p) = {}
  BY DEF Halves, LeavesOf
<1>2. \A p : UnitsIn(t, p) = 0
  BY <1>1, LeavesAreFinite
<1>3. LevelValue \in [Node -> Nat]
  BY LevelValueIs
<1>4. InTime(t, LevelValue, 0) /\ \A p : UnitsIn(t, p) = 2 * LeftOver(t, LevelValue, p)
  BY <1>1, RoundStarts
<1>5. \A p : LeftOver(t, LevelValue, p) \in Nat
  BY <1>3, LeftOverIs
<1>. QED
  BY <1>1, <1>2, <1>4, <1>5

LEMMA InitDeals == Init => UnitInv
<1>1. SUFFICES ASSUME Init PROVE UnitInv
  OBVIOUS
<1>2. sch.root = EmptyTree /\ EmptyTree \in Trees /\ DOMAIN EmptyTree = {}
  BY <1>1, EmptyTreeIs DEF Init, InitTree, ShapedTrees
<1>3. /\ Halves(sch.root) = {} /\ \A p : UnitsIn(sch.root, p) = 0
      /\ InTime(sch.root, LevelValue, 0) /\ \A p : LeftOver(sch.root, LevelValue, p) = 0
  BY <1>2, NothingOwed
<1>4. drawn = 0 /\ \A p \in Path : target[p] = 0 /\ served[p] = 0
  BY <1>1 DEF Init, NoOne
<1>5. ShareInv
  BY <1>3, <1>4 DEF ShareInv
<1>6. CreditInv
  BY <1>2, <1>3, <1>4 DEF CreditInv
<1>. QED
  BY <1>5, <1>6 DEF UnitInv

\* A new tree deals out what it owes.
LEMMA ReplaceDeals ==
  ASSUME IInv, IInv', SchTreeCreateAndReplace
  PROVE  /\ UnitInv'
         /\ drawn' = 0 /\ served' = NoOne
         /\ target' = NoOne \/ SumFunction(target') = MaxValue
<1> DEFINE values == AdjustedValues(sch.path_values)
           new == BuildTree(sch.paths, values)
           u == sch'.root
           N == Len(sch.paths)
<1>1. /\ sch.root \in Trees /\ sch.paths \in Seq(Path) /\ sch.path_values \in Seq(Nat)
      /\ Len(sch.path_values) = Len(sch.paths) /\ Total(sch.path_values) <= MaxValue
      /\ Distinct(sch.paths) /\ N \in Nat
  <2>1. sch.path_values \in Seq(0 .. MaxValue)
    BY DEF IInv, TreeInv
  <2>2. sch.path_values \in Seq(Nat)
    BY <2>1, SchTreeAssumption
  <2>. QED
    BY <2>2 DEF IInv, TreeInv, BatchInv
<1>2. /\ sch' = CreateAndReplace(sch) /\ drawn' = 0 /\ served' = NoOne
      /\ target' = Owed(sch.paths, values)
  BY DEF SchTreeCreateAndReplace, Owed
<1>3. /\ values \in Seq(Nat) /\ Len(values) = N
      /\ N # 0 => Total(values) = MaxValue
  <2>1. sch.path_values = << >> => values = sch.path_values
    BY DEF AdjustedValues
  <2>2. N # 0 <=> sch.path_values # << >>
    BY <1>1
  <2> HIDE DEF values
  <2>3. sch.path_values # << >> => values \in Seq(Nat) /\ Len(values) = N /\ Total(values) = MaxValue
    BY <1>1, AdjustedIs DEF values
  <2>. QED
    BY <1>1, <2>1, <2>2, <2>3
<1>4. u = OverlapTrees(sch.root, new)
  BY <1>2 DEF CreateAndReplace
<1> HIDE DEF values
<1>5. new \in ShapedTrees
  BY <1>1, <1>3, BuildTreeIs
<1>6. /\ u \in Trees /\ DOMAIN u = DOMAIN new
      /\ \A k \in DOMAIN new : u[k].path = new[k].path
  <2> HIDE DEF new, u
  <2>. QED
    BY <1>1, <1>4, <1>5, OverlapIs DEF ShapedTrees
<1>7. /\ \A p : LeavesOf(u, p) = LeavesOf(new, p) /\ UnitsIn(u, p) = UnitsIn(new, p)
      /\ Halves(u) = Halves(new)
  <2> HIDE DEF new, u
  <2>. QED
    BY <1>6, SameLeaves
<1>8. /\ target' \in [Path -> Nat] /\ \A i \in 1 .. N : target'[sch.paths[i]] = values[i]
      /\ \A p \in Path : (\A i \in 1 .. N : sch.paths[i] # p) => target'[p] = 0
  <2> DEFINE T == Owed(sch.paths, values)
  <2>1. /\ T \in [Path -> Nat] /\ \A i \in 1 .. N : T[sch.paths[i]] = values[i]
        /\ \A p \in Path : (\A i \in 1 .. N : sch.paths[i] # p) => T[p] = 0
    BY <1>1, <1>3, OwedIs
  <2> HIDE DEF T
  <2>2. target' = T
    BY <1>2 DEF T
  <2>. QED
    BY <2>1, <2>2
<1>9. \A p \in Path : target'[p] - served'[p] = target'[p]
  BY <1>2, <1>8 DEF NoOne
<1>10. CASE N = 0
  <2>1. DOMAIN u = {}
    <3>1. PICK b : IsBuilt(b, sch.paths, values) /\ new = b[N]
      BY <1>1, <1>3, BuiltIs
    <3>2. new = EmptyTree
      BY <1>10, <3>1 DEF IsBuilt
    <3>. QED
      BY <1>6, <3>2, EmptyTreeIs
  <2>2. \A p \in Path : target'[p] = 0
    BY <1>8, <1>10
  <2>3. target' = NoOne
    BY <1>8, <2>2 DEF NoOne
  <2>4. /\ Halves(u) = {} /\ \A p : UnitsIn(u, p) = 0
        /\ InTime(u, LevelValue, 0) /\ \A p : LeftOver(u, LevelValue, p) = 0
    BY <1>6, <2>1, NothingOwed
  <2>5. ShareInv'
    BY <2>2, <2>4 DEF ShareInv
  <2>6. CreditInv'
    BY <1>2, <1>9, <2>1, <2>2, <2>4 DEF CreditInv
  <2>. QED
    BY <1>2, <2>3, <2>5, <2>6 DEF UnitInv
<1>11. CASE N # 0
  <2>1. Dealt(new, sch.paths, values, N) /\ Total(values) = MaxValue
    BY <1>1, <1>3, <1>11, BuildDeals
  <2>2. \A p \in Path : (\A i \in 1 .. N : sch.paths[i] # p) =>
                          LeavesOf(u, p) = {} /\ UnitsIn(u, p) = 0 /\ target'[p] = 0
    <3> HIDE DEF u, new
    <3>. QED
      BY <1>6, <1>7, <1>8, <2>1, LeavesAreFinite DEF Dealt
  <2>3. \A p \in Path : UnitsIn(u, p) - 2 * target'[p] \in -2 .. 1
    <3>1. ASSUME NEW p \in Path PROVE UnitsIn(u, p) - 2 * target'[p] \in -2 .. 1
      <4>1. CASE \E i \in 1 .. N : sch.paths[i] = p
        <5>1. PICK i \in 1 .. N : sch.paths[i] = p
          BY <4>1
        <5>2. UnitsIn(new, sch.paths[i]) - 2 * values[i] \in -2 .. 1
          BY <2>1 DEF Dealt
        <5>. QED
          BY <1>7, <1>8, <5>1, <5>2
      <4>2. CASE \A i \in 1 .. N : sch.paths[i] # p
        BY <2>2, <4>2
      <4>. QED
        BY <4>1, <4>2
    <3>. QED
      BY <3>1
  <2>4. ASSUME Exact'
        PROVE  Halves(u) = {} /\ \A p \in Path : UnitsIn(u, p) = 2 * target'[p]
    <3>1. values[1] # 0
      <4>1. SUFFICES ASSUME values[1] = 0 PROVE FALSE
        OBVIOUS
      <4>2. 1 \in 1 .. N /\ sch.paths[1] \in Path
        BY <1>1, <1>11
      <4>3. PICK k : k \in LeavesOf(u, sch.paths[1])
        BY <1>1, <1>7, <1>11, <2>1, <4>1 DEF Dealt
      <4>4. k \in DOMAIN u /\ u[k].path = sch.paths[1] /\ u[k].path # NoPath
        BY <4>2, <4>3, SchTreeAssumption DEF LeavesOf
      <4>5. target'[sch.paths[1]] > 0
        BY <2>4, <4>4 DEF Exact
      <4>. QED
        BY <1>8, <4>1, <4>2, <4>5
    <3>2. ASSUME NEW p \in Path PROVE UnitsIn(u, p) = 2 * target'[p]
      <4>1. CASE \E i \in 1 .. N : sch.paths[i] = p
        <5>1. PICK i \in 1 .. N : sch.paths[i] = p
          BY <4>1
        <5>2. UnitsIn(new, sch.paths[i]) = 2 * values[i]
          BY <2>1, <3>1 DEF Dealt
        <5>. QED
          BY <1>7, <1>8, <5>1, <5>2
      <4>2. CASE \A i \in 1 .. N : sch.paths[i] # p
        BY <2>2, <4>2
      <4>. QED
        BY <4>1, <4>2
    <3>3. Halves(u) = {}
      BY <1>7, <2>1, <3>1 DEF Dealt
    <3>. QED
      BY <3>2, <3>3
  <2>5. SumFunction(target') = MaxValue
    BY <1>1, <1>2, <1>3, <2>1, OwedAddsUp, SchTreeSpecAssumption
  <2>6. ShareInv'
    BY <2>3, <2>4 DEF ShareInv
  <2>7. Credit' = target'
    BY <1>8, <1>9 DEF Credit
  <2>8. ASSUME Exact'
        PROVE  /\ InTime(u, LevelValue, drawn')
               /\ \A p \in Path : LeftOver(u, LevelValue, p) = target'[p] - served'[p]
    <3>1. InTime(u, LevelValue, 0) /\ \A p : UnitsIn(u, p) = 2 * LeftOver(u, LevelValue, p)
      BY <1>6, <2>4, <2>8, RoundStarts
    <3>2. \A p \in Path : LeftOver(u, LevelValue, p) \in Nat /\ target'[p] \in Nat
      BY <1>6, <1>8, LevelValueIs, LeftOverIs
    <3>3. \A p \in Path : LeftOver(u, LevelValue, p) = target'[p]
      BY <2>4, <2>8, <3>1, <3>2
    <3>. QED
      BY <1>2, <1>9, <3>1, <3>3
  <2>9. CreditInv'
    <3>1. SumFunction(Credit') = MaxValue - drawn'
      BY <1>2, <2>5, <2>7, SchTreeAssumption
    <3>. QED
      BY <2>5, <2>8, <3>1 DEF CreditInv
  <2>. QED
    BY <1>2, <2>5, <2>6, <2>9 DEF UnitInv
<1>. QED
  BY <1>10, <1>11

\* What a pick does to the credit of the paths, as the specification has it.
PickMaps ==
  /\ result' \in Path /\ Credit[result'] > 0
  /\ Credit' = IF [Credit EXCEPT ![result'] = @ - 1] = NoOne
               THEN target ELSE [Credit EXCEPT ![result'] = @ - 1]

LEMMA DrawDeals ==
  ASSUME IInv, UnitInv, IInv', sch' = GetNext(sch), result' = NextPath(sch),
         IF result' \in Path THEN Picked(result') ELSE UNCHANGED history
  PROVE  /\ UnitInv' /\ target' = target /\ (Exact' <=> Exact)
         /\ DOMAIN sch.root = {} => served' = served
         /\ Exact /\ DOMAIN sch.root # {} => PickMaps
<1> DEFINE t == sch.root
           u == sch'.root
           q == Selected(t)
<1>1. /\ t \in Trees /\ Shaped(t) /\ Full(t) /\ u \in Trees
      /\ target \in [Path -> Nat] /\ served \in [Path -> Nat] /\ served' \in [Path -> Nat]
      /\ drawn \in 0 .. MaxValue - 1 /\ drawn' \in 0 .. MaxValue - 1 /\ MaxValue \in Nat \ {0}
      /\ drawn \in Nat
  BY SchTreeAssumption, SMTT(30) DEF IInv, TreeInv, HistoryInv
<1>2. u = TurnedTree(t)
  BY <1>1 DEF GetNext
<1>3. /\ DOMAIN u = DOMAIN t /\ \A k \in DOMAIN t : u[k].path = t[k].path
      /\ \A k : Owned(u, k) = Owned(t, k)
  <2> HIDE DEF t, u
  <2>. QED
    BY <1>1, <1>2, DrawnTree
<1>4. /\ \A p : LeavesOf(u, p) = LeavesOf(t, p) /\ UnitsIn(u, p) = UnitsIn(t, p)
      /\ Halves(u) = Halves(t)
  <2> HIDE DEF t, u
  <2>. QED
    BY <1>3, SameLeaves
<1>5. \A left : \A p : LeftOver(u, left, p) = LeftOver(t, left, p)
  BY <1>4 DEF LeftOver
<1>6. DOMAIN t # {} => /\ Owned(t, q) /\ q \in DOMAIN t /\ t[q].path \in Path /\ q # NoNode
                       /\ result' = t[q].path
  <2>1. DOMAIN t # {} => Owned(t, q) /\ q # NoNode
    BY <1>1, DrawPicks
  <2>2. DOMAIN t # {} => q \in DOMAIN t /\ t[q].path \in Path
    BY <1>1, <2>1, OwnedIs
  <2>3. result' = IF q = NoNode THEN Fault ELSE t[q].path
    BY DEF NextPath
  <2> HIDE DEF q
  <2>. QED
    BY <2>1, <2>2, <2>3
<1>7. target' = target
  BY DEF Picked, history
<1>8. Exact' <=> Exact
  BY <1>3, <1>7 DEF Exact
<1>9. ShareInv'
  BY <1>4, <1>7, <1>8 DEF UnitInv, ShareInv
<1> HIDE DEF t, u, q
<1>10. CASE DOMAIN t = {}
  <2>1. result' \notin Path
    <3>1. Selected(t) = NoNode
      BY <1>10 DEF Selected
    <3>. QED
      BY <3>1, SchTreeAssumption DEF NextPath, t
  <2>2. UNCHANGED <<target, drawn, served, gap>>
    BY <2>1 DEF history
  <2>3. ASSUME Exact'
        PROVE  \E left : /\ InTime(u, left, drawn')
                         /\ \A p \in Path : LeftOver(u, left, p) = target'[p] - served'[p]
    <3>1. PICK left : /\ InTime(t, left, drawn)
                      /\ \A p \in Path : LeftOver(t, left, p) = target[p] - served[p]
      BY <1>8, <2>3 DEF UnitInv, CreditInv, t
    <3>2. InTime(u, left, drawn')
      BY <1>3, <1>10, <3>1 DEF InTime
    <3>. QED
      BY <1>5, <2>2, <3>1, <3>2
  <2>4. CreditInv'
    BY <1>3, <1>10, <2>3 DEF CreditInv, t, u
  <2>. QED
    BY <1>7, <1>8, <1>9, <1>10, <2>2, <2>4 DEF UnitInv, t
<1>11. CASE DOMAIN t # {}
  <2> DEFINE p == result'
             less == [Credit EXCEPT ![p] = @ - 1]
  <2>1. p \in Path /\ p = t[q].path /\ q \in DOMAIN t /\ Picked(p)
    BY <1>6, <1>11
  <2>2. /\ drawn' = (drawn + 1) % MaxValue
        /\ served' = IF drawn' = 0 THEN NoOne ELSE [served EXCEPT ![p] = @ + 1]
    BY <2>1 DEF Picked
  <2>3. (drawn' = 0 /\ drawn + 1 = MaxValue) \/ (drawn' # 0 /\ drawn' = drawn + 1)
    <3>1. CASE drawn + 1 = MaxValue
      BY <1>1, <2>2, <3>1
    <3>2. CASE drawn + 1 < MaxValue
      BY <1>1, <2>2, <3>2
    <3>. QED
      BY <1>1, <3>1, <3>2
  <2>4. SumFunction(target) = MaxValue
    BY <1>11 DEF UnitInv, CreditInv, t
  <2> HIDE DEF p
  <2>5. CASE ~ Exact
    <3>1. CreditInv'
      BY <1>7, <1>8, <2>4, <2>5 DEF CreditInv
    <3>. QED
      BY <1>7, <1>8, <1>9, <1>11, <2>5, <3>1 DEF UnitInv, t
  <2>6. CASE Exact
    <3>1. PICK left : /\ InTime(t, left, drawn)
                      /\ \A x \in Path : LeftOver(t, left, x) = target[x] - served[x]
      BY <2>6 DEF UnitInv, CreditInv, t
    <3>2. SumFunction(Credit) = MaxValue - drawn
      BY <1>11, <2>6 DEF UnitInv, CreditInv, t
    <3> DEFINE after == OneOff(left, q)
    <3>3. /\ left[q] >= 1
          /\ InTime(u, after, drawn + 1)
          /\ LeftOver(t, after, p) = LeftOver(t, left, p) - 1
          /\ \A x : x # p => LeftOver(t, after, x) = LeftOver(t, left, x)
      <4>1. q = Selected(t)
        BY DEF q
      <4>2. /\ left[q] >= 1
            /\ InTime(TurnedTree(t), OneOff(left, q), drawn + 1)
            /\ LeftOver(t, OneOff(left, q), t[q].path) = LeftOver(t, left, t[q].path) - 1
            /\ \A x : x # t[q].path =>
                 LeftOver(t, OneOff(left, q), x) = LeftOver(t, left, x)
        BY <1>1, <1>11, <3>1, <4>1, DrawTakesOne
      <4>. QED
        BY <1>2, <2>1, <4>2
    <3>4. /\ Credit \in [Path -> Nat] /\ Credit[p] >= 1
          /\ \A x \in Path : Credit[x] = target[x] - served[x] /\ Credit[x] = LeftOver(t, left, x)
      <4>1. left \in [Node -> Nat]
        BY <3>1 DEF InTime
      <4>2. \A x : /\ LeftOver(t, left, x) \in Nat
                   /\ \A k \in LeavesOf(t, x) : left[k] <= LeftOver(t, left, x)
        BY <1>1, <4>1, LeftOverIs
      <4>3. \A x \in Path : Credit[x] = target[x] - served[x] /\ Credit[x] = LeftOver(t, left, x)
        BY <3>1 DEF Credit
      <4>4. Credit = [x \in Path |-> Credit[x]]
        BY DEF Credit
      <4>5. q \in LeavesOf(t, p)
        BY <2>1 DEF LeavesOf
      <4>6. left[q] <= LeftOver(t, left, p) /\ left[q] \in Nat
        <5>1. q \in Node
          BY <1>1, <2>1, TreeIs
        <5>. QED
          BY <4>1, <4>2, <4>5, <5>1
      <4>. QED
        BY <2>1, <3>3, <4>2, <4>3, <4>4, <4>6
    <3>5. /\ less \in [Path -> Nat] /\ less[p] = Credit[p] - 1
          /\ \A x \in Path : x # p => less[x] = Credit[x]
      BY <2>1, <3>4
    <3> HIDE DEF less, after
    <3>6. SumFunction(less) = MaxValue - (drawn + 1)
      <4>1. SumFunction(less) + Credit[p] = SumFunction(Credit) + less[p]
        BY <2>1, <3>4, <3>5, SumOfChange, SchTreeSpecAssumption
      <4>2. SumFunction(less) \in Nat /\ Credit[p] \in Nat
        BY <2>1, <3>4, <3>5, SumWithout, SchTreeSpecAssumption
      <4>. QED
        BY <1>1, <3>2, <3>4, <3>5, <4>1, <4>2
    <3>7. less = NoOne <=> drawn + 1 = MaxValue
      <4>1. ASSUME less = NoOne PROVE drawn + 1 = MaxValue
        <5>1. SumFunction(less) = 0
          <6>1. \A x \in Path : less[x] = 0
            BY <4>1 DEF NoOne
          <6>. QED
            BY <3>5, <6>1, SumOfZeros, SchTreeSpecAssumption
        <5>. QED
          BY <1>1, <3>6, <5>1
      <4>2. ASSUME drawn + 1 = MaxValue PROVE less = NoOne
        <5>1. SumFunction(less) = 0
          BY <1>1, <3>6, <4>2
        <5>2. \A x \in Path : less[x] <= SumFunction(less) /\ less[x] \in Nat
          BY <3>5, SumAtLeast, SchTreeSpecAssumption
        <5>3. \A x \in Path : less[x] = 0
          BY <5>1, <5>2
        <5>. QED
          BY <3>5, <5>3 DEF NoOne
      <4>. QED
        BY <4>1, <4>2
    <3>8. CASE drawn' = 0
      <4>1. \A x \in Path : target'[x] - served'[x] = target[x] /\ target[x] \in Nat
        BY <1>1, <1>7, <2>2, <3>8 DEF NoOne
      <4>2. Credit' = target
        BY <1>1, <4>1 DEF Credit
      <4>3. Halves(u) = {} /\ \A x \in Path : UnitsIn(u, x) = 2 * target[x]
        BY <1>4, <2>6 DEF UnitInv, ShareInv, t
      <4>4. InTime(u, LevelValue, 0) /\ \A x : UnitsIn(u, x) = 2 * LeftOver(u, LevelValue, x)
        BY <1>1, <4>3, RoundStarts
      <4>5. \A x \in Path : LeftOver(u, LevelValue, x) = target'[x] - served'[x]
        <5>1. \A x : LeftOver(u, LevelValue, x) \in Nat
          BY <1>1, LevelValueIs, LeftOverIs
        <5>. QED
          BY <4>1, <4>3, <4>4, <5>1
      <4>6. SumFunction(Credit') = MaxValue - drawn'
        BY <1>1, <2>4, <3>8, <4>2
      <4>7. CreditInv'
        BY <1>7, <2>4, <3>8, <4>4, <4>5, <4>6 DEF CreditInv, u
      <4>8. less = NoOne
        BY <2>3, <3>7, <3>8
      <4>9. PickMaps
        BY <2>1, <3>4, <4>2, <4>8 DEF PickMaps, less, p
      <4>. QED
        BY <1>7, <1>8, <1>9, <1>11, <4>7, <4>9 DEF UnitInv, t
    <3>9. CASE drawn' # 0
      <4>1. drawn' = drawn + 1 /\ served' = [served EXCEPT ![p] = @ + 1]
        BY <2>2, <2>3, <3>9
      <4>2. \A x \in Path : target'[x] - served'[x] = less[x]
        BY <1>1, <1>7, <2>1, <3>4, <3>5, <4>1
      <4>3. Credit' = less
        BY <3>5, <4>2 DEF Credit
      <4>4. \A x \in Path : LeftOver(u, after, x) = target'[x] - served'[x]
        BY <1>5, <2>1, <3>3, <3>4, <3>5, <4>2
      <4>5. SumFunction(Credit') = MaxValue - drawn'
        BY <3>6, <4>1, <4>3
      <4>6. CreditInv'
        <5>1. InTime(u, after, drawn')
          BY <3>3, <4>1
        <5>2. \E l : /\ InTime(u, l, drawn')
                     /\ \A x \in Path : LeftOver(u, l, x) = target'[x] - served'[x]
          BY <4>4, <5>1
        <5>3. SumFunction(target') = MaxValue
          BY <1>7, <2>4
        <5>. QED
          BY <4>5, <5>2, <5>3 DEF CreditInv, u
      <4>7. less # NoOne
        BY <1>1, <2>3, <3>7, <3>9
      <4>8. PickMaps
        BY <2>1, <3>4, <4>3, <4>7 DEF PickMaps, less, p
      <4>. QED
        BY <1>7, <1>8, <1>9, <1>11, <4>6, <4>8 DEF UnitInv, t
    <3>. QED
      BY <3>8, <3>9
  <2>. QED
    BY <2>5, <2>6
<1>. QED
  BY <1>10, <1>11

LEMMA UnitsStay ==
  ASSUME UnitInv, sch'.root = sch.root, UNCHANGED <<target, drawn, served>>
  PROVE  UnitInv' /\ (Exact' <=> Exact)
<1>1. Exact' <=> Exact
  BY DEF Exact
<1>2. ShareInv'
  BY <1>1 DEF UnitInv, ShareInv
<1>3. Credit' = Credit
  BY DEF Credit
<1>4. CreditInv'
  BY <1>1, <1>3 DEF UnitInv, CreditInv
<1>. QED
  BY <1>1, <1>2, <1>4 DEF UnitInv

\* What a step does to the units: a path entered into the batch or asked for
\* again leaves them alone, a new tree deals them out, a draw takes one.
DrawStep ==
  /\ sch' = GetNext(sch) /\ result' = NextPath(sch)
  /\ IF result' \in Path THEN Picked(result') ELSE UNCHANGED history
QuietStep == sch'.root = sch.root /\ UNCHANGED <<target, drawn, served>>

LEMMA StepKinds ==
  ASSUME IInv, [Next]_vars
  PROVE  QuietStep \/ SchTreeCreateAndReplace \/ DrawStep
<1>1. ASSUME NEW p \in Path, NEW v \in Values, SchTreeSetPath(p, v) PROVE QuietStep
  <2>1. sch'.root = sch.root
    BY <1>1 DEF SchTreeSetPath, SetPath, IInv, TreeInv
  <2>. QED
    BY <1>1, <2>1 DEF SchTreeSetPath, history, QuietStep
<1>2. CASE SchTreeGetNext
  BY <1>2 DEF SchTreeGetNext, DrawStep
<1>3. CASE SchTreeGetActual
  <2>1. CASE sch.actual = NoNode
    <3>1. GetActual(sch) = GetNext(sch)
      BY <2>1 DEF GetActual
    <3>2. ActualPaths(sch) = {NextPath(sch)}
      BY <2>1 DEF ActualPaths, NoNode, Dangling
    <3>3. sch' = GetNext(sch) /\ result' = NextPath(sch)
      BY <1>3, <3>1, <3>2 DEF SchTreeGetActual
    <3>4. IF result' \in Path THEN Picked(result') ELSE UNCHANGED history
      BY <1>3, <2>1 DEF SchTreeGetActual
    <3>. QED
      BY <3>3, <3>4 DEF DrawStep
  <2>2. CASE sch.actual # NoNode
    BY <1>3, <2>2 DEF SchTreeGetActual, GetActual, history, QuietStep
  <2>. QED
    BY <2>1, <2>2
<1>4. CASE UNCHANGED vars
  BY <1>4 DEF vars, history, QuietStep
<1>. QED
  BY <1>1, <1>2, <1>3, <1>4 DEF Next

LEMMA UnitHolds == IInv /\ UnitInv /\ [Next]_vars => UnitInv'
<1>1. SUFFICES ASSUME IInv, UnitInv, [Next]_vars PROVE UnitInv'
  OBVIOUS
<1>2. IInv'
  BY <1>1, NextHolds
<1>3. CASE QuietStep
  BY <1>1, <1>3, UnitsStay DEF QuietStep
<1>4. CASE SchTreeCreateAndReplace
  BY <1>1, <1>2, <1>4, ReplaceDeals
<1>5. CASE DrawStep
  BY <1>1, <1>2, <1>5, DrawDeals DEF DrawStep
<1>. QED
  BY <1>1, <1>3, <1>4, <1>5, StepKinds

LEMMA UnitInvHolds == Spec => []UnitInv
<1>. QED
  BY InitDeals, UnitHolds, IInvHolds, PTL DEF Spec
-----------------------------------------------------------------------------
(* The tree implements WeightedDispatch.                                   *)

Share == IF Exact THEN target ELSE NoOne
CreditLeft == IF Exact THEN Credit ELSE NoOne

\* The instance adds up as the library does.
LEMMA SameSum ==
  /\ Dispatch!Nobody = NoOne
  /\ \A f : Dispatch!SumFunction(f) = SumFunction(f)
<1>1. ASSUME NEW f PROVE Dispatch!SumFunction(f) = Sums(f)[DOMAIN f]
  BY DEF Dispatch!SumFunction, Dispatch!SumFunctionOnSet, Dispatch!FoldFunctionOnSet,
         Dispatch!MapThenFoldSet, Sums
<1>. QED
  BY <1>1, SumsSum DEF Dispatch!Nobody, NoOne

LEMMA InitMaps == ASSUME Init PROVE Dispatch!Init
<1>1. target = NoOne /\ served = NoOne
  BY DEF Init
<1>2. \A p \in Path : target[p] - served[p] = 0
  BY <1>1 DEF NoOne
<1>3. [p \in Path |-> target[p] - served[p]] = NoOne
  BY <1>2 DEF NoOne
<1>. QED
  BY <1>1, <1>3, SameSum DEF Dispatch!Init

LEMMA StepMaps ==
  ASSUME IInv, IInv', UnitInv, [Next]_vars
  PROVE  Dispatch!Next \/ (Share' = Share /\ CreditLeft' = CreditLeft)
<1>1. CASE QuietStep
  BY <1>1, UnitsStay DEF QuietStep, Share, CreditLeft, Credit, NoOne
<1>2. CASE SchTreeCreateAndReplace
  <2>1. served' = NoOne /\ (target' = NoOne \/ SumFunction(target') = MaxValue)
    BY <1>2, ReplaceDeals
  <2>2. target' \in [Path -> 0 .. MaxValue] /\ MaxValue \in Nat /\ NoOne \in [Path -> 0 .. MaxValue]
    BY SchTreeAssumption DEF IInv, HistoryInv, NoOne
  <2>3. Credit' = target'
    <3>1. \A p \in Path : target'[p] - served'[p] = target'[p]
      BY <2>1, <2>2 DEF NoOne
    <3>. QED
      BY <2>2, <3>1 DEF Credit
  <2>4. CreditLeft' = Share' /\ Share' \in [Path -> 0 .. MaxValue]
        /\ (Share' = NoOne \/ SumFunction(Share') = MaxValue)
    BY <2>1, <2>2, <2>3 DEF CreditLeft, Share, NoOne
  <2>5. PICK shares \in [Path -> 0 .. MaxValue] : shares = Share'
    BY <2>4
  <2>6. Dispatch!Replace(shares)
    BY <2>4, <2>5, SameSum DEF Dispatch!Replace, Share, CreditLeft, Credit
  <2>. QED
    BY <2>5, <2>6 DEF Dispatch!Next
<1>3. CASE DrawStep
  <2>1. /\ target' = target /\ (Exact' <=> Exact)
        /\ DOMAIN sch.root = {} => served' = served
        /\ Exact /\ DOMAIN sch.root # {} => PickMaps
    BY <1>3, DrawDeals DEF DrawStep
  <2>2. CASE ~ Exact \/ DOMAIN sch.root = {}
    BY <2>1, <2>2 DEF Share, CreditLeft, Credit, NoOne
  <2>3. CASE Exact /\ DOMAIN sch.root # {}
    <3>1. Share = target /\ Share' = target /\ CreditLeft = Credit /\ CreditLeft' = Credit'
      BY <2>1, <2>3 DEF Share, CreditLeft
    <3>2. PickMaps
      BY <2>1, <2>3
    <3>3. PICK p \in Path : p = result'
      BY <3>2 DEF PickMaps
    <3>4. Dispatch!Pick(p)
      BY <3>1, <3>2, <3>3, SameSum DEF PickMaps, Dispatch!Pick, Share, CreditLeft, Credit
    <3>. QED
      BY <3>3, <3>4 DEF Dispatch!Next
  <2>. QED
    BY <2>2, <2>3
<1>. QED
  BY <1>1, <1>2, <1>3, StepKinds
-----------------------------------------------------------------------------
(* The theorems.                                                           *)

\* Every tree that is ever drawn from is complete: its nodes hang on the root
\* and every leaf has a path.  actual is NULL, stale or such a leaf, and the
\* open batch fits the tree (struct _SchTree, schtree_insert).
THEOREM TreeTyped == Spec => []TypeOK
<1>1. IInv => TypeOK
  <2>1. SUFFICES ASSUME IInv PROVE TypeOK
    OBVIOUS
  <2>2. sch.root \in Trees /\ Shaped(sch.root)
    BY <2>1 DEF IInv, TreeInv
  <2>3. DOMAIN sch.root \subseteq Node /\ \A k \in DOMAIN sch.root : sch.root[k] \in NodeRecords
    BY <2>2, TreeIs
  <2>4. \A k \in DOMAIN sch.root : /\ sch.root[k].path \in Path \cup {NoPath}
                                   /\ sch.root[k].next \in {NoNode, 2 * k, 2 * k + 1}
    BY <2>2, <2>3 DEF Shaped, NodeRecords
  <2>5. WellFormed(sch.root) /\ (sch.actual \in {NoNode, Dangling} \/ Owned(sch.root, sch.actual))
    BY <2>1 DEF IInv, TreeInv, Shaped, Full, Parent, WellFormed
  <2>6. sch.paths \in Seq(Path) /\ sch.path_values \in Seq(0 .. MaxValue)
    BY <2>1 DEF IInv, TreeInv
  <2>. QED
    BY <2>1, <2>3, <2>4, <2>5, <2>6 DEF IInv, BatchInv, HistoryInv, TypeOK
<1>. QED
  BY <1>1, IInvHolds, PTL

LEMMA LessTimes ==
  ASSUME NEW g \in Nat, NEW w \in Nat, NEW l \in Nat, g < w
  PROVE  /\ l = 0 => g * l = 0
         /\ l >= 1 => g * l < w * l
<1>1. l = 0 => g * l = 0
  OBVIOUS
<1>2. PICK d \in Nat : w = g + d /\ d >= 1
  <2>1. w - g \in Nat /\ w = g + (w - g) /\ w - g >= 1
    OBVIOUS
  <2>. QED
    BY <2>1
<1>3. w * l = g * l + d * l /\ g * l \in Nat
  BY <1>2
<1>4. l >= 1 => d * l >= 1
  BY <1>2, Products
<1>. QED
  BY <1>1, <1>3, <1>4

\* schtree_get_next interleaves the paths: whatever the batch was and wherever
\* the last tree was left, the leaves that are worth v units of max_value are
\* each come by once in max_value / v picks, never later.
THEOREM PicksSpreadEvenly == Spec => []EvenSpread
<1>1. IInv => EvenSpread
  <2>1. SUFFICES ASSUME IInv, NEW k \in DOMAIN sch.root, sch.root[k].path # NoPath
                 PROVE  gap[sch.root[k].path] * LevelValue[k] < MaxValue
    BY DEF EvenSpread
  <2> DEFINE g == gap[sch.root[k].path]
             l == LevelValue[k]
             w == Weight[k]
  <2>2. Owned(sch.root, k)
    BY <2>1 DEF Owned
  <2>3. k \in Node /\ sch.root[k].path \in Path
    BY <2>1, <2>2, OwnedIs DEF IInv, TreeInv
  <2>4. g \in Nat
    BY <2>1, <2>3, SchTreeAssumption DEF IInv, HistoryInv
  <2>5. l \in Nat /\ w \in Nat /\ (l >= 1 => w * l = MaxValue)
    BY <2>3, LevelsHalve, WeightIs
  <2>6. g < w
    <3>1. Wait(sch.root)[k] \in Nat
      BY <2>3, WaitIs
    <3>2. g + Wait(sch.root)[k] < w
      BY <2>1, <2>2 DEF IInv, SpreadInv
    <3> HIDE DEF g, w
    <3>. QED
      BY <2>4, <2>5, <3>1, <3>2
  <2> HIDE DEF g, l, w
  <2>7. CASE l = 0
    <3>1. g * l = 0
      BY <2>4, <2>7, LessTimes
    <3>2. g * l < MaxValue
      BY <3>1, SchTreeAssumption
    <3>. QED
      BY <3>2 DEF g, l
  <2>8. CASE l >= 1
    <3>1. g * l < w * l
      BY <2>4, <2>5, <2>6, <2>8, LessTimes
    <3>2. g * l < MaxValue
      BY <2>5, <2>8, <3>1
    <3>. QED
      BY <3>2 DEF g, l
  <2>. QED
    BY <2>5, <2>7, <2>8
<1>. QED
  BY <1>1, IInvHolds, PTL

\* A walk down a tree that was built never runs out of nodes and ends at a
\* subflow: get_next reads through NULL only before the first batch with a
\* subflow, and get_actual through a stale pointer only after a replacement.
THEOREM FaultsOnlyWhenEmptyOrStale == Spec => FaultOnlyWhenEmptyOrStale
<1> DEFINE Allowed == (result' \in {Fault, NoPath} /\ result' # result) =>
                        DOMAIN sch.root = {} \/ sch.actual = Dangling
<1>1. ASSUME IInv, [Next]_vars PROVE [Allowed]_vars
  <2>1. CASE \E p \in Path, v \in Values : SchTreeSetPath(p, v)
    BY <2>1 DEF SchTreeSetPath
  <2>2. CASE SchTreeCreateAndReplace
    BY <2>2 DEF SchTreeCreateAndReplace
  <2>3. CASE SchTreeGetNext
    BY <1>1, <2>3, GetNextHolds
  <2>4. CASE SchTreeGetActual
    BY <1>1, <2>4, GetActualHolds
  <2>5. CASE UNCHANGED vars
    BY <2>5
  <2>. QED
    BY <1>1, <2>1, <2>2, <2>3, <2>4, <2>5 DEF Next
<1>. QED
  BY <1>1, IInvHolds, PTL DEF Spec, FaultOnlyWhenEmptyOrStale

\* Whatever values a batch came with, the leaves of a path are worth its value,
\* at most one unit less and at most half a unit more (schtree_insert,
\* create_and_replace).
THEOREM SharesAreWithinOneUnit == Spec => []SharesWithinOneUnit
<1>1. UnitInv => SharesWithinOneUnit
  <2>1. SUFFICES ASSUME UnitInv, NEW p \in Path PROVE HalfUnits(p) - 2 * target[p] \in -2 .. 1
    BY DEF SharesWithinOneUnit
  <2>2. HalfUnits(p) = UnitsIn(sch.root, p)
    BY DEF HalfUnits, UnitsIn, LeavesOf, HalfValue
  <2>. QED
    BY <2>1, <2>2 DEF UnitInv, ShareInv
<1>. QED
  BY <1>1, UnitInvHolds, PTL

\* Round after round the tree hands out exactly the values it was given: it
\* does what WeightedDispatch promises (schtree_get_next, create_and_replace).
THEOREM TreeImplementsDispatch == Spec => ImplementsWeightedDispatch
<1>1. IInv /\ IInv' /\ UnitInv /\ [Next]_vars
        => [Dispatch!Next]_<<IF Exact THEN target ELSE NoOne,
                             IF Exact THEN [p \in Path |-> target[p] - served[p]] ELSE NoOne>>
  BY StepMaps DEF Share, CreditLeft, Credit
<1>. QED
  BY InitMaps, <1>1, IInvHolds, UnitInvHolds, PTL DEF Spec, ImplementsWeightedDispatch, Dispatch!Spec

-----------------------------------------------------------------------------
(* The batch of a scheduler run.                                           *)

\* What is known of a quotient that was rounded down.
LEMMA Quotient ==
  ASSUME NEW a \in Nat, NEW b \in Nat, b # 0
  PROVE  a \div b \in Nat /\ b * (a \div b) <= a /\ a + 1 <= b * (a \div b) + b
OBVIOUS

\* What set_path makes of the tree until create_and_replace.
Batches == [root : {schtree.root}, actual : {schtree.actual}, paths : Seq(Path), path_values : Seq(Nat)]

\* The list is gone through subflow by subflow.
Gathers(b, f) ==
  /\ b \in [0 .. Len(subflows) -> Batches] /\ b[0] = schtree
  /\ \A n \in 1 .. Len(subflows) :
       b[n] = IF Schedulable(f[subflows[n]])
              THEN SetPath(b[n - 1], subflows[n], RateValue(f, subflows[n])) ELSE b[n - 1]

\* set_path appends.
LEMMA SetPathIs ==
  ASSUME NEW s \in Batches, NEW p \in Path, NEW v \in Nat
  PROVE  /\ SetPath(s, p, v) \in Batches
         /\ SetPath(s, p, v).paths = Append(s.paths, p)
         /\ SetPath(s, p, v).path_values = Append(s.path_values, v)
<1>1. /\ s = [root |-> s.root, actual |-> s.actual, paths |-> s.paths, path_values |-> s.path_values]
      /\ s.root = schtree.root /\ s.actual = schtree.actual
      /\ s.paths \in Seq(Path) /\ s.path_values \in Seq(Nat)
  BY DEF Batches
<1>2. Append(s.paths, p) \in Seq(Path) /\ Append(s.path_values, v) \in Seq(Nat)
  BY <1>1
<1>3. SetPath(s, p, v) = [root |-> s.root, actual |-> s.actual,
                          paths |-> Append(s.paths, p), path_values |-> Append(s.path_values, v)]
  <2>1. PICK u : u = SetPath(s, p, v)
    OBVIOUS
  <2>2. u = [root |-> s.root, actual |-> s.actual,
             paths |-> Append(s.paths, p), path_values |-> Append(s.path_values, v)]
    BY <1>1, <2>1 DEF SetPath
  <2>. QED
    BY <2>1, <2>2
<1>. QED
  BY <1>1, <1>2, <1>3 DEF Batches

LEMMA AppendIs ==
  ASSUME NEW S, NEW q \in Seq(S), NEW x \in S, NEW r, r = Append(q, x)
  PROVE  /\ Len(r) = Len(q) + 1 /\ r[Len(q) + 1] = x
         /\ \A i \in 1 .. Len(q) : r[i] = q[i]
OBVIOUS

\* Batch is the last of them.
LEMMA BatchIs ==
  ASSUME subflows \in Seq(Path), schtree \in Batches,
         NEW f, \A p \in Path : RateValue(f, p) \in Nat
  PROVE  \E b : Gathers(b, f) /\ Batch(f) = b[Len(subflows)]
<1> DEFINE N == Len(subflows)
           D == 0 .. N
           rank == [n \in D |-> n]
           more(n, s) == IF Schedulable(f[subflows[n]])
                         THEN SetPath(s, subflows[n], RateValue(f, subflows[n])) ELSE s
           value(n, g) == IF n = 0 THEN schtree ELSE more(n, g[n - 1])
           G == [n \in D |-> [g \in [D -> Batches] |-> value(n, g)]]
           body(g) == [n \in D |-> value(n, g)]
           built == CHOOSE g : g = body(g)
<1>0. N \in Nat /\ \A n \in 1 .. N : subflows[n] \in Path
  OBVIOUS
<1>1. \A n \in D : \A g \in [D -> Batches] : G[n][g] = value(n, g)
  <2> HIDE DEF value
  <2>. QED
    OBVIOUS
<1>2. ASSUME NEW n \in 1 .. N, NEW s \in Batches PROVE more(n, s) \in Batches
  <2>1. subflows[n] \in Path /\ RateValue(f, subflows[n]) \in Nat
    BY <1>0
  <2>. QED
    BY <2>1, SetPathIs
<1>3. \A n \in D : n # 0 => n - 1 \in D /\ n \in 1 .. N /\ rank[n - 1] < rank[n]
  BY <1>0
<1> HIDE DEF more
<1>4. PICK g \in [D -> Batches] : \A n \in D : g[n] = G[n][g]
  <2>1. \A n \in D : \A h \in [D -> Batches] : G[n][h] \in Batches
    <3>1. ASSUME NEW n \in D, NEW h \in [D -> Batches] PROVE value(n, h) \in Batches
      BY <1>2, <1>3
    <3> HIDE DEF value, G
    <3>. QED
      BY <1>1, <3>1
  <2>2. \A n \in D : \A h, i \in [D -> Batches] :
          (\A m \in D : rank[m] < rank[n] => h[m] = i[m]) => G[n][h] = G[n][i]
    <3>1. ASSUME NEW n \in D, NEW h \in [D -> Batches], NEW i \in [D -> Batches],
                 \A m \in D : rank[m] < rank[n] => h[m] = i[m]
          PROVE  value(n, h) = value(n, i)
      <4> HIDE DEF rank
      <4>. QED
        BY <1>3, <3>1
    <3> HIDE DEF value, G, rank
    <3>. QED
      BY <1>1, <3>1
  <2>3. rank \in [D -> 0 .. N] /\ Batches # {}
    BY <1>0
  <2> HIDE DEF value, G, D, rank
  <2>. QED
    <3>1. LooksBelow(D, rank, Batches, G)
      BY <2>1, <2>2 DEF LooksBelow
    <3>2. Solvable(D, Batches, G)
      BY <1>0, <2>3, <3>1, RecursionHasSolution
    <3>. QED
      BY <3>2 DEF Solvable
<1>5. g = body(g)
  <2>1. g = [n \in D |-> g[n]]
    OBVIOUS
  <2> HIDE DEF value
  <2>. QED
    BY <1>1, <1>4, <2>1
<1>6. built = body(built)
  <2> HIDE DEF body
  <2>. QED
    BY <1>5
<1>7. \A n \in D : built[n] = value(n, built)
  <2> HIDE DEF built, value
  <2>. QED
    BY <1>6
<1>8. built \in [D -> Batches]
  <2> DEFINE S == {n \in D : built[n] \in Batches}
  <2>1. 0 \in S
    BY <1>0, <1>7
  <2>2. ASSUME NEW n \in 1 .. N, n - 1 \in S PROVE n \in S
    <3>1. n \in D /\ n # 0
      BY <1>0
    <3>2. built[n] = more(n, built[n - 1])
      BY <1>7, <3>1
    <3> HIDE DEF built
    <3>. QED
      BY <1>2, <2>2, <3>1, <3>2
  <2>3. \A n \in D : n \in S
    <3> HIDE DEF S
    <3>. QED
      BY <1>0, <2>1, <2>2, CountUp
  <2>4. built = [n \in D |-> built[n]]
    <3> HIDE DEF value
    <3>. QED
      BY <1>6
  <2> HIDE DEF built
  <2>. QED
    BY <2>3, <2>4
<1>9. Gathers(built, f)
  <2>1. built[0] = schtree
    BY <1>0, <1>7
  <2>2. \A n \in 1 .. N : built[n] = more(n, built[n - 1])
    <3>1. \A n \in 1 .. N : n \in D /\ n # 0
      BY <1>0
    <3> HIDE DEF built
    <3>. QED
      BY <1>7, <3>1
  <2> HIDE DEF built
  <2>. QED
    BY <1>8, <2>1, <2>2 DEF Gathers, more
<1>10. Batch(f) = built[N]
  BY DEF Batch, more
<1>. QED
  BY <1>9, <1>10

\* The batch lists the first n subflows as far as they are to be scheduled,
\* each with its value, the newest first.
Valued(s, f, n) ==
  \A i \in 1 .. Len(s.paths) :
    /\ s.path_values[i] = RateValue(f, s.paths[i])
    /\ \E m \in 1 .. n : s.paths[i] = subflows[m] /\ Schedulable(f[subflows[m]])
Complete(s, f, n) ==
  \A m \in 1 .. n :
    Schedulable(f[subflows[m]]) => \E i \in 1 .. Len(s.paths) : s.paths[i] = subflows[m]
NewestFirst(s, f, n) ==
  Len(s.paths) >= 1 => \E m \in 1 .. n : /\ s.paths[1] = subflows[m]
                                         /\ \A j \in 1 .. m - 1 : ~ Schedulable(f[subflows[j]])
IsBatch(s, f, n) ==
  /\ Len(s.path_values) = Len(s.paths) /\ Len(s.paths) <= n /\ Distinct(s.paths)
  /\ Valued(s, f, n) /\ Complete(s, f, n) /\ NewestFirst(s, f, n)

\* One more subflow of the list.
LEMMA BatchGrows ==
  ASSUME subflows \in Seq(Path), Distinct(subflows), NEW f, NEW n \in 1 .. Len(subflows),
         NEW s \in Batches, IsBatch(s, f, n - 1), RateValue(f, subflows[n]) \in Nat,
         NEW u, u = IF Schedulable(f[subflows[n]])
                    THEN SetPath(s, subflows[n], RateValue(f, subflows[n])) ELSE s
  PROVE  IsBatch(u, f, n)
<1> DEFINE p == subflows[n]
           v == RateValue(f, p)
           L == Len(s.paths)
<1>1. /\ n \in Nat /\ n - 1 \in Nat /\ p \in Path /\ v \in Nat /\ Len(subflows) \in Nat
      /\ s.paths \in Seq(Path) /\ s.path_values \in Seq(Nat) /\ L \in Nat
  BY DEF Batches
<1>2. /\ Len(s.path_values) = L /\ L <= n - 1 /\ Distinct(s.paths)
      /\ \A i \in 1 .. L : /\ s.path_values[i] = RateValue(f, s.paths[i])
                           /\ \E m \in 1 .. n - 1 : s.paths[i] = subflows[m] /\ Schedulable(f[subflows[m]])
      /\ \A m \in 1 .. n - 1 : Schedulable(f[subflows[m]]) => \E i \in 1 .. L : s.paths[i] = subflows[m]
      /\ L >= 1 => \E m \in 1 .. n - 1 : /\ s.paths[1] = subflows[m]
                                         /\ \A j \in 1 .. m - 1 : ~ Schedulable(f[subflows[j]])
  BY DEF IsBatch, Valued, Complete, NewestFirst
<1>3. \A m \in 1 .. n : m = n \/ m \in 1 .. n - 1
  BY <1>1
<1>4. \A m \in 1 .. n - 1 : m \in 1 .. n /\ subflows[m] # p
  <2>1. \A m \in 1 .. n - 1 : m \in 1 .. n /\ m \in 1 .. Len(subflows) /\ m # n
    BY <1>1
  <2>. QED
    BY <2>1 DEF Distinct
<1> HIDE DEF v
<1>5. CASE Schedulable(f[p])
  <2>1. u.paths = Append(s.paths, p) /\ u.path_values = Append(s.path_values, v)
    BY <1>1, <1>5, SetPathIs DEF v
  <2> HIDE DEF p
  <2>2. /\ Len(u.paths) = L + 1 /\ Len(u.path_values) = L + 1
        /\ \A i \in 1 .. L : u.paths[i] = s.paths[i] /\ u.path_values[i] = s.path_values[i]
        /\ u.paths[L + 1] = p /\ u.path_values[L + 1] = v
    <3>1. /\ Len(u.paths) = L + 1 /\ u.paths[L + 1] = p
          /\ \A i \in 1 .. L : u.paths[i] = s.paths[i]
      <4>1. PICK r : r = Append(s.paths, p)
        OBVIOUS
      <4>2. Len(r) = L + 1 /\ r[L + 1] = p /\ \A i \in 1 .. L : r[i] = s.paths[i]
        BY <1>1, <4>1, AppendIs DEF p
      <4>. QED
        BY <2>1, <4>1, <4>2
    <3>2. /\ Len(u.path_values) = L + 1 /\ u.path_values[L + 1] = v
          /\ \A i \in 1 .. L : u.path_values[i] = s.path_values[i]
      <4>1. PICK r : r = Append(s.path_values, v)
        OBVIOUS
      <4>2. Len(s.path_values) = L
        BY <1>2
      <4>3. Len(r) = L + 1 /\ r[L + 1] = v /\ \A i \in 1 .. L : r[i] = s.path_values[i]
        BY <1>1, <4>1, <4>2, AppendIs
      <4>. QED
        BY <2>1, <4>1, <4>3
    <3>. QED
      BY <3>1, <3>2
  <2>3. \A i \in 1 .. L + 1 : i = L + 1 \/ i \in 1 .. L
    BY <1>1
  <2>4. \A i \in 1 .. L : i \in 1 .. L + 1 /\ i # L + 1
    BY <1>1
  <2>5. \A i \in 1 .. L : s.paths[i] # p
    <3>1. \A i \in 1 .. L : \E m \in 1 .. n - 1 : s.paths[i] = subflows[m]
      BY <1>2
    <3>. QED
      BY <1>4, <3>1
  <2>6. Distinct(u.paths)
    <3>1. ASSUME NEW i \in 1 .. L + 1, NEW j \in 1 .. L + 1, u.paths[i] = u.paths[j] PROVE i = j
      <4>1. Distinct(s.paths)
        BY <1>2
      <4>2. CASE i \in 1 .. L /\ j \in 1 .. L
        BY <2>2, <3>1, <4>1, <4>2 DEF Distinct
      <4>3. CASE i = L + 1 \/ j = L + 1
        BY <2>2, <2>3, <2>5, <3>1, <4>3
      <4>. QED
        BY <2>3, <4>2, <4>3
    <3>. QED
      BY <2>2, <3>1 DEF Distinct
  <2>7. ASSUME NEW i \in 1 .. L + 1
        PROVE  /\ u.path_values[i] = RateValue(f, u.paths[i])
               /\ \E m \in 1 .. n : u.paths[i] = subflows[m] /\ Schedulable(f[subflows[m]])
    <3>1. CASE i = L + 1
      <4>1. n \in 1 .. n /\ p = subflows[n]
        BY <1>1 DEF p
      <4>. QED
        BY <1>5, <2>2, <3>1, <4>1 DEF v
    <3>2. CASE i \in 1 .. L
      BY <1>2, <1>4, <2>2, <3>2
    <3>. QED
      BY <2>3, <3>1, <3>2
  <2>8. ASSUME NEW m \in 1 .. n, Schedulable(f[subflows[m]])
        PROVE  \E i \in 1 .. L + 1 : u.paths[i] = subflows[m]
    <3>1. CASE m = n
      <4>1. L + 1 \in 1 .. L + 1 /\ p = subflows[n]
        BY <1>1 DEF p
      <4>. QED
        BY <2>2, <3>1, <4>1
    <3>2. CASE m \in 1 .. n - 1
      BY <1>2, <2>2, <2>4, <2>8, <3>2
    <3>. QED
      BY <1>3, <3>1, <3>2
  <2>9. \E m \in 1 .. n : u.paths[1] = subflows[m] /\ \A j \in 1 .. m - 1 : ~ Schedulable(f[subflows[j]])
    <3>1. CASE L = 0
      <4>1. \A j \in 1 .. n - 1 : ~ Schedulable(f[subflows[j]])
        BY <1>2, <3>1
      <4>2. n \in 1 .. n /\ u.paths[1] = subflows[n]
        BY <1>1, <2>2, <3>1 DEF p
      <4>. QED
        BY <4>1, <4>2
    <3>2. CASE L >= 1
      <4>1. 1 \in 1 .. L
        BY <1>1, <3>2
      <4>. QED
        BY <1>2, <1>4, <2>2, <3>2, <4>1
    <3>. QED
      BY <1>1, <3>1, <3>2
  <2>10. L + 1 <= n
    BY <1>1, <1>2
  <2>. QED
    <3>1. Len(u.paths) = L + 1 /\ Len(u.path_values) = L + 1
      BY <2>2
    <3>2. Valued(u, f, n)
      BY <2>7, <3>1 DEF Valued
    <3>3. Complete(u, f, n)
      BY <2>8, <3>1 DEF Complete
    <3>4. NewestFirst(u, f, n)
      BY <2>9 DEF NewestFirst
    <3>. QED
      BY <2>6, <2>10, <3>1, <3>2, <3>3, <3>4 DEF IsBatch
<1>6. CASE ~ Schedulable(f[p])
  <2>1. u = s
    BY <1>6
  <2>2. \A m \in 1 .. n : Schedulable(f[subflows[m]]) => \E i \in 1 .. L : s.paths[i] = subflows[m]
    BY <1>2, <1>3, <1>6
  <2>3. \A i \in 1 .. L : /\ s.path_values[i] = RateValue(f, s.paths[i])
                          /\ \E m \in 1 .. n : s.paths[i] = subflows[m] /\ Schedulable(f[subflows[m]])
    BY <1>2, <1>4
  <2>4. L >= 1 => \E m \in 1 .. n : /\ s.paths[1] = subflows[m]
                                    /\ \A j \in 1 .. m - 1 : ~ Schedulable(f[subflows[j]])
    BY <1>2, <1>4
  <2>5. L <= n
    BY <1>1, <1>2
  <2>. QED
    <3>1. Len(s.path_values) = L /\ Distinct(s.paths)
      BY <1>2
    <3>2. Valued(s, f, n)
      BY <2>3 DEF Valued
    <3>3. Complete(s, f, n)
      BY <2>2 DEF Complete
    <3>4. NewestFirst(s, f, n)
      BY <2>4 DEF NewestFirst
    <3>. QED
      BY <2>1, <2>5, <3>1, <3>2, <3>3, <3>4 DEF IsBatch
<1>. QED
  BY <1>5, <1>6

-----------------------------------------------------------------------------
(* Rates and values.                                                       *)

LEMMA Cancels ==
  ASSUME NEW s \in Nat, s # 0, NEW a \in Nat, NEW b \in Nat
  PROVE  /\ s * a <= s * b => a <= b
         /\ s * a < s * b => a < b
<1>1. ASSUME b < a PROVE s * b < s * a
  <2>1. PICK d \in Nat : a = b + d /\ d >= 1
    <3>1. a - b \in Nat /\ a = b + (a - b) /\ a - b >= 1
      BY <1>1
    <3>. QED
      BY <3>1
  <2>2. s * a = s * b + s * d /\ s * b \in Nat /\ s * d \in Nat
    BY <2>1
  <2>3. s * d >= 1
    BY <2>1, Products
  <2>. QED
    BY <2>2, <2>3
<1>2. s * a \in Nat /\ s * b \in Nat
  OBVIOUS
<1>3. CASE b < a
  BY <1>1, <1>2, <1>3
<1>4. CASE a = b
  BY <1>2, <1>4
<1>5. CASE a < b
  BY <1>5
<1>. QED
  BY <1>3, <1>4, <1>5

LEMMA SumOfSequence ==
  ASSUME NEW v \in Seq(Nat)
  PROVE  SumFunction(v) = Total(v)
<1>1. DOMAIN v = 1 .. Len(v) /\ v \in [1 .. Len(v) -> Nat] /\ Len(v) \in Nat
  OBVIOUS
<1>2. Lists(v, v)
  BY <1>1 DEF Lists
<1>. QED
  BY <1>2, SumInOrder

\* Rates are positive with those that are to be scheduled, and with no other.
Rated(f) ==
  \A p \in Path : f[p].SR \in Nat /\ (Schedulable(f[p]) <=> f[p].SR # 0)

Rates(f) == [i \in 1 .. Len(subflows) |-> f[subflows[i]].SR]

LEMMA UnitIs ==
  ASSUME NEW p \in Path
  PROVE  RateUnit \in Nat /\ RateUnit > 0 /\ Cardinality(Path) \in Nat /\ Cardinality(Path) >= 1
<1>1. Cardinality(Path) \in Nat /\ Cardinality(Path) # 0
  BY DispatchAssumption, FS_CardinalityType, FS_EmptySet
<1>2. 1 \in 1 .. Cardinality(Path)
  BY <1>1
<1>. QED
  BY <1>1, <1>2, DispatchAssumption

LEMMA RateSumIs ==
  ASSUME subflows \in Seq(Path), NEW f, Rated(f)
  PROVE  /\ Rates(f) \in Seq(Nat) /\ Len(Rates(f)) = Len(subflows)
         /\ \A i \in 1 .. Len(subflows) : Rates(f)[i] = f[subflows[i]].SR
         /\ \A i \in 1 .. Len(subflows) : Rates(f)[i] <= Total(Rates(f))
         /\ Total(Rates(f)) \in Nat
         /\ RateSum(f) = IF Total(Rates(f)) = 0 THEN RateUnit ELSE Total(Rates(f))
<1>1. \A i \in 1 .. Len(subflows) : subflows[i] \in Path /\ f[subflows[i]].SR \in Nat
  BY DEF Rated
<1>2. /\ Rates(f) \in Seq(Nat) /\ Len(Rates(f)) = Len(subflows)
      /\ \A i \in 1 .. Len(subflows) : Rates(f)[i] = f[subflows[i]].SR
  BY <1>1 DEF Rates
<1>3. SumFunction(Rates(f)) = Total(Rates(f)) /\ Total(Rates(f)) \in Nat
  BY <1>2, SumOfSequence, TotalIsNat
<1>4. RateSum(f) = IF Total(Rates(f)) = 0 THEN RateUnit ELSE Total(Rates(f))
  BY <1>3 DEF RateSum, Rates
<1>5. ASSUME NEW i \in 1 .. Len(subflows) PROVE Rates(f)[i] <= Total(Rates(f))
  <2> DEFINE v == Rates(f)
             X == 1 .. Len(subflows)
  <2>1. v \in [X -> Nat] /\ IsFiniteSet(X) /\ i \in X
    <3>1. Len(subflows) \in Int
      OBVIOUS
    <3>2. IsFiniteSet(X)
      BY <3>1, FS_Interval
    <3>. QED
      BY <1>2, <3>2
  <2> HIDE DEF v, X
  <2>2. v[i] <= SumFunction(v)
    BY <2>1, SumAtLeast
  <2>. QED
    BY <1>3, <2>2 DEF v
<1>. QED
  BY <1>2, <1>3, <1>4, <1>5

LEMMA ValuesAre ==
  ASSUME subflows \in Seq(Path), NEW f, Rated(f), NEW p \in Path
  PROVE  /\ RateSum(f) \in Nat /\ RateSum(f) > 0
         /\ RateValue(f, p) \in Nat /\ MaxValue * f[p].SR \in Nat
         /\ RateSum(f) * RateValue(f, p) <= MaxValue * f[p].SR
         /\ MaxValue * f[p].SR + 1 <= RateSum(f) * RateValue(f, p) + RateSum(f)
<1>1. RateSum(f) \in Nat /\ RateSum(f) > 0
  BY RateSumIs, UnitIs
<1>2. MaxValue * f[p].SR \in Nat
  <2>1. MaxValue \in Nat /\ f[p].SR \in Nat
    BY SchTreeAssumption DEF Rated
  <2>. QED
    BY <2>1
<1> DEFINE a == MaxValue * f[p].SR
           s == RateSum(f)
<1>3. RateValue(f, p) = a \div s
  BY DEF RateValue
<1>4. a \in Nat /\ s \in Nat /\ s # 0
  BY <1>1, <1>2
<1> HIDE DEF a, s
<1>5. a \div s \in Nat /\ s * (a \div s) <= a /\ a + 1 <= s * (a \div s) + s
  BY <1>4, Quotient
<1>. QED
  BY <1>1, <1>2, <1>3, <1>5 DEF a, s

\* The values given so far are the rates so far, rounded down.
Rounded(s, f, r) ==
  LET T == Total(s.path_values)
  IN  /\ RateSum(f) * T <= MaxValue * r
      /\ MaxValue * r + Len(s.paths) <= RateSum(f) * T + RateSum(f) * Len(s.paths)

\* One more subflow is one more rounding.
LEMMA RoundingGrows ==
  ASSUME subflows \in Seq(Path), NEW f, Rated(f), NEW p \in Path,
         NEW s \in Batches, Len(s.path_values) = Len(s.paths), NEW r \in Nat, Rounded(s, f, r),
         NEW u, u = IF Schedulable(f[p]) THEN SetPath(s, p, RateValue(f, p)) ELSE s
  PROVE  Rounded(u, f, r + f[p].SR)
<1> DEFINE S == RateSum(f)
           M == MaxValue
           v == RateValue(f, p)
           x == f[p].SR
           T == Total(s.path_values)
           L == Len(s.paths)
<1>1. /\ S \in Nat /\ v \in Nat /\ x \in Nat /\ M \in Nat /\ M * x \in Nat
      /\ S * v <= M * x /\ M * x + 1 <= S * v + S
  BY ValuesAre, SchTreeAssumption DEF Rated
<1>2. s.paths \in Seq(Path) /\ s.path_values \in Seq(Nat) /\ L \in Nat /\ T \in Nat
  <2>1. s.paths \in Seq(Path) /\ s.path_values \in Seq(Nat)
    BY DEF Batches
  <2>. QED
    BY <2>1, TotalIsNat
<1>3. S * T <= M * r /\ M * r + L <= S * T + S * L
  BY DEF Rounded
<1>4. CASE Schedulable(f[p])
  <2>1. u.paths = Append(s.paths, p) /\ u.path_values = Append(s.path_values, v)
    <3> HIDE DEF v
    <3>. QED
      BY <1>1, <1>4, SetPathIs DEF v
  <2>2. Len(u.paths) = L + 1
    BY <1>2, <2>1
  <2>3. Total(u.path_values) = T + v
    <3> HIDE DEF v
    <3>. QED
      BY <1>1, <1>2, <2>1, TotalOfAppend
  <2> HIDE DEF S, M, v, x, T, L
  <2>4. /\ S * (T + v) = S * T + S * v /\ M * (r + x) = M * r + M * x /\ S * (L + 1) = S * L + S
        /\ S * T \in Nat /\ S * v \in Nat /\ M * r \in Nat /\ S * L \in Nat
    BY <1>1, <1>2
  <2>5. S * (T + v) <= M * (r + x) /\ M * (r + x) + (L + 1) <= S * (T + v) + S * (L + 1)
    <3> DEFINE a == S * T
               b == S * v
               c == M * r
               d == M * x
               e == S * L
    <3>1. a <= c /\ c + L <= a + e /\ b <= d /\ d + 1 <= b + S
      BY <1>1, <1>3
    <3>2. a \in Nat /\ b \in Nat /\ c \in Nat /\ d \in Nat /\ e \in Nat
      BY <1>1, <2>4
    <3> HIDE DEF a, b, c, d, e
    <3>3. a + b <= c + d /\ (c + d) + (L + 1) <= (a + b) + (e + S)
      BY <1>1, <1>2, <3>1, <3>2
    <3>. QED
      BY <2>4, <3>3 DEF a, b, c, d, e
  <2>. QED
    BY <2>2, <2>3, <2>5 DEF Rounded, S, M, x
<1>5. CASE ~ Schedulable(f[p])
  <2>1. u = s /\ x = 0
    BY <1>5 DEF Rated
  <2>2. r + x = r
    BY <2>1
  <2>. QED
    BY <2>1, <2>2
<1>. QED
  BY <1>4, <1>5

\* The values of the batch stay within max_value and miss less than one each.
LEMMA BatchFits ==
  ASSUME subflows \in Seq(Path), Distinct(subflows), schtree \in Batches,
         schtree.paths = << >>, schtree.path_values = << >>, NEW f, Rated(f),
         NEW s, s = Batch(f)
  PROVE  /\ s \in Batches /\ IsBatch(s, f, Len(subflows))
         /\ Total(s.path_values) \in Nat /\ Total(s.path_values) <= MaxValue
         /\ Len(s.paths) # 0 => MaxValue < Total(s.path_values) + Len(s.paths)
<1> DEFINE N == Len(subflows)
           rates == Rates(f)
           V == Total(s.path_values)
           n == Len(s.paths)
<1>1. PICK b : Gathers(b, f) /\ s = b[N]
  <2>1. \A p \in Path : RateValue(f, p) \in Nat
    BY ValuesAre
  <2>. QED
    BY <2>1, BatchIs
<1>2. /\ rates \in Seq(Nat) /\ Len(rates) = N /\ \A i \in 1 .. N : rates[i] = f[subflows[i]].SR
      /\ \A i \in 1 .. N : rates[i] <= Total(rates)
      /\ Total(rates) \in Nat
      /\ RateSum(f) = IF Total(rates) = 0 THEN RateUnit ELSE Total(rates)
  BY RateSumIs
<1>3. N \in Nat /\ \A i \in 1 .. N : subflows[i] \in Path
  OBVIOUS
<1>4. PICK r : IsSum(r, rates) /\ Total(rates) = r[N]
  <2> HIDE DEF rates
  <2>1. rates \in Seq(Int)
    BY <1>2
  <2>. QED
    BY <1>2, <2>1, TotalIs
<1>5. \A i \in 0 .. N : r[i] \in Nat
  <2> HIDE DEF rates
  <2>. QED
    BY <1>2, <1>4, SumsGrow
<1>6. /\ b \in [0 .. N -> Batches] /\ b[0] = schtree
      /\ \A i \in 1 .. N : b[i] = IF Schedulable(f[subflows[i]])
                                  THEN SetPath(b[i - 1], subflows[i], RateValue(f, subflows[i]))
                                  ELSE b[i - 1]
  BY <1>1 DEF Gathers
<1> DEFINE done == {i \in 0 .. N : IsBatch(b[i], f, i) /\ Rounded(b[i], f, r[i])}
<1>7. 0 \in done
  <2>1. b[0].paths = << >> /\ b[0].path_values = << >>
    BY <1>6
  <2>2. IsBatch(b[0], f, 0)
    BY <2>1 DEF IsBatch, Valued, Complete, NewestFirst, Distinct
  <2>3. RateSum(f) \in Nat /\ MaxValue \in Nat
    BY <1>2, SchTreeAssumption, DispatchAssumption
  <2>4. Rounded(b[0], f, r[0])
    <3>1. r[0] = 0 /\ Total(b[0].path_values) = 0 /\ Len(b[0].paths) = 0
      BY <1>4, <2>1, TotalOfNothing DEF IsSum
    <3>. QED
      BY <2>3, <3>1 DEF Rounded
  <2>. QED
    BY <1>3, <2>2, <2>4
<1>8. ASSUME NEW i \in 1 .. N, i - 1 \in done PROVE i \in done
  <2> DEFINE p == subflows[i]
  <2>1. /\ p \in Path /\ i - 1 \in 0 .. N /\ i \in 0 .. N /\ r[i - 1] \in Nat
        /\ b[i - 1] \in Batches /\ IsBatch(b[i - 1], f, i - 1) /\ Rounded(b[i - 1], f, r[i - 1])
    BY <1>3, <1>5, <1>6, <1>8
  <2>2. b[i] = IF Schedulable(f[p]) THEN SetPath(b[i - 1], p, RateValue(f, p)) ELSE b[i - 1]
    BY <1>6
  <2>3. r[i] = r[i - 1] + f[p].SR
    BY <1>2, <1>4 DEF IsSum
  <2>4. RateValue(f, p) \in Nat
    BY <2>1, ValuesAre
  <2>5. IsBatch(b[i], f, i)
    BY <2>1, <2>2, <2>4, BatchGrows
  <2>6. Rounded(b[i], f, r[i - 1] + f[p].SR)
    <3>1. Len(b[i - 1].path_values) = Len(b[i - 1].paths)
      BY <2>1 DEF IsBatch
    <3> HIDE DEF p
    <3>. QED
      BY <2>1, <2>2, <3>1, RoundingGrows
  <2>. QED
    BY <2>1, <2>3, <2>5, <2>6
<1>9. IsBatch(s, f, N) /\ Rounded(s, f, Total(rates)) /\ s \in Batches
  <2>1. \A i \in 0 .. N : i \in done
    <3> HIDE DEF done
    <3>. QED
      BY <1>3, <1>7, <1>8, CountUp
  <2>2. N \in 0 .. N
    BY <1>3
  <2>. QED
    BY <1>1, <1>4, <1>6, <2>1, <2>2
<1>10. V \in Nat /\ n \in Nat /\ s.paths \in Seq(Path) /\ MaxValue \in Nat
  <2>1. s.paths \in Seq(Path) /\ s.path_values \in Seq(Nat)
    BY <1>9 DEF Batches
  <2>. QED
    BY <2>1, TotalIsNat, SchTreeAssumption
<1>11. CASE n = 0
  <2>1. Len(s.path_values) = 0 /\ s.path_values \in Seq(Nat)
    BY <1>9, <1>11 DEF IsBatch, Batches
  <2>2. V = 0
    BY <2>1, TotalOfNothing
  <2>. QED
    BY <1>9, <1>10, <1>11, <2>2
<1>12. CASE n # 0
  <2> DEFINE S == Total(rates)
  <2>1. S # 0
    <3>1. 1 \in 1 .. n
      BY <1>10, <1>12
    <3>2. PICK m \in 1 .. N : Schedulable(f[subflows[m]])
      BY <1>9, <3>1 DEF IsBatch, Valued
    <3>3. rates[m] # 0
      BY <1>2, <1>3, <3>2 DEF Rated
    <3> HIDE DEF rates
    <3>. QED
      BY <1>2, <3>3
  <2>2. RateSum(f) = S /\ S \in Nat
    BY <1>2, <2>1
  <2>3. S * V <= MaxValue * S /\ MaxValue * S + n <= S * V + S * n
    BY <1>9, <2>2 DEF Rounded
  <2> HIDE DEF S, V, n
  <2>4. /\ MaxValue * S = S * MaxValue /\ S * V + S * n = S * (V + n)
        /\ S * MaxValue \in Nat /\ S * V \in Nat /\ S * n \in Nat
    BY <1>10, <2>2
  <2>5. S * V <= S * MaxValue /\ S * MaxValue < S * (V + n)
    <3> DEFINE x == S * MaxValue
               y == S * V
               z == S * n
    <3>1. /\ x \in Nat /\ y \in Nat /\ z \in Nat /\ n >= 1
          /\ y <= x /\ x + n <= y + z /\ y + z = S * (V + n)
      BY <1>10, <1>12, <2>3, <2>4 DEF n
    <3> HIDE DEF x, y, z
    <3>2. x < y + z
      BY <1>10, <3>1
    <3>. QED
      BY <3>1, <3>2 DEF x, y
  <2>6. V <= MaxValue /\ MaxValue < V + n
    BY <1>10, <2>1, <2>2, <2>3, <2>4, <2>5, Cancels
  <2>. QED
    BY <1>9, <1>10, <2>6 DEF V, n
<1>. QED
  BY <1>11, <1>12

-----------------------------------------------------------------------------
(* The invariant of the dispatch.                                          *)

SubflowRecords == [active : BOOLEAN, linked : BOOLEAN, state : States, SR : 0 .. RateUnit]

\* A subflow is linked when and only when it is not congested, active when and
\* only when it has a rate, and a rate is no less than an equal part.
Steady(s) ==
  /\ s \in SubflowRecords /\ s.state # "CONGESTED"
  /\ s.linked <=> s.state = "NON_CONGESTED"
  /\ s.active => s.linked /\ RateUnit <= Cardinality(Path) * s.SR
  /\ s.active <=> s.SR # 0

ListInv ==
  /\ subflows \in Seq(Path) /\ Distinct(subflows) /\ peer \subseteq Listed
  /\ \A p \in Path : p \notin Listed => sf[p] = NewSubflow

RatesInv == sf \in [Path -> SubflowRecords] /\ \A p \in Path : Steady(sf[p])

Planted(s) ==
  /\ s.paths = << >> /\ s.path_values = << >>
  /\ s.root \in Trees /\ Shaped(s.root) /\ Full(s.root)
  /\ s = [root |-> s.root, actual |-> s.actual, paths |-> s.paths, path_values |-> s.path_values]
  /\ InTree(s.root) \subseteq Listed

DispatchInv == ListInv /\ RatesInv /\ Planted(schtree)

\* No subflow is listed twice, so there are no more than there are paths.
LEMMA FewSubflows ==
  ASSUME subflows \in Seq(Path), Distinct(subflows)
  PROVE  Len(subflows) \in Nat /\ Len(subflows) <= Cardinality(Path)
<1> DEFINE N == Len(subflows)
           f == [i \in 1 .. N |-> subflows[i]]
<1>1. N \in Nat /\ f \in [1 .. N -> Path] /\ \A i, j \in 1 .. N : f[i] = f[j] => i = j
  BY DEF Distinct
<1>2. f \in Injection(1 .. N, Path)
  <2> HIDE DEF f, N
  <2>. QED
    BY <1>1 DEF Injection, IsInjective
<1>3. IsFiniteSet(Path)
  BY DispatchAssumption
<1>4. Cardinality(1 .. N) <= Cardinality(Path) /\ Cardinality(1 .. N) = N
  <2>1. Cardinality(1 .. N) <= Cardinality(Path)
    <3> HIDE DEF f, N
    <3>. QED
      BY <1>2, <1>3, FS_Injection
  <2>2. Cardinality(1 .. N) = N
    BY <1>1, FS_Interval
  <2>. QED
    BY <2>1, <2>2
<1>. QED
  BY <1>1, <1>4

\* What the scheduler gives a subflow that joins.
LEMMA JoinRateIs ==
  ASSUME subflows \in Seq(Path), Distinct(subflows), subflows # << >>
  PROVE  /\ JoinRate \in 1 .. RateUnit
         /\ RateUnit <= Cardinality(Path) * JoinRate
<1> DEFINE N == Len(subflows)
           C == Cardinality(Path)
           R == RateUnit
           d == R \div N
<1>1. N \in Nat /\ N >= 1 /\ N <= C
  BY FewSubflows
<1>2. subflows[1] \in Path
  BY <1>1
<1>3. R \in Nat /\ R > 0 /\ C \in Nat /\ N \in 1 .. C
  BY <1>1, <1>2, UnitIs
<1>4. R % N = 0
  BY <1>3, DispatchAssumption
<1> HIDE DEF N, C, R
<1>5. d \in Nat /\ N * d = R
  BY <1>1, <1>3, <1>4
<1> HIDE DEF d
<1>6. d # 0
  <2>1. d = 0 => N * d = 0
    BY <1>1
  <2>. QED
    BY <1>3, <1>5, <2>1
<1>7. R <= C * d /\ d <= R
  <2>1. PICK m \in Nat : C = N + m
    <3>1. C - N \in Nat /\ C = N + (C - N)
      BY <1>1, <1>3
    <3>. QED
      BY <3>1
  <2>2. C * d = N * d + m * d /\ m * d \in Nat
    BY <1>1, <1>5, <2>1
  <2>3. d <= N * d
    BY <1>1, <1>5, <1>6, Products
  <2>. QED
    BY <1>3, <1>5, <2>2, <2>3
<1>. QED
  BY <1>3, <1>5, <1>6, <1>7 DEF d, C, R, N, JoinRate

LEMMA NewIsSteady == Path # {} => Steady(NewSubflow)
<1>1. SUFFICES ASSUME Path # {} PROVE Steady(NewSubflow)
  OBVIOUS
<1>2. RateUnit \in Nat
  BY <1>1, UnitIs
<1>. QED
  BY <1>2 DEF Steady, NewSubflow, SubflowRecords, States

LEMMA LinkIsSteady ==
  ASSUME NEW s, Steady(s)
  PROVE  Steady(Link(s))
BY DEF Steady, Link, SubflowRecords, States

LEMMA DetachedIsSteady ==
  ASSUME NEW s, Steady(s), Path # {}
  PROVE  Steady(Fire(s, "DETACHED", 0))
<1>1. RateUnit \in Nat
  BY UnitIs
<1>2. s.state \in {"none", "NON_CONGESTED", "PASSIVE"} /\ s \in SubflowRecords
  BY DEF Steady, SubflowRecords, States
<1>3. CASE s.state = "none"
  BY <1>3 DEF Steady, Fire
<1>4. CASE s.state = "NON_CONGESTED"
  <2>1. Fire(s, "DETACHED", 0) = Passive([s EXCEPT !.active = FALSE, !.linked = FALSE])
    BY <1>4 DEF Fire, FireNonCongested
  <2>2. Fire(s, "DETACHED", 0) = [active |-> FALSE, linked |-> FALSE, state |-> "PASSIVE", SR |-> 0]
    BY <1>2, <2>1 DEF Passive, SubflowRecords
  <2>3. Steady([active |-> FALSE, linked |-> FALSE, state |-> "PASSIVE", SR |-> 0])
    BY <1>1 DEF Steady, SubflowRecords, States
  <2>. QED
    BY <2>2, <2>3
<1>5. CASE s.state = "PASSIVE"
  <2>1. Fire(s, "DETACHED", 0) = [s EXCEPT !.linked = FALSE, !.active = FALSE, !.SR = 0]
    BY <1>5 DEF Fire, FirePassive
  <2>. QED
    BY <1>1, <1>2, <1>5, <2>1 DEF Steady, SubflowRecords, States
<1>. QED
  BY <1>2, <1>3, <1>4, <1>5

LEMMA JoinedIsSteady ==
  ASSUME subflows \in Seq(Path), Distinct(subflows), subflows # << >>, NEW s, Steady(s)
  PROVE  Steady(Joined(s))
<1>1. JoinRate \in 1 .. RateUnit /\ RateUnit <= Cardinality(Path) * JoinRate
  BY JoinRateIs
<1>2. CASE ~ s.active /\ s.linked
  <2>1. s.state = "NON_CONGESTED" /\ s \in SubflowRecords
    BY <1>2 DEF Steady
  <2>2. Joined(s) = [s EXCEPT !.active = TRUE, !.SR = JoinRate]
    BY <1>2, <2>1 DEF Joined, Fire, FireNonCongested
  <2>3. Joined(s) = [active |-> TRUE, linked |-> TRUE, state |-> "NON_CONGESTED", SR |-> JoinRate]
    BY <1>2, <2>1, <2>2 DEF SubflowRecords
  <2>4. JoinRate \in 0 .. RateUnit /\ JoinRate # 0
    BY <1>1
  <2>5. Steady([active |-> TRUE, linked |-> TRUE, state |-> "NON_CONGESTED", SR |-> JoinRate])
    BY <1>1, <2>4 DEF Steady, SubflowRecords, States
  <2>. QED
    BY <2>3, <2>5
<1>3. CASE ~ (~ s.active /\ s.linked)
  BY <1>3 DEF Joined
<1>. QED
  BY <1>2, <1>3

LEMMA SteadyIsRated ==
  ASSUME NEW f, \A p \in Path : Steady(f[p])
  PROVE  /\ Rated(f)
         /\ \A p \in Path : Schedulable(f[p]) <=> f[p].active
<1>1. ASSUME NEW p \in Path
      PROVE  f[p].SR \in Nat /\ (Schedulable(f[p]) <=> f[p].active) /\ (f[p].active <=> f[p].SR # 0)
  <2>1. RateUnit \in Nat
    BY UnitIs
  <2>2. f[p].SR \in Nat
    BY <2>1 DEF Steady, SubflowRecords
  <2>. QED
    BY <2>2 DEF Steady, Schedulable
<1>. QED
  BY <1>1 DEF Rated

-----------------------------------------------------------------------------
(* What a scheduler run makes of the tree.                                 *)

LEMMA PlantedIsBatch ==
  ASSUME Planted(schtree)
  PROVE  schtree \in Batches
<1>1. << >> \in Seq(Path) /\ << >> \in Seq(Nat)
  OBVIOUS
<1> DEFINE r == schtree.root
           a == schtree.actual
<1>2. schtree = [root |-> r, actual |-> a, paths |-> << >>, path_values |-> << >>]
  BY DEF Planted
<1> HIDE DEF r, a
<1>3. [root |-> r, actual |-> a, paths |-> << >>, path_values |-> << >>] \in
        [root : {r}, actual : {a}, paths : Seq(Path), path_values : Seq(Nat)]
  BY <1>1
<1>. QED
  BY <1>2, <1>3 DEF Batches, r, a

\* The batch s of the rates f, the adjusted values v, the tree t built of them
\* and the tree u that replaces the old one.
Made(f, s, v, t, u) ==
  /\ s.paths \in Seq(Path) /\ Distinct(s.paths) /\ Len(s.paths) \in Nat
  /\ s.path_values \in Seq(Nat) /\ Len(s.path_values) = Len(s.paths)
  /\ IsBatch(s, f, Len(subflows))
  /\ v \in Seq(Nat) /\ Len(v) = Len(s.paths) /\ (Len(s.paths) # 0 => Total(v) = MaxValue)
  /\ t \in ShapedTrees /\ Full(t) /\ (Len(s.paths) = 0 => DOMAIN t = {})
  /\ u.root = OverlapTrees(schtree.root, t)
  /\ u.root \in Trees /\ DOMAIN u.root = DOMAIN t /\ \A k \in DOMAIN t : u.root[k].path = t[k].path
  /\ InTree(u.root) \subseteq {s.paths[i] : i \in 1 .. Len(s.paths)}

\* A run builds a full tree of paths that are listed.
LEMMA RunMakes ==
  ASSUME ListInv, Planted(schtree), NEW f, \A p \in Path : Steady(f[p]),
         NEW s, s = Batch(f), NEW v, v = AdjustedValues(s.path_values),
         NEW t, t = BuildTree(s.paths, v), NEW u, u = CreateAndReplace(s)
  PROVE  Made(f, s, v, t, u) /\ Planted(u)
<1> DEFINE N == Len(s.paths)
           w == OverlapTrees(schtree.root, t)
<1>1. /\ s \in Batches /\ IsBatch(s, f, Len(subflows)) /\ Total(s.path_values) <= MaxValue
      /\ Total(s.path_values) \in Nat
  <2>1. Rated(f) /\ schtree \in Batches
    BY SteadyIsRated, PlantedIsBatch
  <2>2. subflows \in Seq(Path) /\ Distinct(subflows) /\ schtree.paths = << >> /\ schtree.path_values = << >>
    BY DEF ListInv, Planted
  <2>. QED
    BY <2>1, <2>2, BatchFits
<1>2. /\ s.paths \in Seq(Path) /\ Distinct(s.paths) /\ N \in Nat
      /\ s.path_values \in Seq(Nat) /\ Len(s.path_values) = N /\ s.root = schtree.root
  BY <1>1 DEF Batches, IsBatch
<1>3. v \in Seq(Nat) /\ Len(v) = N /\ (N # 0 => Total(v) = MaxValue)
  <2>1. s.path_values = << >> => v = s.path_values
    BY DEF AdjustedValues
  <2>2. N # 0 <=> s.path_values # << >>
    BY <1>2
  <2>3. s.path_values # << >> => v \in Seq(Nat) /\ Len(v) = N /\ Total(v) = MaxValue
    BY <1>1, <1>2, AdjustedIs
  <2>. QED
    BY <1>2, <2>1, <2>2, <2>3
<1>4. t \in ShapedTrees /\ Full(t)
  BY <1>2, <1>3, BuildTreeIs
<1>5. u = [root |-> w, actual |-> u.actual, paths |-> << >>, path_values |-> << >>]
  BY <1>2 DEF CreateAndReplace
<1>6. /\ w \in ShapedTrees /\ DOMAIN w = DOMAIN t /\ \A k \in DOMAIN t : w[k].path = t[k].path
      /\ Full(w)
  <2>1. schtree.root \in Trees
    BY DEF Planted
  <2> HIDE DEF w
  <2>. QED
    BY <1>4, <2>1, OverlapIs DEF w
<1>7. u.root = w /\ u.paths = << >> /\ u.path_values = << >>
  <2> HIDE DEF w
  <2>. QED
    BY <1>5
<1> HIDE DEF w
<1>8. N = 0 => DOMAIN t = {}
  <2>1. PICK b : IsBuilt(b, s.paths, v) /\ t = b[N]
    BY <1>2, <1>3, BuiltIs
  <2>. QED
    BY <2>1, EmptyTreeIs DEF IsBuilt
<1>9. InTree(w) \subseteq {s.paths[i] : i \in 1 .. N}
  <2>1. ASSUME NEW k \in DOMAIN w, w[k].path # NoPath PROVE \E i \in 1 .. N : s.paths[i] = w[k].path
    <3>1. N # 0
      BY <1>6, <1>8, <2>1
    <3>2. Dealt(t, s.paths, v, N)
      BY <1>2, <1>3, <3>1, BuildDeals
    <3>3. t[k].path \in Path
      <4>1. w \in Trees /\ Owned(w, k)
        BY <1>6, <2>1 DEF ShapedTrees, Owned
      <4>. QED
        BY <1>6, <2>1, <4>1, OwnedIs
    <3>4. k \in LeavesOf(t, t[k].path)
      BY <1>6, <2>1 DEF LeavesOf
    <3>. QED
      BY <1>6, <2>1, <3>2, <3>3, <3>4 DEF Dealt
  <2>. QED
    BY <2>1 DEF InTree
<1>10. {s.paths[i] : i \in 1 .. N} \subseteq Listed
  <2>1. \A i \in 1 .. N : \E m \in 1 .. Len(subflows) : s.paths[i] = subflows[m]
    BY <1>1 DEF IsBatch, Valued
  <2>. QED
    BY <2>1 DEF Listed
<1>11. Made(f, s, v, t, u)
  BY <1>1, <1>2, <1>3, <1>4, <1>6, <1>7, <1>8, <1>9 DEF Made, ShapedTrees, w
<1>12. Planted(u)
  BY <1>5, <1>6, <1>7, <1>9, <1>10 DEF Planted, ShapedTrees
<1>. QED
  BY <1>11, <1>12

LEMMA EmptyIsPlanted == Planted(InitTree)
<1>1. /\ InitTree.root = EmptyTree /\ InitTree.actual = NoNode
      /\ InitTree.paths = << >> /\ InitTree.path_values = << >>
      /\ InitTree = [root |-> EmptyTree, actual |-> NoNode, paths |-> << >>, path_values |-> << >>]
  BY DEF InitTree
<1>2. EmptyTree \in Trees /\ Shaped(EmptyTree) /\ Full(EmptyTree) /\ DOMAIN EmptyTree = {}
  BY EmptyTreeIs DEF ShapedTrees
<1>3. InTree(EmptyTree) = {}
  BY <1>2 DEF InTree
<1>. QED
  BY <1>1, <1>2, <1>3 DEF Planted

LEMMA DispatchStarts == DispatchInit => DispatchInv
<1>1. SUFFICES ASSUME DispatchInit PROVE DispatchInv
  OBVIOUS
<1>2. ListInv
  BY <1>1 DEF DispatchInit, ListInv, Distinct, Listed
<1>3. RatesInv
  <2>1. \A p \in Path : Steady(NewSubflow) /\ NewSubflow \in SubflowRecords
    BY NewIsSteady DEF Steady
  <2>. QED
    BY <1>1, <2>1 DEF DispatchInit, RatesInv
<1>4. Planted(schtree)
  BY <1>1, EmptyIsPlanted DEF DispatchInit
<1>. QED
  BY <1>2, <1>3, <1>4 DEF DispatchInv

LEMMA RunIsSteady ==
  ASSUME DispatchInv, SchedulerRun
  PROVE  /\ sf' \in [Path -> SubflowRecords] /\ \A p \in Path : Steady(sf'[p])
         /\ \A p \in Path : p \notin Listed => sf'[p] = sf[p]
<1>1. /\ subflows \in Seq(Path) /\ Distinct(subflows) /\ \A p \in Path : Steady(sf[p])
      /\ sf' = [p \in Path |-> IF p \in Listed THEN Joined(sf[p]) ELSE sf[p]]
  BY DEF DispatchInv, ListInv, RatesInv, SchedulerRun
<1>2. ASSUME NEW p \in Path PROVE Steady(sf'[p])
  <2>1. CASE p \in Listed
    <3>1. subflows # << >>
      BY <2>1 DEF Listed
    <3>2. Steady(Joined(sf[p]))
      BY <1>1, <3>1, JoinedIsSteady
    <3>. QED
      BY <1>1, <2>1, <3>2
  <2>2. CASE p \notin Listed
    BY <1>1, <2>2
  <2>. QED
    BY <2>1, <2>2
<1>3. \A p \in Path : sf'[p] \in SubflowRecords
  BY <1>2 DEF Steady
<1>4. sf' = [p \in Path |-> sf'[p]]
  BY <1>1
<1>. QED
  BY <1>1, <1>2, <1>3, <1>4

LEMMA RequestKeeps ==
  ASSUME DispatchInv, NEW p \in Path, RequestPad(p)
  PROVE  DispatchInv'
<1> DEFINE N == Len(subflows)
<1>1. /\ p \notin Listed /\ subflows' = <<p>> \o subflows /\ subflows \in Seq(Path)
      /\ UNCHANGED <<sf, peer, schtree, packets, last>>
  BY DEF RequestPad, DispatchInv, ListInv
<1>2. /\ subflows' \in Seq(Path) /\ Len(subflows') = N + 1 /\ N \in Nat
      /\ subflows'[1] = p /\ \A i \in 2 .. N + 1 : subflows'[i] = subflows[i - 1]
  BY <1>1
<1>3. Distinct(subflows')
  <2>1. \A i \in 1 .. N + 1 : i = 1 \/ (i \in 2 .. N + 1 /\ i - 1 \in 1 .. N)
    BY <1>2
  <2>2. \A i \in 1 .. N : subflows[i] # p
    BY <1>1 DEF Listed
  <2>3. \A i, j \in 1 .. N : subflows[i] = subflows[j] => i = j
    BY DEF DispatchInv, ListInv, Distinct
  <2>4. ASSUME NEW i \in 1 .. N + 1, NEW j \in 1 .. N + 1, subflows'[i] = subflows'[j] PROVE i = j
    <3>1. CASE i = 1 \/ j = 1
      BY <1>2, <2>1, <2>2, <2>4, <3>1
    <3>2. CASE i # 1 /\ j # 1
      <4>1. i - 1 \in 1 .. N /\ j - 1 \in 1 .. N /\ subflows[i - 1] = subflows[j - 1]
        BY <1>2, <2>1, <2>4, <3>2
      <4>2. i - 1 = j - 1
        BY <2>3, <4>1
      <4>. QED
        BY <4>2
    <3>. QED
      BY <3>1, <3>2
  <2>. QED
    BY <1>2, <2>4 DEF Distinct
<1>4. Listed \subseteq Listed'
  <2>1. ASSUME NEW i \in 1 .. N PROVE subflows[i] \in Listed'
    <3>1. i + 1 \in 2 .. N + 1 /\ i + 1 \in 1 .. N + 1 /\ (i + 1) - 1 = i
      BY <1>2
    <3>2. subflows'[i + 1] = subflows[i]
      BY <1>2, <3>1
    <3>. QED
      BY <1>2, <3>1, <3>2 DEF Listed
  <2>. QED
    BY <2>1 DEF Listed
<1>5. ListInv'
  <2>1. peer' \subseteq Listed'
    BY <1>1, <1>4 DEF DispatchInv, ListInv
  <2>2. \A q \in Path : q \notin Listed' => sf'[q] = NewSubflow
    BY <1>1, <1>4 DEF DispatchInv, ListInv
  <2>. QED
    BY <1>2, <1>3, <2>1, <2>2 DEF ListInv
<1>6. RatesInv' /\ Planted(schtree)'
  BY <1>1, <1>4 DEF DispatchInv, RatesInv, Planted
<1>. QED
  BY <1>5, <1>6 DEF DispatchInv

\* Linking and unlinking change one subflow of the list.
LEMMA ChangeKeeps ==
  ASSUME DispatchInv, NEW p \in Listed, NEW s, Steady(s), sf' = [sf EXCEPT ![p] = s],
         UNCHANGED <<subflows, schtree, packets, last>>, peer' \subseteq Listed
  PROVE  DispatchInv'
<1>1. p \in Path /\ s \in SubflowRecords
  BY DEF DispatchInv, ListInv, Listed, Steady
<1>2. ListInv'
  BY <1>1 DEF DispatchInv, ListInv, RatesInv, Listed
<1>3. RatesInv'
  BY <1>1 DEF DispatchInv, RatesInv
<1>4. Planted(schtree)'
  BY DEF DispatchInv, Planted, Listed
<1>. QED
  BY <1>2, <1>3, <1>4 DEF DispatchInv

LEMMA LinkKeeps ==
  ASSUME DispatchInv, NEW p \in Path, SrcLink(p)
  PROVE  DispatchInv'
<1>1. p \in Listed /\ peer' = peer \cup {p} /\ peer \subseteq Listed /\ Steady(sf[p])
  BY DEF DispatchInv, ListInv, RatesInv, SrcLink
<1>2. Steady(Link(sf[p]))
  BY <1>1, LinkIsSteady
<1>3. sf' = [sf EXCEPT ![p] = Link(sf[p])] /\ UNCHANGED <<subflows, schtree, packets, last>>
  BY DEF SrcLink
<1>. QED
  BY <1>1, <1>2, <1>3, ChangeKeeps

LEMMA UnlinkKeeps ==
  ASSUME DispatchInv, NEW p \in Path, SrcUnlink(p)
  PROVE  DispatchInv'
<1> DEFINE q == subflows[Len(subflows)]
<1>1. q \in Listed /\ q \in Path /\ peer' \subseteq Listed
  <2>1. p \in Listed /\ subflows \in Seq(Path) /\ peer' \subseteq Listed
    BY DEF DispatchInv, ListInv, SrcUnlink
  <2>2. Len(subflows) \in 1 .. Len(subflows)
    BY <2>1 DEF Listed
  <2>. QED
    BY <2>1, <2>2 DEF Listed
<1>2. Steady(Fire(sf[q], "DETACHED", 0))
  <2>1. Steady(sf[q])
    BY <1>1 DEF DispatchInv, RatesInv
  <2>. QED
    BY <2>1, DetachedIsSteady
<1>3. sf' = [sf EXCEPT ![q] = Fire(sf[q], "DETACHED", 0)] /\ UNCHANGED <<subflows, schtree, packets, last>>
  BY DEF SrcUnlink
<1> HIDE DEF q
<1>. QED
  BY <1>1, <1>2, <1>3, ChangeKeeps

LEMMA RunKeeps ==
  ASSUME DispatchInv, SchedulerRun
  PROVE  DispatchInv'
<1>1. UNCHANGED <<subflows, peer, last>> /\ schtree' = IF subflows = << >> THEN schtree ELSE CreateAndReplace(Batch(sf'))
  BY DEF SchedulerRun
<1>2. ListInv'
  BY <1>1, RunIsSteady DEF DispatchInv, ListInv, Listed
<1>3. RatesInv'
  BY RunIsSteady DEF RatesInv
<1>4. Planted(CreateAndReplace(Batch(sf')))
  BY RunIsSteady, RunMakes DEF DispatchInv
<1>5. Planted(schtree)'
  <2>1. Planted(schtree')
    BY <1>1, <1>4 DEF DispatchInv
  <2>. QED
    BY <1>1, <2>1 DEF Planted, Listed
<1>. QED
  BY <1>2, <1>3, <1>5 DEF DispatchInv

LEMMA PacketKeeps ==
  ASSUME DispatchInv, RtpPacket
  PROVE  DispatchInv'
<1> DEFINE t == schtree.root
           u == TurnedTree(t)
           q == Selected(t)
<1>1. /\ t \in Trees /\ Shaped(t) /\ Full(t) /\ InTree(t) \subseteq Listed
      /\ schtree = [root |-> t, actual |-> schtree.actual, paths |-> schtree.paths,
                    path_values |-> schtree.path_values]
      /\ schtree.paths = << >> /\ schtree.path_values = << >>
      /\ UNCHANGED <<subflows, sf, peer>> /\ schtree' = GetNext(schtree)
  BY DEF DispatchInv, Planted, RtpPacket
<1>2. schtree' = [root |-> u, actual |-> q, paths |-> schtree.paths,
                  path_values |-> schtree.path_values]
  BY <1>1 DEF GetNext
<1>3. /\ u \in Trees /\ Shaped(u) /\ Full(u) /\ DOMAIN u = DOMAIN t
      /\ \A k \in DOMAIN t : u[k].path = t[k].path
  <2> HIDE DEF t, u
  <2>. QED
    BY <1>1, DrawnTree DEF u
<1>4. /\ schtree'.root = u /\ schtree'.actual = q /\ schtree'.paths = << >>
      /\ schtree'.path_values = << >>
  BY <1>1, <1>2
<1>5. InTree(u) \subseteq Listed
  BY <1>1, <1>3 DEF InTree
<1> HIDE DEF t, u, q
<1>6. Planted(schtree)'
  BY <1>1, <1>2, <1>3, <1>4, <1>5 DEF Planted, Listed
<1>7. ListInv' /\ RatesInv'
  BY <1>1 DEF DispatchInv, ListInv, RatesInv, Listed
<1>. QED
  BY <1>6, <1>7 DEF DispatchInv

LEMMA DispatchKeeps == DispatchInv /\ [DispatchNext]_dispatchVars => DispatchInv'
<1>1. SUFFICES ASSUME DispatchInv, [DispatchNext]_dispatchVars PROVE DispatchInv'
  OBVIOUS
<1>2. CASE \E p \in Path : RequestPad(p) \/ SrcLink(p) \/ SrcUnlink(p)
  BY <1>1, <1>2, RequestKeeps, LinkKeeps, UnlinkKeeps
<1>3. CASE SchedulerRun
  BY <1>1, <1>3, RunKeeps
<1>4. CASE RtpPacket
  BY <1>1, <1>4, PacketKeeps
<1>5. CASE UNCHANGED dispatchVars
  BY <1>1, <1>5 DEF dispatchVars, DispatchInv, ListInv, RatesInv, Planted, Listed
<1>. QED
  BY <1>1, <1>2, <1>3, <1>4, <1>5 DEF DispatchNext

LEMMA DispatchInvHolds == DispatchSpec => []DispatchInv
BY DispatchStarts, DispatchKeeps, PTL DEF DispatchSpec

\* Whatever mixture of old and new rates a run finds, the values that it gives
\* never exceed max_value and miss less than one unit for each path: what
\* SchTreeSpec takes for granted of the client of the tree.
THEOREM BatchesFitTheTree == DispatchSpec => BatchFitsTree
<1> DEFINE s == Batch(sf')
           Fits == SchedulerRun => LET batch == Batch(sf')
                                       missing == MaxValue - Total(batch.path_values)
                                   IN  /\ 0 <= missing
                                       /\ batch.paths # << >> => missing < Len(batch.paths)
<1>1. DispatchInv /\ [DispatchNext]_dispatchVars => [Fits]_dispatchVars
  <2>1. SUFFICES ASSUME DispatchInv, SchedulerRun
                 PROVE  /\ 0 <= MaxValue - Total(s.path_values)
                        /\ s.paths # << >> => MaxValue - Total(s.path_values) < Len(s.paths)
    OBVIOUS
  <2>2. /\ subflows \in Seq(Path) /\ Distinct(subflows) /\ Rated(sf') /\ schtree \in Batches
        /\ schtree.paths = << >> /\ schtree.path_values = << >>
    BY <2>1, RunIsSteady, SteadyIsRated, PlantedIsBatch DEF DispatchInv, ListInv, Planted
  <2>3. /\ s \in Batches /\ Total(s.path_values) \in Nat /\ Total(s.path_values) <= MaxValue
        /\ Len(s.paths) # 0 => MaxValue < Total(s.path_values) + Len(s.paths)
    BY <2>2, BatchFits
  <2>4. s.paths \in Seq(Path) /\ MaxValue \in Nat
    BY <2>3, SchTreeAssumption DEF Batches
  <2> HIDE DEF s
  <2>. QED
    BY <2>3, <2>4
<1>. QED
  BY <1>1, DispatchInvHolds, PTL DEF DispatchSpec, BatchFitsTree

-----------------------------------------------------------------------------
(* The first packet after a scheduler run.                                 *)

\* The leftmost node of a level is named by what the level weighs.
LEMMA LeftmostIs ==
  /\ Root = Weight[Root]
  /\ \A k \in Node : k = Weight[k] /\ 2 * k \in Node => 2 * k = Weight[2 * k]
  /\ \A k \in Node : k = Weight[k] /\ k # Root => k = 2 * Parent(k) /\ Parent(k) = Weight[Parent(k)]
<1>1. ASSUME NEW k \in Node, k = Weight[k], 2 * k \in Node PROVE 2 * k = Weight[2 * k]
  <2>1. k \in Nat /\ k >= 1 /\ Parent(2 * k) = k
    <3>1. k \in Nat /\ k >= 1
      BY SchTreeAssumption DEF Node
    <3>. QED
      BY <3>1, Nodes
  <2>2. 2 * k # Root
    BY <2>1 DEF Root
  <2>. QED
    BY <1>1, <2>1, <2>2, WeightIs
<1>2. ASSUME NEW k \in Node, k = Weight[k], k # Root
      PROVE  k = 2 * Parent(k) /\ Parent(k) = Weight[Parent(k)]
  <2>1. k = 2 * Weight[Parent(k)] /\ Weight[Parent(k)] \in Nat
    BY <1>2, WeightIs, Nodes
  <2>2. Parent(2 * Weight[Parent(k)]) = Weight[Parent(k)]
    BY <2>1, Nodes
  <2>. QED
    BY <2>1, <2>2
<1>3. Root = Weight[Root]
  BY WeightIs DEF Root
<1>. QED
  BY <1>1, <1>2, <1>3

\* The first path of a batch gets the leftmost leaf,
LEMMA FirstTakesLeftmost ==
  ASSUME NEW c \in Nat
  PROVE  \E k \in Taken(EmptyTree, c) : k = Weight[k]
<1> DEFINE t == EmptyTree
           e == Entered(t, c)
           S == {k \in Node : k = Weight[k] /\ e[k] # NotEntered => \E j \in Taken(t, c) : j = Weight[j]}
<1>1. t \in Trees /\ \A k : ~ Owned(t, k)
  BY EmptyTreeIs DEF ShapedTrees, Owned
<1> HIDE DEF t
<1>2. ASSUME NEW k \in Node, \A m \in {2 * k, 2 * k + 1} : m \in Node => m \in S PROVE k \in S
  <2>1. SUFFICES ASSUME k = Weight[k], e[k] # NotEntered PROVE \E j \in Taken(t, c) : j = Weight[j]
    OBVIOUS
  <2>2. CASE Takes(t, k, e[k])
    BY <2>1, <2>2 DEF Taken
  <2>3. CASE ~ Takes(t, k, e[k])
    <3>1. 2 * k \in Node /\ e[2 * k] = e[k]
      BY <1>1, <2>1, <2>3, EnteredBelow
    <3>2. 2 * k = Weight[2 * k]
      BY <2>1, <3>1, LeftmostIs
    <3>. QED
      BY <1>2, <2>1, <3>1, <3>2
  <2>. QED
    BY <2>2, <2>3
<1>3. \A k \in Node : k \in S
  <2> HIDE DEF S
  <2>. QED
    BY <1>2, FromTheLeaves
<1>4. Root \in Node /\ Root = Weight[Root] /\ e[Root] # NotEntered
  BY <1>1, EnteredIs, LeftmostIs, Nodes DEF NotEntered
<1>. QED
  BY <1>3, <1>4 DEF t

\* keeps it when the others come, and no node has been left yet.
LEMMA BuildPutsFirstLeft ==
  ASSUME NEW paths \in Seq(Path), NEW values \in Seq(Nat), Len(values) = Len(paths),
         Distinct(paths), paths # << >>, NEW t, t = BuildTree(paths, values)
  PROVE  /\ \E k \in LeavesOf(t, paths[1]) : k = Weight[k]
         /\ \A k \in DOMAIN t : t[k].next = NoNode
<1> DEFINE N == Len(paths)
<1>0. N \in Nat /\ N >= 1 /\ \A n \in 1 .. N : paths[n] \in Path /\ values[n] \in Nat
  OBVIOUS
<1>1. PICK b : IsBuilt(b, paths, values) /\ BuildTree(paths, values) = b[N]
  BY BuiltIs
<1>2. b[0] = EmptyTree /\ \A n \in 1 .. N : b[n] = Insert(b[n - 1], paths[n], values[n])
  BY <1>1 DEF IsBuilt
<1> DEFINE S == {n \in 0 .. N : /\ b[n] \in ShapedTrees /\ \A k \in DOMAIN b[n] : b[n][k].next = NoNode
                                /\ n >= 1 => \E k \in LeavesOf(b[n], paths[1]) : k = Weight[k]}
<1>3. 0 \in S
  BY <1>0, <1>2, EmptyTreeIs
<1>4. ASSUME NEW n \in 1 .. N, n - 1 \in S PROVE n \in S
  <2> DEFINE o == b[n - 1]
             u == b[n]
             p == paths[n]
             c == values[n]
  <2>1. /\ n \in 0 .. N /\ p \in Path /\ c \in Nat /\ u = Insert(o, p, c)
        /\ o \in Trees /\ Shaped(o) /\ \A k \in DOMAIN o : o[k].next = NoNode
    BY <1>0, <1>2, <1>4 DEF ShapedTrees
  <2>2. n - 1 >= 1 => \E k \in LeavesOf(o, paths[1]) : k = Weight[k]
    BY <1>4
  <2> HIDE DEF o, u, p, c, S
  <2>3. u \in ShapedTrees
    BY <2>1, InsertStays DEF ShapedTrees
  <2>4. \A k \in DOMAIN u : u[k].next = NoNode
    BY <2>1, InsertIs
  <2>5. /\ LeavesOf(u, p) = LeavesOf(o, p) \cup Taken(o, c)
        /\ \A q \in Path \ {p} : LeavesOf(u, q) = LeavesOf(o, q)
    BY <2>1, InsertGives
  <2>6. \E k \in LeavesOf(u, paths[1]) : k = Weight[k]
    <3>1. CASE n = 1
      <4>1. o = EmptyTree /\ p = paths[1]
        BY <1>2, <3>1 DEF o, p
      <4>. QED
        BY <2>1, <2>5, <4>1, FirstTakesLeftmost
    <3>2. CASE n # 1
      <4>1. n - 1 >= 1 /\ 1 \in 1 .. N
        BY <1>0, <3>2
      <4>2. paths[1] \in Path \ {p}
        BY <1>0, <3>2, <4>1 DEF Distinct, p
      <4>. QED
        BY <2>2, <2>5, <4>1, <4>2
    <3>. QED
      BY <3>1, <3>2
  <2>. QED
    BY <2>1, <2>3, <2>4, <2>6 DEF S, u
<1>5. N \in S
  <2>1. \A n \in 1 .. N : n - 1 \in S => n \in S
    BY <1>4
  <2>2. N \in 0 .. N
    BY <1>0
  <2> HIDE DEF S
  <2>. QED
    BY <1>0, <1>3, <2>1, <2>2, CountUp
<1>. QED
  BY <1>0, <1>1, <1>5

\* No node of a new tree was left to the left.
Fresh(t) == \A k \in DOMAIN t : t[k].next # 2 * k

\* Overlapping the trees sets nodes to the right only,
LEMMA OverlapIsFresh ==
  ASSUME NEW old \in Trees, NEW t \in ShapedTrees, \A k \in DOMAIN t : t[k].next = NoNode
  PROVE  Fresh(OverlapTrees(old, t))
<1> DEFINE u == OverlapTrees(old, t)
<1>1. DOMAIN u = DOMAIN t
  BY DEF OverlapTrees
<1>2. ASSUME NEW k \in DOMAIN t PROVE u[k].next # 2 * k
  <2>1. t \in Trees /\ k \in Node /\ t[k] \in NodeRecords
    BY TreeIs DEF ShapedTrees
  <2>2. k \in Nat /\ k >= 1 /\ RightOf(t, k) = IF 2 * k + 1 \in DOMAIN t THEN 2 * k + 1 ELSE 0
    BY <2>1, ChildrenAre
  <2>3. u[k].next \in {t[k].next, RightOf(t, k)}
    <3>1. u[k] = t[k] \/ u[k] = [t[k] EXCEPT !.next = RightOf(t, k)]
      BY DEF OverlapTrees
    <3>2. [t[k] EXCEPT !.next = RightOf(t, k)].next = RightOf(t, k)
      BY <2>1 DEF NodeRecords
    <3> HIDE DEF u
    <3>. QED
      BY <3>1, <3>2
  <2> HIDE DEF u
  <2>. QED
    BY <2>2, <2>3 DEF NoNode
<1>. QED
  BY <1>1, <1>2 DEF Fresh

\* so that the first walk turns left everywhere.
LEMMA FreshSelectsLeftmost ==
  ASSUME NEW t \in Trees, Shaped(t), Full(t), Fresh(t), NEW k \in DOMAIN t, Owned(t, k), k = Weight[k]
  PROVE  Selected(t) = k
<1> DEFINE S == {m \in Node : m \in DOMAIN t /\ m = Weight[m] => Reached(t)[m]}
<1>1. ASSUME NEW m \in Node, m # Root => Parent(m) \in S PROVE m \in S
  <2>1. SUFFICES ASSUME m \in DOMAIN t, m = Weight[m] PROVE Reached(t)[m]
    OBVIOUS
  <2>2. CASE m = Root
    BY <2>1, <2>2, ReachedIs
  <2>3. CASE m # Root
    <3> DEFINE a == Parent(m)
    <3>1. m = 2 * a /\ a = Weight[a]
      BY <2>1, <2>3, LeftmostIs
    <3>2. a \in DOMAIN t /\ ~ Owned(t, a) /\ a \in Node
      BY <2>1, <2>3, Nodes DEF Shaped
    <3> HIDE DEF a
    <3>3. LeftOf(t, a) = 2 * a
      BY <2>1, <3>1, <3>2, ChildrenAre
    <3>4. t[a].next # 2 * a
      BY <3>2 DEF Fresh
    <3>5. Turn(t, a) = m
      BY <3>1, <3>3, <3>4 DEF Turn
    <3>6. Reached(t)[a]
      BY <1>1, <2>3, <3>1, <3>2 DEF a
    <3>. QED
      BY <2>1, <2>3, <3>5, <3>6, ReachedIs DEF a
  <2>. QED
    BY <2>2, <2>3
<1>2. \A m \in Node : m \in S
  <2> HIDE DEF S
  <2>. QED
    BY <1>1, FromTheRoot
<1>3. k \in Node /\ Reached(t)[k]
  BY <1>2, TreeIs
<1>4. Childless(t, k)
  <2>1. ASSUME NEW m \in {2 * k, 2 * k + 1}, m \in DOMAIN t PROVE FALSE
    <3>1. k \in Nat /\ k >= 1 /\ Parent(m) = k /\ m # Root
      <4>1. k \in Nat /\ k >= 1
        BY <1>3, ChildrenAre
      <4>2. m # Root
        BY <2>1, <4>1 DEF Root
      <4>. QED
        BY <2>1, <4>1, <4>2, Nodes
    <3>. QED
      BY <2>1, <3>1 DEF Shaped
  <2>. QED
    BY <1>3, <2>1, ChildrenAre
<1>. QED
  BY <1>3, <1>4, EndsAtOne

\* p is the first of the list that is in the tree.
Newest(t, p) ==
  \E i \in 1 .. Len(subflows) : /\ subflows[i] = p /\ p \in InTree(t)
                                /\ \A j \in 1 .. i - 1 : subflows[j] \notin InTree(t)

\* The walk down t is due at the leftmost leaf, which is the newest subflow's.
FirstUp(t) ==
  DOMAIN t # {} =>
    Fresh(t) /\ \E k \in DOMAIN t : Owned(t, k) /\ k = Weight[k] /\ Newest(t, t[k].path)

FirstInv == packets \in Nat /\ (packets = 0 => FirstUp(schtree.root))

\* A run puts the newest of the subflows that it schedules there.
LEMMA PutFirst ==
  ASSUME ListInv, Planted(schtree), NEW f, \A p \in Path : Steady(f[p]),
         NEW s, s = Batch(f), NEW v, v = AdjustedValues(s.path_values),
         NEW t, t = BuildTree(s.paths, v), NEW u, u = CreateAndReplace(s)
  PROVE  FirstUp(u.root)
<1> DEFINE w == u.root
           L == Len(s.paths)
<1>1. Made(f, s, v, t, u) /\ Planted(u)
  BY RunMakes
<1>2. /\ s.paths \in Seq(Path) /\ Distinct(s.paths) /\ L \in Nat /\ IsBatch(s, f, Len(subflows))
      /\ v \in Seq(Nat) /\ Len(v) = L /\ t \in ShapedTrees /\ (L = 0 => DOMAIN t = {})
      /\ w = OverlapTrees(schtree.root, t) /\ w \in Trees /\ DOMAIN w = DOMAIN t
      /\ \A k \in DOMAIN t : w[k].path = t[k].path
      /\ InTree(w) \subseteq {s.paths[i] : i \in 1 .. L}
  BY <1>1 DEF Made
<1>3. SUFFICES ASSUME DOMAIN w # {}
               PROVE  Fresh(w) /\ \E k \in DOMAIN w : Owned(w, k) /\ k = Weight[k] /\ Newest(w, w[k].path)
  BY DEF FirstUp
<1> HIDE DEF w
<1>4. L >= 1 /\ s.paths # << >> /\ s.paths[1] \in Path
  BY <1>2, <1>3
<1>5. /\ \E k \in LeavesOf(t, s.paths[1]) : k = Weight[k]
      /\ \A k \in DOMAIN t : t[k].next = NoNode
  BY <1>2, <1>4, BuildPutsFirstLeft
<1>6. Fresh(w)
  BY <1>2, <1>5, OverlapIsFresh DEF Planted
<1>7. PICK k \in LeavesOf(t, s.paths[1]) : k = Weight[k]
  BY <1>5
<1>8. k \in DOMAIN w /\ w[k].path = s.paths[1] /\ Owned(w, k) /\ s.paths[1] \in InTree(w)
  <2>1. k \in DOMAIN w /\ w[k].path = s.paths[1] /\ s.paths[1] # NoPath
    BY <1>2, <1>4, <1>7, SchTreeAssumption DEF LeavesOf
  <2>. QED
    BY <2>1 DEF Owned, InTree
<1>9. Newest(w, s.paths[1])
  <2>1. PICK m \in 1 .. Len(subflows) : /\ s.paths[1] = subflows[m]
                                        /\ \A j \in 1 .. m - 1 : ~ Schedulable(f[subflows[j]])
    BY <1>2, <1>4 DEF IsBatch, NewestFirst
  <2>2. ASSUME NEW j \in 1 .. m - 1, subflows[j] \in InTree(w) PROVE FALSE
    <3>1. PICK i \in 1 .. L : s.paths[i] = subflows[j]
      BY <1>2, <2>2
    <3>2. Schedulable(f[s.paths[i]])
      BY <1>2, <3>1 DEF IsBatch, Valued
    <3>. QED
      BY <2>1, <3>1, <3>2
  <2>. QED
    BY <1>8, <2>1, <2>2 DEF Newest
<1>. QED
  BY <1>6, <1>7, <1>8, <1>9

LEMMA NoListNoTree ==
  ASSUME Planted(schtree), Listed = {}
  PROVE  DOMAIN schtree.root = {}
<1> DEFINE t == schtree.root
<1>1. t \in Trees /\ Shaped(t) /\ InTree(t) = {}
  BY DEF Planted
<1>2. SUFFICES ASSUME DOMAIN t # {} PROVE FALSE
  OBVIOUS
<1> HIDE DEF t
<1>3. PICK k \in DOMAIN t : Owned(t, k)
  BY <1>1, <1>2, HasRoot, HasLeaf
<1>4. t[k].path \in InTree(t)
  BY <1>3 DEF Owned, InTree
<1>. QED
  BY <1>1, <1>4

LEMMA FirstStarts == DispatchInit => FirstInv
<1>1. DOMAIN InitTree.root = {}
  BY EmptyTreeIs DEF InitTree
<1>. QED
  BY <1>1 DEF DispatchInit, FirstInv, FirstUp

LEMMA FirstKeeps == DispatchInv /\ FirstInv /\ [DispatchNext]_dispatchVars => FirstInv'
<1>1. SUFFICES ASSUME DispatchInv, FirstInv, [DispatchNext]_dispatchVars PROVE FirstInv'
  OBVIOUS
<1>2. ASSUME UNCHANGED <<subflows, schtree, packets>> PROVE FirstInv'
  BY <1>1, <1>2 DEF FirstInv, FirstUp, Newest
<1>3. ASSUME NEW p \in Path, RequestPad(p) PROVE FirstInv'
  <2> DEFINE N == Len(subflows)
             t == schtree.root
  <2>1. /\ p \notin Listed /\ subflows' = <<p>> \o subflows /\ UNCHANGED <<schtree, packets>>
        /\ subflows \in Seq(Path) /\ InTree(t) \subseteq Listed
    BY <1>1, <1>3 DEF RequestPad, DispatchInv, ListInv, Planted
  <2>2. /\ Len(subflows') = N + 1 /\ N \in Nat
        /\ subflows'[1] = p /\ \A i \in 2 .. N + 1 : subflows'[i] = subflows[i - 1]
    BY <2>1
  <2>3. ASSUME NEW q, Newest(t, q) PROVE Newest(t, q)'
    <3>1. PICK i \in 1 .. N : /\ subflows[i] = q /\ q \in InTree(t)
                              /\ \A j \in 1 .. i - 1 : subflows[j] \notin InTree(t)
      BY <2>3 DEF Newest
    <3>2. i + 1 \in 1 .. N + 1 /\ i + 1 \in 2 .. N + 1 /\ (i + 1) - 1 = i
      BY <2>2
    <3>3. subflows'[i + 1] = q
      BY <2>2, <3>1, <3>2
    <3>4. ASSUME NEW j \in 1 .. (i + 1) - 1 PROVE subflows'[j] \notin InTree(t)
      <4>1. CASE j = 1
        BY <2>1, <2>2, <4>1
      <4>2. CASE j # 1
        <5>1. j \in 2 .. N + 1 /\ j - 1 \in 1 .. i - 1
          BY <2>2, <4>2
        <5>. QED
          BY <2>2, <3>1, <5>1
      <4>. QED
        BY <4>1, <4>2
    <3>5. InTree(t)' = InTree(t)
      BY <2>1 DEF InTree
    <3>. QED
      BY <2>2, <3>1, <3>2, <3>3, <3>4, <3>5 DEF Newest
  <2>. QED
    BY <1>1, <2>1, <2>3 DEF FirstInv, FirstUp
<1>4. ASSUME SchedulerRun PROVE FirstInv'
  <2>1. /\ UNCHANGED subflows /\ packets' = 0
        /\ schtree' = IF subflows = << >> THEN schtree ELSE CreateAndReplace(Batch(sf'))
    BY <1>4 DEF SchedulerRun
  <2>2. FirstUp(schtree'.root)
    <3>1. CASE subflows = << >>
      <4>1. DOMAIN schtree.root = {}
        BY <1>1, <3>1, NoListNoTree DEF DispatchInv, Listed
      <4>. QED
        BY <2>1, <3>1, <4>1 DEF FirstUp
    <3>2. CASE subflows # << >>
      <4>1. FirstUp(CreateAndReplace(Batch(sf')).root)
        BY <1>1, <1>4, RunIsSteady, PutFirst DEF DispatchInv
      <4>. QED
        BY <2>1, <3>2, <4>1
    <3>. QED
      BY <3>1, <3>2
  <2>. QED
    BY <2>1, <2>2 DEF FirstInv, FirstUp, Newest
<1>5. ASSUME RtpPacket PROVE FirstInv'
  <2>1. packets' = IF packets = MaxValue THEN MaxValue ELSE packets + 1
    BY <1>5 DEF RtpPacket
  <2>2. packets \in Nat /\ MaxValue \in Nat \ {0}
    BY <1>1, SchTreeAssumption DEF FirstInv
  <2>3. packets' \in Nat /\ packets' # 0
    BY <2>1, <2>2
  <2>. QED
    BY <2>3 DEF FirstInv
<1>6. ASSUME NEW p \in Path, SrcLink(p) \/ SrcUnlink(p) PROVE FirstInv'
  BY <1>2, <1>6 DEF SrcLink, SrcUnlink
<1>. QED
  BY <1>1, <1>2, <1>3, <1>4, <1>5, <1>6 DEF DispatchNext, dispatchVars

LEMMA FirstInvHolds == DispatchSpec => []FirstInv
BY DispatchInvHolds, FirstStarts, FirstKeeps, PTL DEF DispatchSpec

\* After every run the first packet goes to the newest subflow of the tree,
\* wherever the last draw was, for any number of subflows and any rates.
THEOREM FirstPacketIsTheNewest == DispatchSpec => FirstPacketToNewest
<1> DEFINE t == schtree.root
           First(i) == /\ subflows[i] \in InTree(t)
                       /\ \A j \in 1 .. (i - 1) : subflows[j] \notin InTree(t)
           ToFirst == RtpPacket /\ packets = 0 =>
                        last' = subflows[CHOOSE i \in 1 .. Len(subflows) : First(i)]
<1>1. DispatchInv /\ FirstInv /\ [DispatchNext]_dispatchVars => [ToFirst]_dispatchVars
  <2>1. SUFFICES ASSUME DispatchInv, FirstInv, RtpPacket, packets = 0
                 PROVE  last' = subflows[CHOOSE i \in 1 .. Len(subflows) : First(i)]
    OBVIOUS
  <2>2. /\ t \in Trees /\ Shaped(t) /\ Full(t) /\ DOMAIN t # {} /\ FirstUp(t)
        /\ last' = NextPath(schtree) /\ subflows \in Seq(Path)
    BY <2>1 DEF DispatchInv, ListInv, Planted, FirstInv, RtpPacket
  <2>3. PICK k \in DOMAIN t : Fresh(t) /\ Owned(t, k) /\ k = Weight[k] /\ Newest(t, t[k].path)
    BY <2>2 DEF FirstUp
  <2>4. Selected(t) = k /\ k # NoNode
    <3> HIDE DEF t
    <3>1. k \in Node /\ NoNode \notin Node
      BY <2>2, TreeIs DEF Node, NoNode
    <3>. QED
      BY <2>2, <2>3, <3>1, FreshSelectsLeftmost
  <2>5. last' = t[k].path
    BY <2>2, <2>4 DEF NextPath
  <2>6. PICK i \in 1 .. Len(subflows) : subflows[i] = t[k].path /\ First(i)
    BY <2>3 DEF Newest
  <2>7. ASSUME NEW j \in 1 .. Len(subflows), First(j) PROVE j = i
    <3>1. i \in Int /\ j \in Int /\ i >= 1 /\ j >= 1
      BY <2>2
    <3>2. CASE j < i
      <4>1. j \in 1 .. (i - 1)
        BY <3>1, <3>2
      <4>. QED
        BY <2>6, <2>7, <4>1
    <3>3. CASE i < j
      <4>1. i \in 1 .. (j - 1)
        BY <3>1, <3>3
      <4>. QED
        BY <2>6, <2>7, <4>1
    <3>. QED
      BY <3>1, <3>2, <3>3
  <2> HIDE DEF First
  <2>8. (CHOOSE j \in 1 .. Len(subflows) : First(j)) = i
    BY <2>6, <2>7
  <2>. QED
    BY <2>5, <2>6, <2>8
<1>. QED
  BY <1>1, DispatchInvHolds, FirstInvHolds, PTL DEF DispatchSpec, FirstPacketToNewest

-----------------------------------------------------------------------------
(* Shares and rates.                                                       *)

\* No path has more than one half of a unit.
OneHalf(t) ==
  /\ Halves(t) \subseteq HalfNodes
  /\ \A p \in Path : \A j, k \in LeavesOf(t, p) : LevelValue[j] = 0 /\ LevelValue[k] = 0 => j = k

\* Every path comes once, and takes one half at most.
LEMMA BuildHalves ==
  ASSUME NEW paths \in Seq(Path), NEW values \in Seq(Nat), Len(values) = Len(paths), Distinct(paths)
  PROVE  OneHalf(BuildTree(paths, values))
<1> DEFINE N == Len(paths)
<1>0. N \in Nat /\ \A n \in 1 .. N : paths[n] \in Path /\ values[n] \in Nat
  OBVIOUS
<1>1. PICK b : IsBuilt(b, paths, values) /\ BuildTree(paths, values) = b[N]
  BY BuiltIs
<1>2. b[0] = EmptyTree /\ \A n \in 1 .. N : b[n] = Insert(b[n - 1], paths[n], values[n])
  BY <1>1 DEF IsBuilt
<1> DEFINE Alone(n) == \A p \in Path : (\A i \in 1 .. n : paths[i] # p) => LeavesOf(b[n], p) = {}
           S == {n \in 0 .. N : b[n] \in ShapedTrees /\ OneHalf(b[n]) /\ Alone(n)}
<1>3. 0 \in S
  BY <1>0, <1>2, EmptyTreeIs DEF OneHalf, Halves, LeavesOf
<1>4. ASSUME NEW n \in 1 .. N, n - 1 \in S PROVE n \in S
  <2> DEFINE o == b[n - 1]
             u == b[n]
             p == paths[n]
             c == values[n]
  <2>1. /\ n \in 0 .. N /\ n \in Nat /\ n >= 1 /\ p \in Path /\ c \in Nat /\ u = Insert(o, p, c)
        /\ o \in Trees /\ Shaped(o) /\ OneHalf(o)
    BY <1>0, <1>2, <1>4 DEF ShapedTrees
  <2>2. \A q \in Path : (\A i \in 1 .. n - 1 : paths[i] # q) => LeavesOf(o, q) = {}
    BY <1>4
  <2> HIDE DEF o, u, p, c, S
  <2>3. u \in ShapedTrees
    BY <2>1, InsertStays DEF ShapedTrees
  <2>4. /\ LeavesOf(u, p) = LeavesOf(o, p) \cup Taken(o, c)
        /\ \A q \in Path \ {p} : LeavesOf(u, q) = LeavesOf(o, q)
    BY <2>1, InsertGives
  <2>5. LeavesOf(o, p) = {}
    <3>1. \A i \in 1 .. n - 1 : paths[i] # p
      <4>1. \A i \in 1 .. n - 1 : i \in 1 .. N /\ i # n
        BY <1>0, <2>1
      <4>. QED
        BY <4>1 DEF Distinct, p
    <3>. QED
      BY <2>1, <2>2, <3>1
  <2>6. /\ Halves(u) \subseteq HalfNodes
        /\ \A j, k \in Taken(o, c) : LevelValue[j] = 0 /\ LevelValue[k] = 0 => j = k
    BY <2>1, HalvesAreOne DEF OneHalf
  <2>7. ASSUME NEW q \in Path, NEW j \in LeavesOf(u, q), NEW k \in LeavesOf(u, q),
               LevelValue[j] = 0, LevelValue[k] = 0
        PROVE  j = k
    <3>1. CASE q = p
      BY <2>4, <2>5, <2>6, <2>7, <3>1
    <3>2. CASE q # p
      BY <2>1, <2>4, <2>7, <3>2 DEF OneHalf
    <3>. QED
      BY <3>1, <3>2
  <2>8. ASSUME NEW q \in Path, \A i \in 1 .. n : paths[i] # q PROVE LeavesOf(u, q) = {}
    <3>1. q # p /\ \A i \in 1 .. n - 1 : paths[i] # q
      BY <2>1, <2>8 DEF p
    <3>. QED
      BY <2>2, <2>4, <3>1
  <2>9. OneHalf(u)
    BY <2>6, <2>7 DEF OneHalf
  <2>. QED
    BY <2>1, <2>3, <2>8, <2>9 DEF S, u
<1>5. N \in S
  <2>1. \A n \in 1 .. N : n - 1 \in S => n \in S
    BY <1>4
  <2>2. N \in 0 .. N
    BY <1>0
  <2> HIDE DEF S
  <2>. QED
    BY <1>0, <1>3, <2>1, <2>2, CountUp
<1>. QED
  BY <1>1, <1>5

\* Units counts a half of a unit for nothing.
LEMMA UnitsAre ==
  ASSUME NEW t \in Trees, OneHalf(t), NEW p \in Path
  PROVE  Units(t, p) \in Nat /\ UnitsIn(t, p) \in {2 * Units(t, p), 2 * Units(t, p) + 1}
<1> DEFINE L == LeavesOf(t, p)
           f == [k \in L |-> HalfValue(k)]
           g == [k \in L |-> 2 * LevelValue[k]]
           h == [k \in L |-> LevelValue[k]]
<1>1. /\ L \subseteq Node /\ IsFiniteSet(L) /\ \A k \in L : LevelValue[k] \in Nat /\ HalfValue(k) \in Nat
      /\ \A j, k \in L : LevelValue[j] = 0 /\ LevelValue[k] = 0 => j = k
  BY LeavesAreFinite, LevelValueIs DEF OneHalf
<1>2. Units(t, p) = SumFunction(h) /\ UnitsIn(t, p) = SumFunction(f)
  BY DEF Units, Leaves, UnitsIn, LeavesOf
<1> HIDE DEF L
<1>3. f \in [L -> Nat] /\ g \in [L -> Nat] /\ h \in [L -> Nat]
  BY <1>1
<1>4. SumFunction(h) \in Nat /\ SumFunction(g) = 2 * SumFunction(h)
  <2>1. \A k \in L : g[k] = 2 * h[k]
    OBVIOUS
  <2> HIDE DEF g, h
  <2>. QED
    BY <1>1, <1>3, <2>1, SumTwice, SumWithout
<1>5. SumFunction(f) \in Nat
  <2> HIDE DEF f
  <2>. QED
    BY <1>1, <1>3, SumWithout
<1>6. \A k \in L : LevelValue[k] # 0 => f[k] = g[k]
  BY DEF HalfValue
<1>7. CASE \A k \in L : LevelValue[k] # 0
  <2>1. f = g
    BY <1>1, <1>7 DEF HalfValue
  <2>. QED
    BY <1>2, <1>4, <2>1
<1>8. ASSUME NEW x \in L, LevelValue[x] = 0 PROVE SumFunction(f) = SumFunction(g) + 1
  <2>1. \A y \in L \ {x} : f[y] = g[y]
    BY <1>1, <1>6, <1>8
  <2>2. f[x] = 1 /\ g[x] = 0
    BY <1>8 DEF HalfValue
  <2> HIDE DEF f, g
  <2>3. SumFunction(g) + f[x] = SumFunction(f) + g[x]
    BY <1>1, <1>3, <2>1, SumOfChange
  <2>. QED
    BY <1>4, <1>5, <2>2, <2>3
<1> HIDE DEF f, g, h
<1>. QED
  BY <1>2, <1>4, <1>7, <1>8

\* The rest raises one value.
LEMMA AdjustedBounds ==
  ASSUME NEW v \in Seq(Nat), Total(v) \in Nat, Total(v) <= MaxValue, NEW i \in 1 .. Len(v)
  PROVE  AdjustedValues(v)[i] \in v[i] .. v[i] + (MaxValue - Total(v))
<1> DEFINE m == MaxIndex(v)
           w == AdjustedValues(v)
           x == v[i]
           T == Total(v)
<1>1. x \in Nat /\ MaxValue \in Nat /\ T \in Nat
  BY SchTreeAssumption
<1>2. v # << >> /\ i \in DOMAIN v
  OBVIOUS
<1>3. w = [v EXCEPT ![m] = @ + MaxValue - T]
  BY <1>2 DEF AdjustedValues
<1> HIDE DEF m, T
<1>4. w[i] = IF i = m THEN x + MaxValue - T ELSE x
  BY <1>2, <1>3
<1> HIDE DEF w, x
<1>5. w[i] \in x .. x + (MaxValue - T)
  BY <1>1, <1>4 DEF T
<1>. QED
  BY <1>5 DEF w, x, T

LEMMA TimesMore ==
  ASSUME NEW s \in Nat, NEW a \in Nat, NEW b \in Nat, a <= b
  PROVE  s * a \in Nat /\ s * b \in Nat /\ s * a <= s * b
<1>1. PICK d \in Nat : b = a + d
  <2>1. b - a \in Nat /\ b = a + (b - a)
    OBVIOUS
  <2>. QED
    BY <2>1
<1>2. s * b = s * a + s * d /\ s * a \in Nat /\ s * d \in Nat
  BY <1>1
<1>. QED
  BY <1>2

\* A share w that differs from the value by less than the number n of paths.
LEMMA InProportion ==
  ASSUME NEW S \in Nat, S > 0, NEW w \in Nat, NEW val \in Nat, NEW n \in Nat, NEW X \in Nat,
         S * val <= X, X + 1 <= S * val + S, val + 1 <= w + n, w + 1 <= val + n
  PROVE  X - n * S < w * S /\ w * S < X + n * S
<1> DEFINE a == S * val
           b == S * w
           c == S * n
<1>1. a + S <= b + c
  <2>1. S * (val + 1) <= S * (w + n)
    BY TimesMore
  <2>2. S * (val + 1) = S * val + S /\ S * (w + n) = S * w + S * n
    OBVIOUS
  <2>. QED
    BY <2>1, <2>2
<1>2. b + S <= a + c
  <2>1. S * (w + 1) <= S * (val + n)
    BY TimesMore
  <2>2. S * (w + 1) = S * w + S /\ S * (val + n) = S * val + S * n
    OBVIOUS
  <2>. QED
    BY <2>1, <2>2
<1>3. a \in Nat /\ b \in Nat /\ c \in Nat /\ n * S = c /\ w * S = b
  OBVIOUS
<1>4. a <= X /\ X + 1 <= a + S
  OBVIOUS
<1> HIDE DEF a, b, c
<1>5. X - c < b /\ b < X + c
  BY <1>1, <1>2, <1>3, <1>4
<1>. QED
  BY <1>3, <1>5

LEMMA OneValue ==
  ASSUME NEW v \in Seq(Nat)
  PROVE  Len(v) = 1 => v[1] = Total(v)
<1>1. PICK s : IsSum(s, v) /\ Total(v) = s[Len(v)]
  <2>1. v \in Seq(Int)
    OBVIOUS
  <2>. QED
    BY <2>1, TotalIs
<1>2. s[0] = 0 /\ \A n \in 1 .. Len(v) : s[n] = s[n - 1] + v[n]
  BY <1>1 DEF IsSum
<1>3. \A n \in 1 .. Len(v) : v[n] \in Nat
  OBVIOUS
<1> DEFINE N == Len(v)
<1> HIDE DEF N
<1>4. N = 1 => v[N] \in Nat /\ s[N] = s[N - 1] + v[N]
  BY <1>2, <1>3 DEF N
<1>5. N = 1 => N - 1 = 0
  OBVIOUS
<1>. QED
  BY <1>1, <1>2, <1>4, <1>5 DEF N

\* What a path of the batch has of the tree, in units, and its value.
LEMMA UnitsOfRun ==
  ASSUME ListInv, Planted(schtree), NEW f, \A p \in Path : Steady(f[p]),
         NEW s, s = Batch(f), NEW v, v = AdjustedValues(s.path_values),
         NEW t, t = BuildTree(s.paths, v), NEW u, u = CreateAndReplace(s),
         NEW i \in 1 .. Len(s.paths)
  PROVE  LET p == s.paths[i]
             w == Units(u.root, p)
             val == RateValue(f, p)
             n == Len(s.paths)
         IN  /\ p \in Path /\ w \in Nat /\ val \in Nat /\ n \in Nat
             /\ val + 1 <= w + n /\ w + 1 <= val + n
<1> DEFINE p == s.paths[i]
           n == Len(s.paths)
           val == RateValue(f, p)
           w == Units(t, p)
           x == v[i]
           T == Total(s.path_values)
<1>1. Made(f, s, v, t, u)
  BY RunMakes
<1>2. /\ s.paths \in Seq(Path) /\ Distinct(s.paths) /\ n \in Nat /\ n >= 1 /\ p \in Path
      /\ s.path_values \in Seq(Nat) /\ Len(s.path_values) = n
      /\ IsBatch(s, f, Len(subflows))
      /\ v \in Seq(Nat) /\ Len(v) = n /\ Total(v) = MaxValue /\ t \in Trees
      /\ DOMAIN u.root = DOMAIN t /\ \A k \in DOMAIN t : u.root[k].path = t[k].path
  BY <1>1 DEF Made, ShapedTrees
<1>3. Units(u.root, p) = w
  <2>1. Leaves(u.root, p) = Leaves(t, p)
    BY <1>2 DEF Leaves
  <2>. QED
    BY <2>1 DEF Units
<1>4. T \in Nat /\ T <= MaxValue /\ MaxValue < T + n /\ MaxValue \in Nat \ {0}
  <2>1. Rated(f) /\ schtree \in Batches
    BY SteadyIsRated, PlantedIsBatch
  <2>2. subflows \in Seq(Path) /\ Distinct(subflows) /\ schtree.paths = << >> /\ schtree.path_values = << >>
    BY DEF ListInv, Planted
  <2>3. T \in Nat /\ T <= MaxValue /\ (n # 0 => MaxValue < T + n)
    BY <2>1, <2>2, BatchFits
  <2>. QED
    BY <1>2, <2>3, SchTreeAssumption
<1>5. s.path_values[i] = val /\ val \in Nat
  <2>1. Valued(s, f, Len(subflows))
    BY <1>2 DEF IsBatch
  <2>2. s.path_values[i] = val
    BY <2>1 DEF Valued
  <2>3. s.path_values[i] \in Nat
    BY <1>2
  <2>. QED
    BY <2>2, <2>3
<1>6. x \in val .. val + (MaxValue - T)
  <2>1. v[i] \in s.path_values[i] .. s.path_values[i] + (MaxValue - Total(s.path_values))
    BY <1>2, <1>4, AdjustedBounds
  <2>. QED
    BY <1>5, <2>1
<1>7. /\ UnitsIn(t, p) - 2 * x \in -2 .. 1
      /\ v[1] # 0 => UnitsIn(t, p) = 2 * x
  BY <1>2, BuildDeals DEF Dealt
<1>8. w \in Nat /\ UnitsIn(t, p) \in {2 * w, 2 * w + 1}
  BY <1>2, BuildHalves, UnitsAre
<1>9. n = 1 => v[1] # 0
  BY <1>2, <1>4, OneValue
<1> DEFINE y == UnitsIn(t, p)
<1>10. n = 1 => y = 2 * x
  BY <1>7, <1>9
<1>11. w <= x /\ x <= w + 1 /\ (n = 1 => x = w)
  <2>1. y - 2 * x \in -2 .. 1 /\ y \in {2 * w, 2 * w + 1} /\ x \in Nat /\ w \in Nat
    BY <1>4, <1>5, <1>6, <1>7, <1>8
  <2> HIDE DEF y, x, w
  <2>. QED
    BY <1>10, <2>1
<1>12. val + 1 <= w + n /\ w + 1 <= val + n
  <2> HIDE DEF w, x, n, val, T
  <2>1. x \in Nat /\ val <= x /\ x + T <= val + MaxValue
    BY <1>4, <1>5, <1>6
  <2>. QED
    BY <1>2, <1>4, <1>5, <1>8, <1>11, <2>1
<1>. QED
  BY <1>2, <1>3, <1>5, <1>8, <1>12

\* The tree of an empty list is empty.
LEMMA NoListNoRates ==
  ASSUME DispatchInv, SchedulerRun, NEW p \in InTree(schtree'.root)
  PROVE  subflows # << >>
<1>1. SUFFICES ASSUME subflows = << >> PROVE FALSE
  OBVIOUS
<1>2. Listed = {} /\ schtree' = schtree
  BY <1>1 DEF Listed, SchedulerRun
<1>. QED
  BY <1>2 DEF DispatchInv, Planted

\* A subflow's part of the tree is its part of the rates, to within one unit
\* for each active subflow, the rounding and the rest included.
THEOREM SharesFollowTheRates == DispatchSpec => SharesProportional
<1> DEFINE s == Batch(sf')
           n == Len(s.paths)
           exact(p) == MaxValue * sf'[p].SR
           given(p) == Units(schtree'.root, p) * RateSum(sf')
           slack == n * RateSum(sf')
           Proportional == SchedulerRun => \A p \in InTree(schtree'.root) :
                             exact(p) - slack < given(p) /\ given(p) < exact(p) + slack
<1>1. DispatchInv /\ [DispatchNext]_dispatchVars => [Proportional]_dispatchVars
  <2>1. SUFFICES ASSUME DispatchInv, SchedulerRun, NEW p \in InTree(schtree'.root)
                 PROVE  exact(p) - slack < given(p) /\ given(p) < exact(p) + slack
    OBVIOUS
  <2>2. \A q \in Path : Steady(sf'[q])
    BY <2>1, RunIsSteady
  <2>3. schtree' = CreateAndReplace(s)
    BY <2>1, NoListNoRates DEF SchedulerRun
  <2> DEFINE v == AdjustedValues(s.path_values)
             t == BuildTree(s.paths, v)
             S == RateSum(sf')
             w == Units(schtree'.root, p)
             val == RateValue(sf', p)
             X == MaxValue * sf'[p].SR
  <2>4. ListInv /\ Planted(schtree)
    BY <2>1 DEF DispatchInv
  <2> HIDE DEF s
  <2>5. PICK i \in 1 .. n : s.paths[i] = p
    <3>1. Made(sf', s, v, t, schtree')
      <4> HIDE DEF v, t
      <4>. QED
        BY <2>2, <2>3, <2>4, RunMakes DEF s, v, t
    <3>. QED
      BY <3>1 DEF Made
  <2>6. p \in Path /\ w \in Nat /\ val \in Nat /\ n \in Nat /\ val + 1 <= w + n /\ w + 1 <= val + n
    <3>1. LET q == s.paths[i]
          IN  /\ q \in Path /\ Units(schtree'.root, q) \in Nat /\ RateValue(sf', q) \in Nat /\ Len(s.paths) \in Nat
              /\ RateValue(sf', q) + 1 <= Units(schtree'.root, q) + Len(s.paths)
              /\ Units(schtree'.root, q) + 1 <= RateValue(sf', q) + Len(s.paths)
      <4> HIDE DEF v, t
      <4>. QED
        BY <2>2, <2>3, <2>4, UnitsOfRun DEF s, v, t
    <3>. QED
      BY <2>5, <3>1
  <2>7. S \in Nat /\ S > 0 /\ X \in Nat /\ S * val <= X /\ X + 1 <= S * val + S
    BY <2>2, <2>4, <2>6, SteadyIsRated, ValuesAre DEF ListInv
  <2> HIDE DEF S, w, val, n, X
  <2>8. X - n * S < w * S /\ w * S < X + n * S
    BY <2>6, <2>7, InProportion
  <2>. QED
    BY <2>8 DEF S, w, X
<1>. QED
  BY <1>1, DispatchInvHolds, PTL DEF DispatchSpec, SharesProportional

\* A sum is no more than one that has a term for each of its terms.
LEMMA SumEmbeds ==
  ASSUME NEW X, IsFiniteSet(X), NEW f \in [X -> Nat], NEW Y, IsFiniteSet(Y), NEW g \in [Y -> Nat],
         NEW h \in [X -> Y], \A x, y \in X : h[x] = h[y] => x = y, \A x \in X : f[x] <= g[h[x]]
  PROVE  SumFunction(f) <= SumFunction(g)
<1> DEFINE D == SUBSET X
           rank == [s \in D |-> Cardinality(s)]
           S == {s \in D : \A T \in SUBSET Y : (\A x \in s : h[x] \in T) => Sums(f)[s] <= Sums(g)[T]}
<1>1. rank \in [D -> Nat] /\ \A s \in D : IsFiniteSet(s)
  BY FS_Subset, FS_CardinalityType
<1>2. /\ Sums(f) \in [D -> Nat] /\ Sums(f)[{}] = 0 /\ Orderly(X, f)
      /\ Sums(g) \in [SUBSET Y -> Nat] /\ Orderly(Y, g)
  BY SumsAre, SumsInAnyOrder
<1>3. ASSUME NEW s \in D, \A r \in D : rank[r] < rank[s] => r \in S PROVE s \in S
  <2>1. SUFFICES ASSUME NEW T \in SUBSET Y, \A x \in s : h[x] \in T PROVE Sums(f)[s] <= Sums(g)[T]
    OBVIOUS
  <2>2. CASE s = {}
    <3>1. Sums(g)[T] \in Nat
      BY <1>2
    <3>. QED
      BY <1>2, <2>2, <3>1
  <2>3. CASE s # {}
    <3>1. PICK x \in s : TRUE
      BY <2>3
    <3> DEFINE r == s \ {x}
               U == T \ {h[x]}
    <3>2. r \in D /\ rank[r] < rank[s]
      <4>1. IsFiniteSet(s) /\ IsFiniteSet(r)
        BY <1>1, FS_Subset
      <4>2. Cardinality(r) < Cardinality(s)
        BY <3>1, <4>1, FS_RemoveElement, FS_CardinalityType
      <4>. QED
        BY <4>2
    <3>3. U \in SUBSET Y /\ \A y \in r : h[y] \in U
      BY <2>1, <3>1
    <3>4. Sums(f)[s] = f[x] + Sums(f)[r] /\ Sums(g)[T] = g[h[x]] + Sums(g)[U]
      BY <1>2, <2>1, <3>1 DEF Orderly
    <3>5. f[x] \in Nat /\ g[h[x]] \in Nat /\ f[x] <= g[h[x]] /\ Sums(f)[r] \in Nat /\ Sums(g)[U] \in Nat
      BY <1>2, <3>1, <3>2, <3>3
    <3> HIDE DEF r, U
    <3>6. Sums(f)[r] <= Sums(g)[U]
      BY <1>3, <3>2, <3>3
    <3>. QED
      BY <3>4, <3>5, <3>6
  <2>. QED
    BY <2>2, <2>3
<1>4. X \in S
  <2>1. \A s \in D : (\A r \in D : rank[r] < rank[s] => r \in S) => s \in S
    BY <1>3
  <2> HIDE DEF S, rank
  <2>2. D \subseteq S
    BY <1>1, <2>1, RankInduction
  <2>. QED
    BY <2>2
<1>5. Sums(f)[X] <= Sums(g)[Y]
  BY <1>4
<1>. QED
  BY <1>5, SumsSum

-----------------------------------------------------------------------------
(* The rates of the subflows by their age.                                 *)

\* Age: how many subflows there were when this one came, itself included.
Age(i) == Len(subflows) + 1 - i

\* A subflow has joined when there were at least so many.
AgeInv == \A i \in 1 .. Len(subflows) : Age(i) * sf[subflows[i]].SR <= RateUnit

\* All subflows together would have just the whole.
LEMMA Joins ==
  ASSUME subflows \in Seq(Path), Distinct(subflows), subflows # << >>
  PROVE  Len(subflows) * JoinRate = RateUnit
<1> DEFINE N == Len(subflows)
           R == RateUnit
<1>1. N \in Nat /\ N >= 1 /\ N <= Cardinality(Path)
  BY FewSubflows
<1>2. subflows[1] \in Path
  BY <1>1
<1>3. R \in Nat /\ N \in 1 .. Cardinality(Path)
  BY <1>1, <1>2, UnitIs
<1>4. R % N = 0
  BY <1>3, DispatchAssumption
<1> HIDE DEF N, R
<1>5. N * (R \div N) = R
  BY <1>1, <1>3, <1>4
<1>. QED
  BY <1>5 DEF N, R, JoinRate

\* A rate is set by joining and cleared by leaving, and by nothing else.
LEMMA RatesChange ==
  ASSUME NEW s, Steady(s)
  PROVE  /\ Link(s).SR = s.SR
         /\ Fire(s, "DETACHED", 0).SR \in {s.SR, 0}
         /\ Joined(s).SR \in {s.SR, JoinRate}
<1>1. s \in SubflowRecords /\ s.state \in {"none", "NON_CONGESTED", "PASSIVE"}
  BY DEF Steady, SubflowRecords, States
<1>2. Link(s).SR = s.SR
  BY <1>1 DEF Link, SubflowRecords
<1>3. Fire(s, "DETACHED", 0).SR \in {s.SR, 0}
  <2>1. CASE s.state = "none"
    BY <2>1 DEF Fire
  <2>2. CASE s.state = "NON_CONGESTED"
    <3>1. Fire(s, "DETACHED", 0) = Passive([s EXCEPT !.active = FALSE, !.linked = FALSE])
      BY <2>2 DEF Fire, FireNonCongested
    <3>. QED
      BY <1>1, <3>1 DEF Passive, SubflowRecords
  <2>3. CASE s.state = "PASSIVE"
    <3>1. Fire(s, "DETACHED", 0) = [s EXCEPT !.linked = FALSE, !.active = FALSE, !.SR = 0]
      BY <2>3 DEF Fire, FirePassive
    <3>. QED
      BY <1>1, <3>1 DEF SubflowRecords
  <2>. QED
    BY <1>1, <2>1, <2>2, <2>3
<1>4. Joined(s).SR \in {s.SR, JoinRate}
  <2>1. CASE ~ s.active /\ s.linked
    <3>1. s.state = "NON_CONGESTED"
      BY <2>1 DEF Steady
    <3>2. Joined(s) = [s EXCEPT !.active = TRUE, !.SR = JoinRate]
      BY <2>1, <3>1 DEF Joined, Fire, FireNonCongested
    <3>. QED
      BY <1>1, <3>2 DEF SubflowRecords
  <2>2. CASE ~ (~ s.active /\ s.linked)
    BY <2>2 DEF Joined
  <2>. QED
    BY <2>1, <2>2
<1>. QED
  BY <1>2, <1>3, <1>4

LEMMA AgeKeeps == DispatchInv /\ AgeInv /\ [DispatchNext]_dispatchVars => AgeInv'
<1>1. SUFFICES ASSUME DispatchInv, AgeInv, [DispatchNext]_dispatchVars PROVE AgeInv'
  OBVIOUS
<1> DEFINE N == Len(subflows)
<1>2. /\ subflows \in Seq(Path) /\ Distinct(subflows) /\ N \in Nat /\ sf \in [Path -> SubflowRecords]
      /\ \A i \in 1 .. N : subflows[i] \in Path /\ Age(i) \in Nat /\ Age(i) <= N
      /\ \A p \in Path : Steady(sf[p]) /\ sf[p].SR \in Nat
  <2>1. /\ subflows \in Seq(Path) /\ Distinct(subflows) /\ sf \in [Path -> SubflowRecords]
        /\ \A p \in Path : Steady(sf[p])
    BY <1>1 DEF DispatchInv, ListInv, RatesInv
  <2>2. \A i \in 1 .. N : subflows[i] \in Path /\ Age(i) \in Nat /\ Age(i) <= N
    BY <2>1 DEF Age
  <2>3. \A p \in Path : sf[p].SR \in Nat
    BY <2>1, SteadyIsRated DEF Rated
  <2>. QED
    BY <2>1, <2>2, <2>3
<1>3. ASSUME NEW a \in Nat, NEW n \in Nat, a <= n, NEW j \in Nat, n * j = RateUnit
      PROVE  a * j <= RateUnit
  <2>1. j * a <= j * n /\ j * a = a * j /\ j * n = n * j
    BY <1>3, TimesMore
  <2>. QED
    BY <1>3, <2>1
<1>4. ASSUME NEW p \in Path, RequestPad(p) PROVE AgeInv'
  <2>1. /\ p \notin Listed /\ subflows' = <<p>> \o subflows /\ sf' = sf /\ sf[p] = NewSubflow
    BY <1>1, <1>4 DEF RequestPad, DispatchInv, ListInv
  <2>2. /\ Len(subflows') = N + 1 /\ subflows'[1] = p
        /\ \A i \in 2 .. N + 1 : subflows'[i] = subflows[i - 1]
    BY <1>2, <2>1
  <2>3. ASSUME NEW i \in 1 .. N + 1 PROVE ((N + 1) + 1 - i) * sf[subflows'[i]].SR <= RateUnit
    <3>1. CASE i = 1
      <4>1. sf[subflows'[i]].SR = 0 /\ RateUnit \in Nat
        BY <2>1, <2>2, <3>1, UnitIs DEF NewSubflow
      <4>2. (N + 1) + 1 - i \in Nat
        BY <1>2
      <4>. QED
        BY <4>1, <4>2
    <3>2. CASE i # 1
      <4>1. i \in 2 .. N + 1 /\ i - 1 \in 1 .. N /\ (N + 1) + 1 - i = Age(i - 1)
        BY <1>2, <3>2 DEF Age
      <4>2. Age(i - 1) * sf[subflows[i - 1]].SR <= RateUnit
        BY <1>1, <4>1 DEF AgeInv
      <4>. QED
        BY <2>2, <4>1, <4>2
    <3>. QED
      BY <3>1, <3>2
  <2> HIDE DEF N
  <2>. QED
    BY <2>1, <2>2, <2>3 DEF AgeInv, Age
<1>5. ASSUME NEW p \in Path, SrcLink(p) PROVE AgeInv'
  <2>1. UNCHANGED subflows /\ sf' = [sf EXCEPT ![p] = Link(sf[p])]
    BY <1>5 DEF SrcLink
  <2>2. \A q \in Path : sf'[q].SR = sf[q].SR
    BY <1>2, <2>1, RatesChange
  <2>. QED
    BY <1>1, <1>2, <2>1, <2>2 DEF AgeInv, Age
<1>6. ASSUME NEW p \in Path, SrcUnlink(p) PROVE AgeInv'
  <2> DEFINE l == subflows[N]
  <2>1. UNCHANGED subflows /\ sf' = [sf EXCEPT ![l] = Fire(sf[l], "DETACHED", 0)]
    BY <1>6 DEF SrcUnlink
  <2>2. \A q \in Path : sf'[q].SR \in {sf[q].SR, 0}
    <3> HIDE DEF l
    <3>. QED
      BY <1>2, <2>1, RatesChange
  <2>3. ASSUME NEW i \in 1 .. N PROVE Age(i) * sf'[subflows[i]].SR <= RateUnit
    <3>1. CASE sf'[subflows[i]].SR = sf[subflows[i]].SR
      BY <1>1, <3>1 DEF AgeInv
    <3>2. CASE sf'[subflows[i]].SR = 0
      BY <1>2, <3>2, UnitIs
    <3>. QED
      BY <1>2, <2>2, <3>1, <3>2
  <2>. QED
    BY <2>1, <2>3 DEF AgeInv, Age
<1>7. ASSUME SchedulerRun PROVE AgeInv'
  <2>1. /\ UNCHANGED subflows
        /\ sf' = [p \in Path |-> IF p \in Listed THEN Joined(sf[p]) ELSE sf[p]]
    BY <1>7 DEF SchedulerRun
  <2>2. \A q \in Path : sf'[q].SR \in {sf[q].SR, JoinRate}
    BY <1>2, <2>1, RatesChange
  <2>3. N # 0 => JoinRate \in Nat /\ N * JoinRate = RateUnit
    <3>1. N # 0 => subflows # << >>
      BY <1>2
    <3>2. N # 0 => JoinRate \in 1 .. RateUnit /\ N * JoinRate = RateUnit
      BY <1>2, <3>1, JoinRateIs, Joins
    <3>. QED
      BY <3>2
  <2>4. ASSUME NEW i \in 1 .. N PROVE Age(i) * sf'[subflows[i]].SR <= RateUnit
    <3>1. CASE sf'[subflows[i]].SR = sf[subflows[i]].SR
      BY <1>1, <3>1 DEF AgeInv
    <3>2. CASE sf'[subflows[i]].SR = JoinRate
      <4>1. N # 0 /\ Age(i) \in Nat /\ Age(i) <= N
        BY <1>2
      <4>2. Age(i) * JoinRate <= RateUnit
        BY <1>2, <1>3, <2>3, <4>1
      <4>. QED
        BY <3>2, <4>2
    <3>. QED
      BY <1>2, <2>2, <3>1, <3>2
  <2>. QED
    BY <2>1, <2>4 DEF AgeInv, Age
<1>8. CASE UNCHANGED dispatchVars
  BY <1>1, <1>8 DEF dispatchVars, AgeInv, Age
<1>9. CASE RtpPacket
  BY <1>1, <1>9 DEF RtpPacket, AgeInv, Age
<1>. QED
  BY <1>1, <1>4, <1>5, <1>6, <1>7, <1>8, <1>9 DEF DispatchNext

LEMMA AgeInvHolds == DispatchSpec => []AgeInv
<1>1. DispatchInit => AgeInv
  BY DEF DispatchInit, AgeInv
<1>. QED
  BY <1>1, DispatchInvHolds, AgeKeeps, PTL DEF DispatchSpec

\* The most that the subflows have together, when each joined as it came.
Parts == [k \in 1 .. Cardinality(Path) |-> RateUnit \div k]

\* SR_sum is no more than that.
LEMMA RatesAddUp ==
  ASSUME subflows \in Seq(Path), Distinct(subflows), NEW f, \A q \in Path : Steady(f[q]), NEW p \in Path,
         \A i \in 1 .. Len(subflows) : Age(i) * f[subflows[i]].SR <= RateUnit
  PROVE  SumFunction(Parts) \in Nat /\ RateSum(f) <= SumFunction(Parts)
<1> DEFINE N == Len(subflows)
           C == Cardinality(Path)
           R == RateUnit
           X == 1 .. N
           Y == 1 .. C
           rates == Rates(f)
           h == [i \in X |-> Age(i)]
<1>1. Rated(f)
  BY SteadyIsRated
<1>2. /\ rates \in Seq(Nat) /\ Len(rates) = N /\ \A i \in X : rates[i] = f[subflows[i]].SR
      /\ Total(rates) \in Nat /\ RateSum(f) = IF Total(rates) = 0 THEN R ELSE Total(rates)
  BY <1>1, RateSumIs
<1>3. N \in Nat /\ N <= C /\ C \in Nat /\ C >= 1 /\ R \in Nat
  BY FewSubflows, UnitIs
<1>4. IsFiniteSet(X) /\ IsFiniteSet(Y) /\ rates \in [X -> Nat]
  <2>1. IsFiniteSet(X) /\ IsFiniteSet(Y)
    BY <1>3, FS_Interval
  <2>. QED
    BY <1>2, <2>1
<1>5. Parts \in [Y -> Nat] /\ Parts[1] = R
  <2>1. ASSUME NEW k \in Y PROVE R \div k \in Nat
    <3>1. k \in Nat /\ k # 0 /\ R \in Nat
      BY <1>3
    <3> HIDE DEF R
    <3>. QED
      BY <3>1, Quotient
  <2>2. R \div 1 = R /\ 1 \in Y
    BY <1>3
  <2>. QED
    BY <2>1, <2>2 DEF Parts
<1>6. h \in [X -> Y] /\ \A i, j \in X : h[i] = h[j] => i = j
  BY <1>3 DEF Age
<1>7. ASSUME NEW i \in X PROVE rates[i] <= Parts[h[i]]
  <2> DEFINE a == Age(i)
             x == f[subflows[i]].SR
             d == R \div a
  <2>1. a \in Nat /\ a # 0 /\ a \in Y /\ x \in Nat /\ a * x <= R /\ subflows[i] \in Path
    BY <1>1, <1>3 DEF Age, Rated
  <2>2. Parts[h[i]] = d /\ rates[i] = x
    BY <1>2, <2>1 DEF Parts
  <2> HIDE DEF a, x, R
  <2>3. d \in Nat /\ R + 1 <= a * d + a
    BY <1>3, <2>1, Quotient
  <2> HIDE DEF d
  <2>4. a * (d + 1) = a * d + a /\ a * x \in Nat /\ a * d \in Nat
    BY <2>1, <2>3
  <2>5. a * x < a * (d + 1)
    <3> DEFINE b == a * x
               c == a * d
    <3>1. b \in Nat /\ c \in Nat /\ b <= R /\ R + 1 <= c + a
      BY <2>1, <2>3, <2>4
    <3> HIDE DEF b, c
    <3>2. b < c + a
      BY <1>3, <2>1, <3>1
    <3>. QED
      BY <2>4, <3>2 DEF b, c
  <2>6. x < d + 1
    BY <2>1, <2>3, <2>5, Cancels
  <2>. QED
    BY <2>1, <2>2, <2>3, <2>6
<1> HIDE DEF X, Y, h, rates
<1>8. SumFunction(rates) <= SumFunction(Parts)
  BY <1>4, <1>5, <1>6, <1>7, SumEmbeds
<1>9. SumFunction(rates) = Total(rates)
  BY <1>2, SumOfSequence
<1>10. R <= SumFunction(Parts) /\ SumFunction(Parts) \in Nat
  <2>1. 1 \in Y
    BY <1>3 DEF Y
  <2>2. Parts[1] <= SumFunction(Parts) /\ SumFunction(Parts) \in Nat
    BY <1>4, <1>5, <2>1, SumAtLeast
  <2>. QED
    BY <1>5, <2>2
<1>. QED
  BY <1>2, <1>8, <1>9, <1>10

\* The least rate, that of a subflow that joins when all are there, is a unit
\* of the most that all can have, or more.
LEMMA NoValueIsNothing ==
  ASSUME subflows \in Seq(Path), Distinct(subflows), NEW f, \A q \in Path : Steady(f[q]), NEW p \in Path,
         \A i \in 1 .. Len(subflows) : Age(i) * f[subflows[i]].SR <= RateUnit,
         f[p].active, Cardinality(Path) * SumFunction(Parts) <= MaxValue * RateUnit
  PROVE  RateValue(f, p) >= 1
<1> DEFINE C == Cardinality(Path)
           R == RateUnit
           x == f[p].SR
           S == RateSum(f)
           H == SumFunction(Parts)
           v == RateValue(f, p)
           M == MaxValue
<1>1. /\ C \in Nat /\ C # 0 /\ R \in Nat /\ x \in Nat /\ M \in Nat /\ R <= C * x
      /\ H \in Nat /\ S <= H /\ C * H <= M * R
      /\ S \in Nat /\ v \in Nat /\ M * x \in Nat /\ M * x + 1 <= S * v + S
  <2>1. Rated(f) /\ Steady(f[p])
    BY SteadyIsRated
  <2>2. R <= C * x /\ x \in Nat
    BY <2>1 DEF Steady, Rated
  <2>3. H \in Nat /\ S <= H
    BY RatesAddUp
  <2>. QED
    BY <2>1, <2>2, <2>3, UnitIs, ValuesAre, SchTreeAssumption
<1> HIDE DEF C, R, x, S, H, v, M
<1>2. M * R <= M * (C * x) /\ M * R \in Nat
  <2>1. C * x \in Nat
    BY <1>1
  <2>. QED
    BY <1>1, <2>1, TimesMore
<1>3. M * (C * x) = C * (M * x) /\ C * (M * x) \in Nat /\ C * H \in Nat
  BY <1>1
<1>4. C * H <= C * (M * x)
  <2> DEFINE a == C * H
             b == M * R
             c == M * (C * x)
  <2>1. a \in Nat /\ b \in Nat /\ c \in Nat /\ a <= b /\ b <= c
    BY <1>1, <1>2, <1>3
  <2> HIDE DEF a, b, c
  <2>2. a <= c
    BY <2>1
  <2>. QED
    BY <1>3, <2>2 DEF a, c
<1>5. S <= M * x
  <2>1. H <= M * x
    BY <1>1, <1>4, Cancels
  <2> DEFINE c == M * x
  <2>2. c \in Nat /\ H <= c
    BY <1>1, <2>1
  <2> HIDE DEF c
  <2>3. S <= c
    BY <1>1, <2>2
  <2>. QED
    BY <2>3 DEF c
<1>6. v # 0
  <2>1. SUFFICES ASSUME v = 0 PROVE FALSE
    OBVIOUS
  <2>2. S * v = 0
    BY <1>1, <2>1
  <2> DEFINE c == M * x
  <2>3. c \in Nat /\ S <= c /\ c + 1 <= S
    BY <1>1, <1>5, <2>2
  <2> HIDE DEF c
  <2>. QED
    BY <1>1, <2>3
<1>. QED
  BY <1>1, <1>6 DEF v

\* After a run the tree holds exactly the active subflows, as long as the least
\* rate is worth a unit when the others have the most they can have.  Of 128
\* units that is so with up to 31 subflows, and not with the 32 that the arrays
\* of the tree have room for.
THEOREM NoActiveIsLeftOut ==
  ASSUME Cardinality(Path) * SumFunction(Parts) <= MaxValue * RateUnit
  PROVE  DispatchSpec => TreeHoldsEveryActive
<1> DEFINE s == Batch(sf')
           Active == {p \in Listed : sf'[p].active}
           Holds == SchedulerRun => InTree(schtree'.root) = Active
<1>1. DispatchInv /\ AgeInv /\ [DispatchNext]_dispatchVars => [Holds]_dispatchVars
  <2>1. SUFFICES ASSUME DispatchInv, AgeInv, SchedulerRun PROVE InTree(schtree'.root) = Active
    OBVIOUS
  <2>2. \A q \in Path : Steady(sf'[q]) /\ (Schedulable(sf'[q]) <=> sf'[q].active)
    BY <2>1, RunIsSteady, SteadyIsRated
  <2>3. /\ ListInv /\ Planted(schtree) /\ subflows \in Seq(Path) /\ Distinct(subflows)
        /\ schtree' = IF subflows = << >> THEN schtree ELSE CreateAndReplace(s)
    BY <2>1 DEF DispatchInv, ListInv, SchedulerRun
  <2>4. \A i \in 1 .. Len(subflows) : Age(i) * sf'[subflows[i]].SR <= RateUnit
    <3>1. AgeInv' /\ UNCHANGED subflows
      BY <2>1, AgeKeeps DEF DispatchNext, SchedulerRun
    <3>. QED
      BY <3>1 DEF AgeInv, Age
  <2>5. CASE subflows = << >>
    BY <2>3, <2>5 DEF Planted, Listed
  <2>6. CASE subflows # << >>
    <3> DEFINE v == AdjustedValues(s.path_values)
               t == BuildTree(s.paths, v)
               u == CreateAndReplace(s)
               w == u.root
               n == Len(s.paths)
    <3>1. schtree'.root = w
      BY <2>3, <2>6
    <3> HIDE DEF s
    <3>2. Made(sf', s, v, t, u)
      <4> HIDE DEF v, t, u
      <4>. QED
        BY <2>2, <2>3, RunMakes DEF s, v, t, u
    <3>3. /\ s.paths \in Seq(Path) /\ Distinct(s.paths) /\ n \in Nat
          /\ s.path_values \in Seq(Nat) /\ Len(s.path_values) = n
          /\ IsBatch(s, sf', Len(subflows))
          /\ v \in Seq(Nat) /\ Len(v) = n /\ (n # 0 => Total(v) = MaxValue) /\ t \in Trees
          /\ DOMAIN w = DOMAIN t /\ \A k \in DOMAIN t : w[k].path = t[k].path
          /\ InTree(w) \subseteq {s.paths[i] : i \in 1 .. n}
      <4> HIDE DEF v, t, u, n
      <4>. QED
        BY <3>2 DEF Made, ShapedTrees, n
    <3> HIDE DEF v, t, u, w, n
    <3>4. \A i \in 1 .. n : /\ s.paths[i] \in Path /\ s.path_values[i] = RateValue(sf', s.paths[i])
                            /\ s.paths[i] \in Active
      <4>1. ASSUME NEW i \in 1 .. n
            PROVE  /\ s.paths[i] \in Path /\ s.path_values[i] = RateValue(sf', s.paths[i])
                   /\ \E m \in 1 .. Len(subflows) : s.paths[i] = subflows[m] /\ Schedulable(sf'[subflows[m]])
        BY <3>3 DEF IsBatch, Valued, n
      <4>. QED
        BY <2>2, <4>1 DEF Listed
    <3>5. InTree(w) \subseteq Active
      BY <3>3, <3>4
    <3>6. ASSUME NEW p \in Active PROVE p \in InTree(w)
      <4>1. PICK m \in 1 .. Len(subflows) : p = subflows[m]
        BY <3>6 DEF Listed
      <4>2. p \in Path /\ Schedulable(sf'[subflows[m]])
        BY <2>2, <2>3, <3>6, <4>1
      <4>3. PICK i \in 1 .. n : s.paths[i] = p
        BY <3>3, <4>1, <4>2 DEF IsBatch, Complete, n
      <4>4. ASSUME NEW j \in 1 .. n PROVE v[j] >= 1
        <5>1. RateValue(sf', s.paths[j]) >= 1
          BY <2>2, <2>3, <2>4, <3>4, NoValueIsNothing
        <5>2. Rated(sf') /\ schtree \in Batches /\ schtree.paths = << >> /\ schtree.path_values = << >>
          BY <2>2, <2>3, SteadyIsRated, PlantedIsBatch DEF Planted
        <5>3. Total(s.path_values) \in Nat /\ Total(s.path_values) <= MaxValue
          BY <2>3, <5>2, BatchFits DEF s
        <5>4. v[j] \in s.path_values[j] .. s.path_values[j] + (MaxValue - Total(s.path_values))
          BY <3>3, <5>3, AdjustedBounds DEF v
        <5>5. s.path_values[j] \in Nat
          BY <3>3
        <5>. QED
          BY <3>4, <5>1, <5>3, <5>4, <5>5, SchTreeAssumption
      <4>5. 1 \in 1 .. n /\ n # 0
        BY <3>3
      <4>6. UnitsIn(t, p) = 2 * v[i] /\ v[i] >= 1
        <5>1. Dealt(t, s.paths, v, n)
          BY <3>3, <4>5, BuildDeals DEF t, n
        <5>2. v[1] # 0
          BY <4>4, <4>5
        <5>. QED
          BY <4>3, <4>4, <5>1, <5>2 DEF Dealt
      <4>7. LeavesOf(t, p) # {}
        <5>1. v[i] \in Nat /\ UnitsIn(t, p) # 0
          BY <3>3, <4>6
        <5>. QED
          BY <3>3, <5>1, LeavesAreFinite
      <4>8. PICK k \in DOMAIN w : w[k].path = p
        BY <3>3, <4>7 DEF LeavesOf
      <4>. QED
        BY <4>2, <4>8, SchTreeAssumption DEF InTree
    <3>. QED
      BY <3>1, <3>5, <3>6
  <2>. QED
    BY <2>5, <2>6
<1>. QED
  BY <1>1, DispatchInvHolds, AgeInvHolds, PTL DEF DispatchSpec, TreeHoldsEveryActive
=============================================================================
