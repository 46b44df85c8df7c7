------------------------------- MODULE SchTree -------------------------------
(***************************************************************************)
(* The scheduling tree of the MPRTP sender (src/plugins/schtree.c): a      *)
(* binary tree whose leaves are subflows ("paths").  The root stands for   *)
(* max_value units of traffic, every level halves it, and a path of value  *)
(* v owns leaves worth v units.  get_next walks from the root to a leaf,   *)
(* at every inner node turning to the side it did not take last time.      *)
(*                                                                         *)
(* Nodes are named by their position: the root is 1 and the children of k  *)
(* are 2k and 2k+1.  A tree is a function whose domain is the set of       *)
(* allocated nodes, so "k \notin DOMAIN t" is a NULL pointer.              *)
(***************************************************************************)
EXTENDS Integers, Sequences, FiniteSets, TLC

CONSTANTS
  Path,        \* the subflows (MPRTPSSubflow*)
  NoPath,      \* the NULL subflow
  Fault,       \* what a call yields that dereferences NULL or freed memory
  MaxValue     \* max_value: 128 in the code

\* max_value is a power of two: every factor of it but 1 is even.
ASSUME SchTreeAssumption ==
  /\ MaxValue \in Nat \ {0}
  /\ \A c, d \in 1 .. MaxValue : c * d = MaxValue /\ d > 1 => d % 2 = 0
  /\ NoPath \notin Path /\ Fault \notin Path /\ NoPath # Fault

-----------------------------------------------------------------------------
(* Nodes.                                                                  *)

Root == 1
NoNode == 0
Dangling == -1         \* a pointer into a tree that has been freed

\* level_value reaches 0 one level below the units, and insertion stops there.
Node == 1 .. 4 * MaxValue - 1

\* level_value of a node: halved (>> 1) at every level.
LevelValue[k \in Node] == IF k = Root THEN MaxValue ELSE LevelValue[k \div 2] \div 2

EmptyTree == [k \in {} |-> NoNode]
NewNode == [path |-> NoPath, next |-> NoNode]

LeftOf(t, k) == IF 2*k \in DOMAIN t THEN 2*k ELSE NoNode
RightOf(t, k) == IF 2*k + 1 \in DOMAIN t THEN 2*k + 1 ELSE NoNode
Childless(t, k) == LeftOf(t, k) = NoNode /\ RightOf(t, k) = NoNode

-----------------------------------------------------------------------------
(* schtree_insert.  The subtrees are disjoint, so the recursion only ever  *)
(* reads the tree as it was when the path came: two functions say what is  *)
(* left of the change when the call on a node returns, and which nodes the *)
(* recursion enters.                                                       *)

Owned(t, k) == k \in DOMAIN t /\ t[k].path # NoPath

Takes(t, k, change) == ~ Owned(t, k) /\ change >= LevelValue[k] /\ Childless(t, k)

\* *change when schtree_insert returns from k, entered with change.
Rest(t) ==
  LET rest[k \in Node] ==
        [change \in Nat |->
           CASE Owned(t, k)         -> change
             [] Takes(t, k, change) -> change - LevelValue[k]
             [] OTHER -> LET left == rest[2*k][change]
                         IN  IF left < 1 THEN left ELSE rest[2*k + 1][left]]
  IN  rest

NotEntered == -1

\* *change when schtree_insert enters k: the left child with what its parent
\* was given, the right child only if the left one leaves something.
Entered(t, change) ==
  LET entered[k \in Node] ==
        LET above == entered[k \div 2]
            left  == Rest(t)[k - 1][above]
        IN  IF k = Root THEN change
            ELSE IF \/ above = NotEntered
                    \/ Owned(t, k \div 2)
                    \/ Takes(t, k \div 2, above) THEN NotEntered
            ELSE IF k % 2 = 0 THEN above
            ELSE IF left < 1 THEN NotEntered ELSE left
  IN  entered

Insert(t, p, change) ==
  LET entered == Entered(t, change)
      visited == {k \in Node : entered[k] # NotEntered}
      taken   == {k \in visited : Takes(t, k, entered[k])}
      node(k) == IF k \in DOMAIN t THEN t[k] ELSE NewNode
  IN  [k \in DOMAIN t \cup visited |->
         IF k \in taken THEN [node(k) EXCEPT !.path = p] ELSE node(k)]

-----------------------------------------------------------------------------
(* schtree_create_and_replace.                                             *)

Total(values) ==
  LET sum[n \in 0 .. Len(values)] == IF n = 0 THEN 0 ELSE sum[n - 1] + values[n]
  IN  sum[Len(values)]

\* Bugs: the rest is lost, or all of max_value goes to the first path.
RestLost(values) == values
RestReplaces(values) == IF values = << >> THEN values ELSE [values EXCEPT ![1] = MaxValue]

\* max_index: max_value is never raised, so "the largest" is "the last one
\* above 0", and the first if there is none.
MaxIndex(values) ==
  CHOOSE i \in DOMAIN values : /\ values[i] > 0 \/ i = 1
                              /\ \A j \in i + 1 .. Len(values) : values[j] = 0

\* The rest goes to that path.
AdjustedValues(values) ==
  IF values = << >> THEN values
  ELSE [values EXCEPT ![MaxIndex(values)] = @ + MaxValue - Total(values)]

\* Bug: the trees are overlapped where the old one was left to the left.
OverlapTreesLeft(old, new) ==
  [k \in DOMAIN new |->
     IF k \in DOMAIN old /\ new[k].path = NoPath /\ old[k].next = LeftOf(old, k)
     THEN [new[k] EXCEPT !.next = LeftOf(new, k)] ELSE new[k]]

\* _schnode_overlap_trees: where both trees have an inner node that was
\* last left through its right child, the new node is set the same.
OverlapTrees(old, new) ==
  [k \in DOMAIN new |->
     IF /\ k \in DOMAIN old
        /\ old[k].path = NoPath /\ new[k].path = NoPath
        /\ old[k].next = RightOf(old, k)
     THEN [new[k] EXCEPT !.next = RightOf(new, k)]
     ELSE new[k]]

BuildTree(paths, values) ==
  LET built[n \in 0 .. Len(paths)] ==
        IF n = 0 THEN EmptyTree ELSE Insert(built[n - 1], paths[n], values[n])
  IN  built[Len(paths)]

\* tree->actual is not touched: it now points into the freed tree.
CreateAndReplace(s) ==
  [root        |-> OverlapTrees(s.root, BuildTree(s.paths, AdjustedValues(s.path_values))),
   actual      |-> IF s.actual = NoNode THEN NoNode ELSE Dangling,
   paths       |-> << >>,
   path_values |-> << >>]

-----------------------------------------------------------------------------
(* The other operations.                                                   *)

InitTree == [root |-> EmptyTree, actual |-> NoNode, paths |-> << >>, path_values |-> << >>]

SetPath(s, p, value) ==
  [s EXCEPT !.paths = Append(@, p), !.path_values = Append(@, value)]

\* Bug: the walk never goes back to the left.
TurnOnce(t, k) == IF t[k].next = NoNode THEN LeftOf(t, k) ELSE RightOf(t, k)

Turn(t, k) == IF t[k].next = LeftOf(t, k) THEN RightOf(t, k) ELSE LeftOf(t, k)

\* The nodes get_next comes by.
Reached(t) ==
  LET reached[k \in Node] ==
        /\ k \in DOMAIN t
        /\ k = Root \/ (reached[k \div 2] /\ Turn(t, k \div 2) = k)
  IN  reached

\* The walk ends at a leaf, or at NULL where a node has one child only.
Selected(t) ==
  LET ends == {k \in DOMAIN t : Reached(t)[k] /\ Childless(t, k)}
  IN  IF ends = {} THEN NoNode ELSE CHOOSE k \in ends : TRUE

TurnedTree(t) ==
  [k \in DOMAIN t |->
     IF Reached(t)[k] /\ ~ Childless(t, k) THEN [t[k] EXCEPT !.next = Turn(t, k)] ELSE t[k]]

GetNext(s) == [s EXCEPT !.root = TurnedTree(@), !.actual = Selected(s.root)]

\* selected->path is read even when the walk ended at NULL.
NextPath(s) == IF Selected(s.root) = NoNode THEN Fault ELSE s.root[Selected(s.root)].path

GetActual(s) == IF s.actual = NoNode THEN GetNext(s) ELSE s

\* A read through the dangling pointer may yield any subflow or crash.
ActualPaths(s) ==
  CASE s.actual = NoNode   -> {NextPath(s)}
    [] s.actual = Dangling -> Path \cup {NoPath, Fault}
    [] OTHER               -> {s.root[s.actual].path}
=============================================================================
