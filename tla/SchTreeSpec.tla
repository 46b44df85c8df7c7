----------------------------- MODULE SchTreeSpec -----------------------------
(***************************************************************************)
(* The life of a scheduling tree: batches of set_path closed by            *)
(* create_and_replace, and the draws get_next and get_actual in between.   *)
(*                                                                         *)
(* Its clients hold the sender's subflows_mutex, and the scheduler calls   *)
(* set_path ... set_path, create_and_replace under one hold of it, so no   *)
(* path is drawn while a batch is open.                                    *)
(***************************************************************************)
EXTENDS SchTree, Functions

CONSTANTS
  MaxPathNum,  \* MPRTP_SENDER_SCHTREE_MAX_PATH_NUM: 32 in the code
  Values       \* the values the scheduler may give a path

ASSUME SchTreeSpecAssumption ==
  /\ MaxPathNum \in Nat \ {0}
  /\ Values \subseteq Nat
  /\ IsFiniteSet(Path)

VARIABLES
  sch,      \* struct _SchTree: root, actual, paths and path_values
  result,   \* what the last get_next or get_actual returned
  target,   \* history: the units the current tree owes each path
  drawn,    \* history: how many picks this round has had
  served,   \* history: how often each path was picked in this round
  gap       \* history: picks since each path was last picked, MaxValue at most

history == <<target, drawn, served, gap>>
vars == <<sch, result, history>>

NoOne == [p \in Path |-> 0]
Crashed == result = Fault
BatchOpen == sch.paths # << >>

Picked(p) ==
  /\ drawn' = (drawn + 1) % MaxValue
  /\ served' = IF drawn' = 0 THEN NoOne ELSE [served EXCEPT ![p] = @ + 1]
  /\ gap' = [q \in Path |-> IF q = p \/ target[q] = 0 THEN 0
                            ELSE IF gap[q] = MaxValue THEN MaxValue ELSE gap[q] + 1]
  /\ UNCHANGED target

Init ==
  /\ sch = InitTree
  /\ result = NoPath
  /\ target = NoOne /\ drawn = 0 /\ served = NoOne /\ gap = NoOne

\* The scheduler rounds 128 * SR / SR_sum down for each listed subflow, so a
\* batch never exceeds max_value and misses less than one unit per path.
SchTreeSetPath(p, value) ==
  /\ ~ Crashed
  /\ p \notin {sch.paths[i] : i \in 1..Len(sch.paths)}
  /\ Len(sch.paths) < MaxPathNum
  /\ Total(sch.path_values) + value <= MaxValue
  /\ sch' = SetPath(sch, p, value)
  /\ UNCHANGED <<result, history>>

SchTreeCreateAndReplace ==
  /\ ~ Crashed
  /\ BatchOpen => MaxValue - Total(sch.path_values) < Len(sch.paths)
  /\ sch' = CreateAndReplace(sch)
  /\ target' = [p \in Path |->
                  Total([i \in 1..Len(sch.paths) |->
                     IF sch.paths[i] = p THEN AdjustedValues(sch.path_values)[i] ELSE 0])]
  /\ drawn' = 0 /\ served' = NoOne /\ gap' = NoOne
  /\ UNCHANGED result

SchTreeGetNext ==
  /\ ~ Crashed /\ ~ BatchOpen
  /\ sch' = GetNext(sch)
  /\ result' = NextPath(sch)
  /\ IF result' \in Path THEN Picked(result') ELSE UNCHANGED history

SchTreeGetActual ==
  /\ ~ Crashed /\ ~ BatchOpen
  /\ sch' = GetActual(sch)
  /\ result' \in ActualPaths(sch)
  /\ IF sch.actual = NoNode /\ result' \in Path THEN Picked(result') ELSE UNCHANGED history

Next ==
  \/ \E p \in Path, v \in Values : SchTreeSetPath(p, v)
  \/ SchTreeCreateAndReplace
  \/ SchTreeGetNext
  \/ SchTreeGetActual

Spec == Init /\ [][Next]_vars
-----------------------------------------------------------------------------
(* Properties.                                                             *)

\* A tree that is complete: every node hangs on the root, through parents
\* without a path, and either has a path or both its children.
WellFormed(t) ==
  \A k \in DOMAIN t :
    /\ k # Root => k \div 2 \in DOMAIN t /\ ~ Owned(t, k \div 2)
    /\ Owned(t, k) \/ {2*k, 2*k + 1} \subseteq DOMAIN t

\* The variables stay in their domains: what schtree_insert leaves behind is a
\* complete tree whatever the batch was, actual is stale or one of its leaves,
\* and the open batch fits it.
TypeOK ==
  /\ DOMAIN sch.root \subseteq Node /\ WellFormed(sch.root)
  /\ \A k \in DOMAIN sch.root : /\ sch.root[k].path \in Path \cup {NoPath}
                                /\ sch.root[k].next \in {NoNode, 2*k, 2*k + 1}
  /\ sch.actual \in {NoNode, Dangling} \/ Owned(sch.root, sch.actual)
  /\ sch.paths \in Seq(Path) /\ Len(sch.paths) <= MaxPathNum
  /\ sch.path_values \in Seq(0 .. MaxValue) /\ Len(sch.path_values) = Len(sch.paths)
  /\ Total(sch.path_values) <= MaxValue
  /\ result \in Path \cup {NoPath, Fault}
  /\ target \in [Path -> 0 .. MaxValue] /\ served \in [Path -> 0 .. MaxValue]
  /\ drawn \in 0 .. MaxValue - 1 /\ gap \in [Path -> 0 .. MaxValue]

\* get_next and get_actual dereference NULL or freed memory only when the
\* tree is empty or when get_actual follows a replacement: a walk down a
\* tree that was built never runs out of nodes, and no leaf is without path.
FaultOnlyWhenEmptyOrStale ==
  [][(result' \in {Fault, NoPath} /\ result' # result) =>
        \/ DOMAIN sch.root = {}
        \/ sch.actual = Dangling]_vars

\* Traffic is interleaved, not sent in bursts: a leaf at depth d is reached
\* once in 2^d picks, so its path never waits longer than that.
EvenSpread ==
  \A k \in DOMAIN sch.root :
    sch.root[k].path # NoPath => gap[sch.root[k].path] * LevelValue[k] < MaxValue

\* No path of the tree came with a value of 0.
Exact == \A k \in DOMAIN sch.root : sch.root[k].path # NoPath => target[sch.root[k].path] > 0

\* The tree hands out exactly the values it was given, round after round,
\* unless one of them was 0: then it owes nothing that can be told in units.
Dispatch == INSTANCE WeightedDispatch WITH
  Round  <- MaxValue,
  share  <- IF Exact THEN target ELSE NoOne,
  credit <- IF Exact THEN [p \in Path |-> target[p] - served[p]] ELSE NoOne
ImplementsWeightedDispatch == Dispatch!Spec

\* Units of the tree under a path, counted in halves because a leaf one
\* level below the units has level_value 0 but half a unit of the traffic.
HalfUnits(p) ==
  LET leaves == {k \in DOMAIN sch.root : sch.root[k].path = p}
  IN  SumFunction([k \in leaves |-> IF LevelValue[k] = 0 THEN 1 ELSE 2 * LevelValue[k]])

\* Also when a rate rounds down to 0.  Such a path may take half a unit, one
\* level below the units; the path beside it then gains the other half, and
\* what they gain is missing at the end: nobody loses more than one unit.
SharesWithinOneUnit ==
  \A p \in Path : HalfUnits(p) - 2 * target[p] \in -2 .. 1
=============================================================================
