---------------------------- MODULE ElementsProofs ----------------------------
(***************************************************************************)
(* Proofs about the five machines of Elements, for every value of their    *)
(* constants: the rotation serves each subflow once a round, the read lock *)
(* is taken as often as readers are inside, the playout delay is taken     *)
(* over the latest skews, no thread is inside an element that is below     *)
(* PAUSED, a reader of the riporter's packets finds the reports it should, *)
(* and everything keeps its type, the riporter's buffer included: a walk   *)
(* along the packets of a buffer comes to an end.                          *)
(***************************************************************************)
EXTENDS Elements, FiniteSetTheorems, SequenceTheorems, TLAPS

-----------------------------------------------------------------------------
(* Sequences and sets.                                                     *)

\* A list that grows at its head moves every element one place on.
LEMMA Prepended ==
  ASSUME NEW S, NEW s \in S, NEW q \in Seq(S), NEW p, p = <<s>> \o q
  PROVE  /\ p \in Seq(S) /\ Len(p) = Len(q) + 1 /\ p[1] = s
         /\ \A i \in 1 .. Len(q) : p[i + 1] = q[i]
         /\ \A i \in 2 .. Len(p) : i - 1 \in 1 .. Len(q) /\ p[i] = q[i - 1]
<1>1. p \in Seq(S) /\ Len(p) = Len(q) + 1
  OBVIOUS
<1>2. \A i \in 1 .. Len(p) : p[i] = IF i = 1 THEN s ELSE q[i - 1]
  OBVIOUS
<1>3. Len(q) \in Nat /\ DOMAIN q = 1 .. Len(q) /\ DOMAIN p = 1 .. Len(p)
  BY <1>1
<1>4. \A i \in 1 .. Len(q) : i + 1 \in 1 .. Len(p) /\ p[i + 1] = q[i]
  BY <1>1, <1>2, <1>3
<1>5. \A i \in 2 .. Len(p) : i - 1 \in 1 .. Len(q) /\ p[i] = q[i - 1]
  BY <1>1, <1>2, <1>3
<1>6. p[1] = s
  BY <1>1, <1>2
<1>. QED
  BY <1>1, <1>4, <1>5, <1>6

\* Induction: a set of naturals that is not empty has a least element.
LEMMA LeastNat ==
  ASSUME NEW T, T \subseteq Nat, T # {}
  PROVE  \E n \in T : \A m \in T : n <= m
<1>1. IsWellFoundedOn(OpToRel(<, Nat), Nat)
  BY NatLessThanWellFounded
<1>2. PICK n \in T : \A m \in T : ~ (<<m, n>> \in OpToRel(<, Nat))
  BY <1>1, WFMin
<1>3. \A m \in T : ~ (m < n)
  BY <1>2 DEF OpToRel
<1>. QED
  BY <1>3

\* A finite set of naturals that is not empty has a largest element.
LEMMA LargestNat ==
  ASSUME NEW T \in SUBSET Nat, IsFiniteSet(T), T # {}
  PROVE  \E x \in T : \A y \in T : y <= x
<1> DEFINE Largest(U) == \E x \in U : \A y \in U : y <= x
           Bad == {n \in Nat : \E U \in SUBSET Nat :
                     IsFiniteSet(U) /\ U # {} /\ Cardinality(U) = n /\ ~ Largest(U)}
<1>1. SUFFICES ASSUME ~ Largest(T) PROVE FALSE
  OBVIOUS
<1>2. Cardinality(T) \in Bad
  BY <1>1, FS_CardinalityType
<1>3. PICK n \in Bad : \A m \in Bad : n <= m
  <2>1. Bad \subseteq Nat /\ Bad # {}
    BY <1>2
  <2> HIDE DEF Bad
  <2>. QED
    BY <2>1, LeastNat
<1>4. PICK U \in SUBSET Nat : IsFiniteSet(U) /\ U # {} /\ Cardinality(U) = n /\ ~ Largest(U)
  BY <1>3
<1>5. PICK x \in U : TRUE
  BY <1>4
<1> DEFINE V == U \ {x}
<1>6. IsFiniteSet(V) /\ Cardinality(V) = n - 1 /\ V \in SUBSET Nat /\ n \in Nat
  BY <1>3, <1>4, <1>5, FS_RemoveElement
<1>7. V # {}
  BY <1>4, <1>5
<1>8. Largest(V)
  <2>1. n - 1 \in Nat
    BY <1>6, FS_CardinalityType
  <2>2. n - 1 \notin Bad
    BY <1>3, <1>6
  <2>. QED
    BY <2>1, <2>2, <1>6, <1>7
<1>9. PICK y \in V : \A z \in V : z <= y
  BY <1>8
<1>10. Largest(U)
  <2>1. x \in Nat /\ y \in Nat /\ y \in U
    BY <1>5, <1>6, <1>9
  <2>2. CASE x <= y
    BY <1>9, <2>1, <2>2
  <2>3. CASE y <= x
    <3>1. \A z \in U : z <= x
      BY <1>6, <1>9, <2>1, <2>3
    <3>. QED
      BY <3>1, <1>5
  <2>. QED
    BY <2>1, <2>2, <2>3
<1>. QED
  BY <1>4, <1>10

\* A recursive definition over 0 .. used - 1 that looks only further on has a
\* solution.
LooksOnward(used, V, G) ==
  /\ \A o \in 0 .. used - 1 : \A f \in [0 .. used - 1 -> V] : G[o][f] \in V
  /\ \A o \in 0 .. used - 1 : \A f, g \in [0 .. used - 1 -> V] :
       (\A n \in o + 1 .. used - 1 : f[n] = g[n]) => G[o][f] = G[o][g]

Solvable(used, V, G) ==
  \E f \in [0 .. used - 1 -> V] : \A o \in 0 .. used - 1 : f[o] = G[o][f]

LEMMA RecursionHasSolution ==
  ASSUME NEW used \in Nat, NEW V, V # {}, NEW G, LooksOnward(used, V, G)
  PROVE  Solvable(used, V, G)
<1>. USE DEF LooksOnward, Solvable
<1> DEFINE D == 0 .. used - 1
           From(k) == \E f \in [D -> V] : \A o \in D : o >= used - k => f[o] = G[o][f]
           Bad == {k \in Nat : k <= used /\ ~ From(k)}
<1>1. SUFFICES Bad = {}
  <2>1. From(used)
    <3>1. used \notin Bad
      OBVIOUS
    <3>. QED
      BY <3>1
  <2>. QED
    BY <2>1
<1>2. SUFFICES ASSUME Bad # {} PROVE FALSE
  OBVIOUS
<1>3. PICK k \in Bad : \A m \in Bad : k <= m
  <2>1. Bad \subseteq Nat
    OBVIOUS
  <2> HIDE DEF Bad
  <2>. QED
    BY <2>1, <1>2, LeastNat
<1>4. k # 0
  <2>1. PICK v \in V : TRUE
    OBVIOUS
  <2>2. [o \in D |-> v] \in [D -> V]
    BY <2>1
  <2>3. \A o \in D : ~ (o >= used - 0)
    OBVIOUS
  <2>4. From(0)
    BY <2>2, <2>3
  <2>. QED
    BY <2>4, <1>3
<1>5. k - 1 \in Nat /\ k \in Nat /\ k <= used
  BY <1>3, <1>4
<1>6. From(k - 1)
  <2> HIDE DEF Bad
  <2>1. k - 1 \notin Bad
    BY <1>3, <1>5
  <2> USE DEF Bad
  <2>. QED
    BY <2>1, <1>5
<1>7. PICK f \in [D -> V] : \A o \in D : o >= used - (k - 1) => f[o] = G[o][f]
  BY <1>6
<1> DEFINE p == used - k
           g == [f EXCEPT ![p] = G[p][f]]
<1>8. p \in D
  BY <1>4, <1>5
<1>9. G[p][f] \in V
  BY <1>8
<1>10. g \in [D -> V] /\ g[p] = G[p][f] /\ \A o \in D : o # p => g[o] = f[o]
  BY <1>8, <1>9
<1> HIDE DEF g
<1>11. ASSUME NEW o \in D, o >= p PROVE g[o] = G[o][g]
  <2>1. \A n \in o + 1 .. used - 1 : n \in D /\ f[n] = g[n]
    BY <1>8, <1>10, <1>11
  <2>2. G[o][f] = G[o][g]
    BY <2>1, <1>10
  <2>3. CASE o = p
    BY <2>2, <2>3, <1>10
  <2>4. CASE o # p
    <3>1. o >= used - (k - 1)
      BY <2>4, <1>5, <1>8, <1>11
    <3>. QED
      BY <2>2, <2>4, <3>1, <1>7, <1>10
  <2>. QED
    BY <2>3, <2>4
<1>12. From(k)
  BY <1>10, <1>11
<1>. QED
  BY <1>3, <1>12

-----------------------------------------------------------------------------
(* The rotation of the MPRTCP sender.                                      *)

\* The iterator is at the head only between its choice and the push; anywhere
\* else, all that was served in this round comes before it.
TurnInv ==
  /\ subflows \in Seq(Subflows)
  /\ chain.pc = "push" /\ chain.out # RtcpSrc => chain.out = iterator /\ iterator # NoPad
  /\ \A k \in DOMAIN subflows : iterator = subflows[k] =>
       \/ k = 1 /\ chain.pc = "push" /\ chain.out = iterator
       \/ k # 1 /\ \A i \in DOMAIN subflows : subflows[i] \in round => i < k

RotationInv == Rotation!TypeOK /\ TurnInv

LEMMA RotationInit == ASSUME Rotation!Init PROVE RotationInv
BY ElementsAssumption
   DEF Rotation!Init, RotationInv, Rotation!TypeOK, TurnInv, Rotation!Listed, Rotation!Idle,
       Rotation!AtWork, Rotation!Kinds, Rotation!Pads, Rotation!Results

\* Where the iterator goes to is the next place of the list.
LEMMA NextNodeIs ==
  ASSUME RotationInv, NEW k \in DOMAIN subflows
  PROVE  Rotation!NextNode(subflows[k]) =
           IF k = Len(subflows) THEN NoPad ELSE subflows[k + 1]
<1>1. (CHOOSE i \in DOMAIN subflows : subflows[i] = subflows[k]) = k
  BY DEF RotationInv, Rotation!TypeOK
<1>. QED
  BY <1>1 DEF Rotation!NextNode

\* What is listed, and where.
LEMMA ListFacts ==
  ASSUME RotationInv
  PROVE  /\ DOMAIN subflows = 1 .. Len(subflows) /\ Len(subflows) \in Nat
         /\ \A k \in DOMAIN subflows : subflows[k] \in Rotation!Listed
         /\ \A p \in Rotation!Listed : \E k \in DOMAIN subflows : subflows[k] = p
         /\ NoPad \notin Rotation!Listed /\ RtcpSrc \notin Rotation!Listed
         /\ subflows # <<>> => 1 \in DOMAIN subflows /\ Rotation!ListHead = subflows[1]
         /\ subflows = <<>> => Rotation!Listed = {} /\ Rotation!ListHead = NoPad
BY ElementsAssumption
   DEF RotationInv, TurnInv, Rotation!TypeOK, Rotation!Listed, Rotation!ListHead

\* Links do not move the turn.
LEMMA RelinkKeepsTurn ==
  ASSUME RotationInv, NEW p \in Rotation!Pads, Rotation!Link(p) \/ Rotation!Unlink(p)
  PROVE  RotationInv'
BY DEF RotationInv, TurnInv, Rotation!TypeOK, Rotation!Link, Rotation!Unlink, Rotation!Listed

\* A request finds no chain function, so the iterator is not at the head.
LEMMA RequestKeepsTurn ==
  ASSUME RotationInv, NEW s \in Subflows, Rotation!RequestNewPad(s)
  PROVE  RotationInv'
<1> DEFINE p == <<s>> \o subflows
<1>1. /\ subflows \in Seq(Subflows) /\ subflows' = p /\ s \notin Rotation!Listed
      /\ chain.pc = "idle" /\ UNCHANGED <<iterator, linked, chain, round>>
  BY DEF RotationInv, TurnInv, Rotation!RequestNewPad, Rotation!NoReader
<1>2. /\ p \in Seq(Subflows) /\ Len(p) = Len(subflows) + 1 /\ p[1] = s
      /\ \A i \in 1 .. Len(subflows) : p[i + 1] = subflows[i]
      /\ \A i \in 2 .. Len(p) : i - 1 \in 1 .. Len(subflows) /\ p[i] = subflows[i - 1]
  BY <1>1, Prepended
<1> HIDE DEF p
<1>3. DOMAIN p = 1 .. Len(subflows) + 1 /\ Len(subflows) \in Nat
  BY <1>1, <1>2
<1>4. Rotation!Listed' = {s} \cup Rotation!Listed
  <2>1. \A i \in DOMAIN p : p[i] \in {s} \cup Rotation!Listed
    <3>1. \A i \in DOMAIN p : i = 1 \/ i \in 2 .. Len(p)
      BY <1>2, <1>3
    <3>. QED
      BY <3>1, <1>2, ListFacts
  <2>2. \A i \in DOMAIN subflows : i + 1 \in DOMAIN p /\ p[i + 1] = subflows[i]
    BY <1>2, <1>3, ListFacts
  <2>3. 1 \in DOMAIN p /\ p[1] = s
    BY <1>2, <1>3
  <2>4. Rotation!Listed' = {p[i] : i \in DOMAIN p}
    BY <1>1 DEF Rotation!Listed
  <2>. QED
    BY <2>1, <2>2, <2>3, <2>4, SMTT(40) DEF Rotation!Listed
<1>5. \A i \in DOMAIN p : i = 1 \/ i \in 2 .. Len(p)
  BY <1>2, <1>3
<1>6. \A i \in 2 .. Len(p) : p[i] \in Rotation!Listed
  BY <1>2, ListFacts
<1>7. \A i, k \in DOMAIN p : p[i] = p[k] => i = k
  <2>1. \A i, k \in 2 .. Len(p) : p[i] = p[k] => i - 1 = k - 1
    BY <1>2, ListFacts DEF RotationInv, Rotation!TypeOK
  <2>. QED
    BY <2>1, <1>1, <1>2, <1>3, <1>5, <1>6
<1>8. Rotation!TypeOK'
  BY <1>1, <1>4, <1>7 DEF RotationInv, Rotation!TypeOK
<1>9. ASSUME NEW k \in DOMAIN p, iterator = p[k]
      PROVE  k # 1 /\ \A i \in DOMAIN p : p[i] \in round => i < k
  <2>1. s # NoPad /\ s \notin round /\ iterator # s
    BY <1>1, ElementsAssumption, ListFacts DEF RotationInv, Rotation!TypeOK
  <2>2. k \in 2 .. Len(p) /\ k - 1 \in DOMAIN subflows /\ iterator = subflows[k - 1]
    BY <1>2, <1>5, <1>9, <2>1, ListFacts
  <2>3. \A i \in DOMAIN subflows : subflows[i] \in round => i < k - 1
    BY <2>2, <1>1 DEF RotationInv, TurnInv
  <2>4. ASSUME NEW i \in DOMAIN p, p[i] \in round PROVE i < k
    <3>1. i \in 2 .. Len(p) /\ i - 1 \in DOMAIN subflows /\ p[i] = subflows[i - 1]
      BY <1>2, <1>5, <2>1, <2>4, ListFacts
    <3>2. i - 1 < k - 1
      BY <3>1, <2>3, <2>4
    <3>. QED
      BY <3>1, <3>2, <2>2, <1>2, <1>3
  <2>. QED
    BY <2>2, <2>4
<1>10. TurnInv'
  BY <1>1, <1>2, <1>9 DEF TurnInv
<1>. QED
  BY <1>8, <1>10 DEF RotationInv

\* The chain function up to its choice.
LEMMA LookKeepsTurn ==
  ASSUME RotationInv, \/ \E k \in Rotation!Kinds : Rotation!Arrive(k)
                      \/ Rotation!LookAtRtcpSrc \/ Rotation!Return
  PROVE  RotationInv'
<1>1. UNCHANGED <<subflows, iterator, linked, round>> /\ chain.pc # "push"
  BY DEF Rotation!Arrive, Rotation!LookAtRtcpSrc, Rotation!Return
<1>2. /\ chain' \in [pc : Rotation!AtWork, kind : Rotation!Kinds,
                     out : Rotation!Pads \cup {NoPad}, result : Rotation!Results]
      /\ chain'.pc = "push" => chain'.out = RtcpSrc
  <2>1. CASE \E k \in Rotation!Kinds : Rotation!Arrive(k)
    BY <2>1 DEF Rotation!Arrive, Rotation!Idle, Rotation!AtWork, Rotation!Kinds,
                Rotation!Results
  <2>2. CASE Rotation!LookAtRtcpSrc
    BY <2>2 DEF RotationInv, Rotation!TypeOK, Rotation!LookAtRtcpSrc, Rotation!AtWork,
                Rotation!Pads, Rotation!Kinds, Rotation!Results
  <2>3. CASE Rotation!Return
    BY <2>3 DEF Rotation!Return, Rotation!Idle, Rotation!AtWork, Rotation!Kinds,
                Rotation!Results
  <2>. QED
    BY <2>1, <2>2, <2>3
<1>3. Rotation!TypeOK'
  BY <1>1, <1>2 DEF RotationInv, Rotation!TypeOK, Rotation!Listed
<1>4. TurnInv'
  BY <1>1, <1>2 DEF RotationInv, TurnInv
<1>. QED
  BY <1>3, <1>4 DEF RotationInv

LEMMA ChoiceKeepsTurn == ASSUME RotationInv, Rotation!ChooseSubflow PROVE RotationInv'
<1>1. /\ UNCHANGED <<subflows, linked, round>> /\ chain.pc = "choose"
      /\ iterator' = Rotation!Chosen
      /\ Rotation!Chosen = NoPad => chain' = [chain EXCEPT !.pc = "unlock"]
      /\ Rotation!Chosen # NoPad =>
           chain' = [chain EXCEPT !.pc = "push", !.out = Rotation!Chosen]
  BY DEF Rotation!ChooseSubflow
<1>2. \/ Rotation!Chosen = iterator
      \/ Rotation!Chosen = Rotation!ListHead
  BY DEF Rotation!Chosen
<1>3. Rotation!Chosen \in Rotation!Listed \cup {NoPad}
  BY <1>2, ListFacts DEF RotationInv, Rotation!TypeOK
<1>4. /\ chain' \in [pc : Rotation!AtWork, kind : Rotation!Kinds,
                     out : Rotation!Pads \cup {NoPad}, result : Rotation!Results]
      /\ Rotation!Chosen # NoPad => chain'.pc = "push" /\ chain'.out = iterator'
      /\ Rotation!Chosen = NoPad => chain'.pc # "push"
  BY <1>1, <1>3 DEF RotationInv, Rotation!TypeOK, Rotation!AtWork, Rotation!Pads
<1>5. Rotation!TypeOK'
  BY <1>1, <1>3, <1>4 DEF RotationInv, Rotation!TypeOK, Rotation!Listed
<1>6. ASSUME NEW k \in DOMAIN subflows, Rotation!Chosen = subflows[k]
      PROVE  k # 1 => \A i \in DOMAIN subflows : subflows[i] \in round => i < k
  <2>1. CASE Rotation!Chosen = iterator
    BY <1>6, <1>1, <2>1 DEF RotationInv, TurnInv
  <2>2. CASE Rotation!Chosen = Rotation!ListHead
    <3>1. 1 \in DOMAIN subflows /\ subflows[1] = subflows[k]
      BY <1>6, <2>2, ListFacts
    <3>2. \A i, j \in DOMAIN subflows : subflows[i] = subflows[j] => i = j
      BY DEF RotationInv, Rotation!TypeOK
    <3>3. k = 1
      BY <3>1, <3>2
    <3>. QED
      BY <3>3
  <2>. QED
    BY <1>2, <2>1, <2>2
<1>7. \A k \in DOMAIN subflows : subflows[k] # NoPad
  BY ListFacts
<1>8. TurnInv'
  BY <1>1, <1>4, <1>6, <1>7 DEF RotationInv, TurnInv
<1>. QED
  BY <1>5, <1>8 DEF RotationInv

\* The node after the one served comes after all that were.
LEMMA PushKeepsTurn == ASSUME RotationInv, Rotation!Push PROVE RotationInv'
<1>1. /\ UNCHANGED <<subflows, linked>> /\ chain.pc = "push"
      /\ \E r \in Rotation!PushResults(chain.out) :
           chain' = [chain EXCEPT !.pc = "unlock", !.result = r]
  BY DEF Rotation!Push
<1>2. /\ chain'.pc = "unlock" /\ chain'.out = chain.out
      /\ chain' \in [pc : Rotation!AtWork, kind : Rotation!Kinds,
                     out : Rotation!Pads \cup {NoPad}, result : Rotation!Results]
  BY <1>1 DEF RotationInv, Rotation!TypeOK, Rotation!AtWork, Rotation!PushResults,
              Rotation!Results
<1>3. CASE chain.out = RtcpSrc
  <2>1. UNCHANGED <<iterator, round>>
    BY <1>3 DEF Rotation!Push
  <2>2. \A k \in DOMAIN subflows : iterator = subflows[k] =>
          k # 1 /\ \A i \in DOMAIN subflows : subflows[i] \in round => i < k
    BY <1>3, ListFacts DEF RotationInv, TurnInv
  <2>3. Rotation!TypeOK'
    BY <1>1, <1>2, <2>1 DEF RotationInv, Rotation!TypeOK, Rotation!Listed
  <2>4. TurnInv'
    BY <1>1, <1>2, <2>1, <2>2 DEF RotationInv, TurnInv
  <2>. QED
    BY <2>3, <2>4 DEF RotationInv
<1>4. CASE chain.out # RtcpSrc
  <2>1. /\ chain.out = iterator
        /\ iterator' = Rotation!NextNode(iterator)
        /\ round' = IF iterator = Rotation!ListHead THEN {iterator} ELSE round \cup {iterator}
    BY <1>1, <1>4 DEF RotationInv, TurnInv, Rotation!Push, Rotation!Advanced
  <2>2. PICK k \in DOMAIN subflows : iterator = subflows[k]
    BY <1>1, <1>4, ListFacts DEF RotationInv, Rotation!TypeOK, TurnInv
  <2>3. iterator' = IF k = Len(subflows) THEN NoPad ELSE subflows[k + 1]
    BY <2>1, <2>2, NextNodeIs
  <2>4. iterator = Rotation!ListHead <=> k = 1
    BY <2>2, ListFacts DEF RotationInv, Rotation!TypeOK
  <2>5. \A i \in DOMAIN subflows : subflows[i] \in round' => i <= k
    <3>1. SUFFICES ASSUME NEW i \in DOMAIN subflows, subflows[i] \in round', i # k
                   PROVE  i < k
      BY ListFacts
    <3>2. subflows[i] # iterator
      BY <3>1, <2>2 DEF RotationInv, Rotation!TypeOK
    <3>3. k # 1 /\ subflows[i] \in round
      BY <3>1, <3>2, <2>1, <2>4
    <3>. QED
      BY <3>3, <2>2 DEF RotationInv, TurnInv
  <2>6. \A j \in DOMAIN subflows : iterator' = subflows[j] => j = k + 1
    <3>1. SUFFICES ASSUME NEW j \in DOMAIN subflows, iterator' = subflows[j]
                   PROVE  j = k + 1
      OBVIOUS
    <3>2. k # Len(subflows)
      BY <3>1, <2>3, ListFacts
    <3>3. k + 1 \in DOMAIN subflows
      BY <3>2, ListFacts
    <3>. QED
      BY <3>1, <3>2, <3>3, <2>3 DEF RotationInv, Rotation!TypeOK
  <2>7. Rotation!TypeOK'
    <3>1. iterator' \in Rotation!Listed \cup {NoPad}
      <4>1. k # Len(subflows) => k + 1 \in DOMAIN subflows
        BY ListFacts
      <4>. QED
        BY <4>1, <2>3, ListFacts
    <3>2. round' \subseteq Rotation!Listed
      BY <2>1, <2>2, ListFacts DEF RotationInv, Rotation!TypeOK
    <3>. QED
      BY <1>1, <1>2, <3>1, <3>2 DEF RotationInv, Rotation!TypeOK, Rotation!Listed
  <2>8. \A j \in DOMAIN subflows : iterator' = subflows[j] =>
          j # 1 /\ \A i \in DOMAIN subflows : subflows[i] \in round' => i < j
    BY <2>5, <2>6, ListFacts
  <2>9. TurnInv'
    BY <1>1, <1>2, <2>8 DEF RotationInv, TurnInv
  <2>. QED
    BY <2>7, <2>9 DEF RotationInv
<1>. QED
  BY <1>3, <1>4

LEMMA RotationNext ==
  ASSUME RotationInv, [Rotation!Next]_rotation PROVE RotationInv'
<1>1. CASE UNCHANGED rotation
  BY <1>1 DEF rotation, RotationInv, TurnInv, Rotation!TypeOK, Rotation!Listed
<1>2. CASE Rotation!Next
  BY <1>2, RelinkKeepsTurn, RequestKeepsTurn, LookKeepsTurn, ChoiceKeepsTurn, PushKeepsTurn
  DEF Rotation!Next
<1>. QED
  BY <1>1, <1>2

\* A push to a subflow that is not the head is to one not served in this round.
LEMMA PushIsNew ==
  ASSUME RotationInv, Rotation!Push, chain.out # RtcpSrc
  PROVE  chain.out \notin round \/ chain.out = Rotation!ListHead
<1>1. PICK k \in DOMAIN subflows : chain.out = subflows[k] /\ iterator = subflows[k]
  BY ListFacts DEF RotationInv, TurnInv, Rotation!TypeOK, Rotation!Push
<1>2. CASE k = 1
  BY <1>1, <1>2, ListFacts
<1>3. CASE k # 1
  BY <1>1, <1>3, ListFacts DEF RotationInv, TurnInv
<1>. QED
  BY <1>2, <1>3

-----------------------------------------------------------------------------
(* The read lock of the MPRTCP receiver.                                   *)

\* Only pads there are have a thread in the chain function.
ReadersInv ==
  /\ Readers!TypeOK
  /\ sinks \in Seq(Sinks)
  /\ Readers!Inside \subseteq Readers!Listed \cup {RtcpSink}

ChainStates ==
  [pc : {"idle", "locked", "push", "unlock"}, kind : Readers!Kinds,
   out : Readers!Sources \cup {"none"}, result : Readers!Results]

\* The instance counts as the library does.
LEMMA SameCount == ASSUME NEW S PROVE Readers!Cardinality(S) = Cardinality(S)
BY Zenon DEF Cardinality, Readers!Cardinality

LEMMA InsideFinite == IsFiniteSet(Readers!Inside) /\ Readers!Inside \subseteq Readers!Threads
<1>1. IsFiniteSet(Readers!Threads)
  BY ElementsAssumption, FS_Singleton, FS_Union DEF Readers!Threads
<1>. QED
  BY <1>1, FS_Subset DEF Readers!Inside

LEMMA ReadersInit == ASSUME Readers!Init PROVE ReadersInv
<1>1. sinks = <<>> /\ Readers!Listed = {}
  BY DEF Readers!Init, Readers!Listed
<1>2. Readers!Inside = {}
  BY DEF Readers!Init, Readers!Inside, Readers!Idle
<1>3. readers = Readers!Cardinality(Readers!Inside)
  BY <1>2, FS_EmptySet, SameCount DEF Readers!Init
<1>4. chains \in [Readers!Threads -> ChainStates]
  BY DEF Readers!Init, Readers!Idle, ChainStates, Readers!Kinds, Readers!Sources,
         Readers!Results
<1>. QED
  BY <1>1, <1>2, <1>3, <1>4 DEF Readers!Init, ReadersInv, Readers!TypeOK, ChainStates

\* A step of one thread changes what is inside by that thread at most.
LEMMA InsideAfter ==
  ASSUME ReadersInv, NEW t \in Readers!Threads, NEW c \in ChainStates,
         chains' = [chains EXCEPT ![t] = c]
  PROVE  /\ chains' \in [Readers!Threads -> ChainStates]
         /\ Readers!Inside' = IF c.pc = "idle" THEN Readers!Inside \ {t}
                              ELSE Readers!Inside \cup {t}
<1>1. chains \in [Readers!Threads -> ChainStates]
  BY DEF ReadersInv, Readers!TypeOK, ChainStates
<1>2. chains' \in [Readers!Threads -> ChainStates]
  BY <1>1
<1>3. \A u \in Readers!Threads : chains'[u] = IF u = t THEN c ELSE chains[u]
  BY <1>1
<1>. QED
  BY <1>2, <1>3 DEF Readers!Inside

\* The states a thread is brought to.
LEMMA ThreadStates ==
  ASSUME ReadersInv, NEW t \in Readers!Threads
  PROVE  /\ chains[t] \in ChainStates /\ Readers!Idle \in ChainStates
         /\ \A k \in Readers!Kinds : [Readers!Idle EXCEPT !.pc = "locked", !.kind = k] \in ChainStates
         /\ Readers!Demultiplexed(t) \in ChainStates
         /\ Readers!Demultiplexed(t).pc # "idle"
         /\ \A r \in Readers!Results :
              [chains[t] EXCEPT !.pc = "unlock", !.result = r] \in ChainStates
<1>1. chains[t] \in ChainStates
  BY DEF ReadersInv, Readers!TypeOK, ChainStates
<1>2. /\ Readers!Idle \in ChainStates
      /\ \A k \in Readers!Kinds : [Readers!Idle EXCEPT !.pc = "locked", !.kind = k] \in ChainStates
  BY DEF ChainStates, Readers!Idle, Readers!Kinds, Readers!Sources, Readers!Results
<1>3. \A r \in Readers!Results :
        [chains[t] EXCEPT !.pc = "unlock", !.result = r] \in ChainStates
  BY <1>1 DEF ChainStates
<1>4. \A r \in Readers!Results :
        Readers!Refused(t, r) \in ChainStates /\ Readers!Refused(t, r).pc = "unlock"
  BY <1>1 DEF ChainStates, Readers!Refused
<1>5. \A p \in Readers!Sources :
        Readers!Forwarded(t, p) \in ChainStates /\ Readers!Forwarded(t, p).pc = "push"
  BY <1>1 DEF ChainStates, Readers!Forwarded
<1>6. {"error", "ok", "custom_error"} \subseteq Readers!Results
  BY DEF Readers!Results
<1>7. {"rtp_src", "rtcp_src"} \subseteq Readers!Sources
  BY DEF Readers!Sources
<1>8. \/ \E r \in Readers!Results : Readers!Demultiplexed(t) = Readers!Refused(t, r)
      \/ \E p \in Readers!Sources : Readers!Demultiplexed(t) = Readers!Forwarded(t, p)
  BY <1>6, <1>7 DEF Readers!Demultiplexed
<1>. QED
  BY <1>1, <1>2, <1>3, <1>4, <1>5, <1>8

LEMMA RequestKeepsReaders ==
  ASSUME ReadersInv, \/ \E p \in Readers!Sources : Readers!Relink(p)
                     \/ \E s \in Sinks : Readers!Request(s)
                     \/ Readers!RequestNewPad
  PROVE  ReadersInv'
<1>1. UNCHANGED <<readers, chains, stopped>> /\ Readers!Inside' = Readers!Inside
  BY DEF Readers!Relink, Readers!Request, Readers!RequestNewPad, Readers!Inside
<1>2. CASE \E p \in Readers!Sources : Readers!Relink(p)
  BY <1>1, <1>2 DEF Readers!Relink, ReadersInv, Readers!TypeOK, Readers!Listed
<1>3. CASE \E s \in Sinks : Readers!Request(s)
  BY <1>1, <1>3 DEF Readers!Request, ReadersInv, Readers!TypeOK, Readers!Listed
<1>4. CASE Readers!RequestNewPad
  <2>1. /\ sinks \in Seq(Sinks) /\ wanted \in Sinks \ Readers!Listed
        /\ sinks' = <<wanted>> \o sinks /\ wanted' = NoPad /\ UNCHANGED sources
    BY <1>4 DEF ReadersInv, Readers!TypeOK, Readers!RequestNewPad
  <2> DEFINE p == <<wanted>> \o sinks
  <2>2. /\ p \in Seq(Sinks)
        /\ \A i \in 1 .. Len(sinks) : p[i + 1] = sinks[i]
        /\ Len(p) = Len(sinks) + 1
    BY <2>1, Prepended
  <2> HIDE DEF p
  <2>3. \A i \in DOMAIN sinks : i + 1 \in DOMAIN p /\ p[i + 1] = sinks[i]
    BY <2>1, <2>2
  <2>4. Readers!Listed' = {p[i] : i \in DOMAIN p}
    BY <2>1 DEF Readers!Listed, p
  <2>5. Readers!Listed \subseteq Readers!Listed'
    BY <2>3, <2>4 DEF Readers!Listed
  <2>6. Readers!Listed' \subseteq Sinks
    BY <2>2, <2>4
  <2>7. Readers!TypeOK'
    BY <1>1, <2>1, <2>5, <2>6 DEF ReadersInv, Readers!TypeOK
  <2>. QED
    BY <1>1, <2>1, <2>2, <2>5, <2>7 DEF ReadersInv, p
<1>. QED
  BY <1>2, <1>3, <1>4

\* Inside the chain function the lock is kept.
LEMMA StepKeepsReaders ==
  ASSUME ReadersInv, NEW t \in Readers!Threads,
         \/ Readers!Step(t) \/ Readers!Restart(t)
         \/ \E k \in Readers!Kinds : Readers!Arrive(t, k)
  PROVE  ReadersInv'
<1>1. UNCHANGED <<sinks, wanted, sources>> /\ Readers!Listed' = Readers!Listed
  BY ZenonT(60) DEF Readers!Step, Readers!Demultiplex, Readers!Push, Readers!Return, Readers!Restart,
         Readers!Arrive, Readers!Listed
<1>2. CASE \E k \in Readers!Kinds : Readers!Arrive(t, k)
  <2>1. PICK k \in Readers!Kinds : Readers!Arrive(t, k)
    BY <1>2
  <2>2. /\ t \in Readers!Listed \cup {RtcpSink} /\ t \notin Readers!Inside
        /\ readers' = readers + 1 /\ UNCHANGED stopped
    BY <2>1 DEF Readers!Arrive, Readers!Inside
  <2>3. /\ chains' \in [Readers!Threads -> ChainStates]
        /\ Readers!Inside' = Readers!Inside \cup {t}
    <3> DEFINE c == [Readers!Idle EXCEPT !.pc = "locked", !.kind = k]
    <3>1. c \in ChainStates /\ c.pc # "idle"
      BY ThreadStates DEF Readers!Idle
    <3>2. chains' = [chains EXCEPT ![t] = c]
      BY <2>1 DEF Readers!Arrive
    <3> HIDE DEF c
    <3>. QED
      BY <3>1, <3>2, InsideAfter
  <2>4. readers' = Readers!Cardinality(Readers!Inside')
    <3>1. Cardinality(Readers!Inside \cup {t}) = Cardinality(Readers!Inside) + 1
      BY <2>2, InsideFinite, FS_AddElement
    <3>2. readers = Cardinality(Readers!Inside)
      BY SameCount DEF ReadersInv, Readers!TypeOK
    <3>. QED
      BY <2>2, <2>3, <3>1, <3>2, SameCount
  <2>. QED
    BY <1>1, <2>2, <2>3, <2>4 DEF ReadersInv, Readers!TypeOK, ChainStates
<1>3. CASE Readers!Demultiplex(t) \/ Readers!Push(t)
  <2>1. UNCHANGED <<readers, stopped>> /\ t \in Readers!Inside
    BY <1>3 DEF Readers!Demultiplex, Readers!Push, Readers!Inside
  <2>2. \E c \in ChainStates : chains' = [chains EXCEPT ![t] = c] /\ c.pc # "idle"
    <3>1. CASE Readers!Demultiplex(t)
      BY <3>1, ThreadStates DEF Readers!Demultiplex
    <3>2. CASE Readers!Push(t)
      <4>1. PICK r \in Readers!Results :
              chains' = [chains EXCEPT ![t].pc = "unlock", ![t].result = r]
        BY <3>2 DEF Readers!Push, Readers!Results
      <4>2. chains \in [Readers!Threads -> ChainStates]
        BY DEF ReadersInv, Readers!TypeOK, ChainStates
      <4>3. chains' = [chains EXCEPT ![t] = [chains[t] EXCEPT !.pc = "unlock", !.result = r]]
        BY <4>1, <4>2
      <4>. QED
        BY <4>2, <4>3, ThreadStates, ZenonT(60) DEF ChainStates
    <3>. QED
      BY <1>3, <3>1, <3>2
  <2>3. chains' \in [Readers!Threads -> ChainStates] /\ Readers!Inside' = Readers!Inside
    BY <2>1, <2>2, InsideAfter
  <2>. QED
    BY <1>1, <2>1, <2>3 DEF ReadersInv, Readers!TypeOK, ChainStates
<1>4. CASE Readers!Return(t)
  <2>1. /\ readers' = readers - 1 /\ t \in Readers!Inside
        /\ stopped' \subseteq stopped \cup {t}
    BY <1>4 DEF Readers!Return, Readers!Unlocked, Readers!Inside
  <2>2. /\ chains' \in [Readers!Threads -> ChainStates]
        /\ Readers!Inside' = Readers!Inside \ {t}
    BY <1>4, InsideAfter, ThreadStates DEF Readers!Return, Readers!Idle
  <2>3. readers' = Readers!Cardinality(Readers!Inside')
    BY <2>1, <2>2, InsideFinite, FS_RemoveElement, SameCount DEF ReadersInv, Readers!TypeOK
  <2>. QED
    BY <1>1, <2>1, <2>2, <2>3 DEF ReadersInv, Readers!TypeOK, ChainStates
<1>5. CASE Readers!Restart(t)
  BY <1>1, <1>5 DEF Readers!Restart, ReadersInv, Readers!TypeOK, Readers!Inside
<1>. QED
  BY <1>2, <1>3, <1>4, <1>5 DEF Readers!Step

LEMMA ReadersNext ==
  ASSUME ReadersInv, [Readers!Next]_reading PROVE ReadersInv'
<1>1. CASE UNCHANGED reading
  BY <1>1 DEF reading, ReadersInv, Readers!TypeOK, Readers!Listed, Readers!Inside
<1>2. CASE Readers!Next
  BY <1>2, RequestKeepsReaders, StepKeepsReaders DEF Readers!Next
<1>. QED
  BY <1>1, <1>2

-----------------------------------------------------------------------------
(* The state changes.  What keeps a stopped element empty is in the plan   *)
(* of calls: a task runs only while the element is to play or its join is  *)
(* still to come, and a packet is inside only while the pads are to be     *)
(* active or are still to be drained.                                      *)

Ops == {"new", "start", "stop", "join", "unref", "activate", "flush", "drain"}
CallSet == [op : Ops, task : Lifecycle!Task \cup {None}]

Planned(c) == \E i \in 1 .. Len(plan) : plan[i] = c

\* What a planned call says of where the element goes.
Fits(c) ==
  /\ c.op = "start" => target = "playing" /\ c.task \in {Lifecycle!First, "riporter"}
  /\ c.op = "activate" => target = "paused"
  /\ c.op = "flush" => plan = <<Lifecycle!Call("flush", None), Lifecycle!Call("drain", None)>>
  /\ c.op = "drain" => c.task = None
  /\ c.op = "join" => target = "paused"
  /\ c.op = "new" => target = "ready"

PlanInv ==
  /\ plan \in Seq(CallSet) /\ Len(plan) <= 4
  /\ \A c \in CallSet : Planned(c) => Fits(c)

\* Who may be inside.
InsideInv ==
  /\ \A t \in Lifecycle!Task : Lifecycle!Running(t) =>
       /\ t \in {Lifecycle!First, "riporter"}
       /\ target = "playing" \/ Planned(Lifecycle!Call("join", t))
  /\ active => target \in {"paused", "playing"} \/ Planned(Lifecycle!Call("flush", None))
  /\ stream # "idle" => target \in {"paused", "playing"} \/ Planned(Lifecycle!Call("drain", None))

\* The mutex is held for a push only, or lost.
LockInv ==
  /\ lock \in Lifecycle!Task => task[lock].at = "push"
  /\ lock = "stream" => stream = "push"

LifecycleInv == Lifecycle!TypeOK /\ PlanInv /\ InsideInv /\ LockInv

NoneApart == None \notin Lifecycle!Task \cup {"stream", "app"}

LEMMA NoneIsApart == NoneApart
BY ElementsAssumption DEF NoneApart, Lifecycle!Task

-----------------------------------------------------------------------------
\* Who is next to whom.
LEMMA LevelValues ==
  /\ Lifecycle!Level("null") = 1 /\ Lifecycle!Level("ready") = 2
  /\ Lifecycle!Level("paused") = 3 /\ Lifecycle!Level("playing") = 4
<1>1. /\ Lifecycle!States[1] = "null" /\ Lifecycle!States[2] = "ready"
      /\ Lifecycle!States[3] = "paused" /\ Lifecycle!States[4] = "playing"
  BY DEF Lifecycle!States
<1>2. \A s : \A i \in 1..4 :
        Lifecycle!States[i] = s /\ (\A j \in 1..4 : Lifecycle!States[j] = s => j = i)
               => Lifecycle!Level(s) = i
  BY DEF Lifecycle!Level
<1>3. 1..4 = {1, 2, 3, 4}
  OBVIOUS
<1>. QED
  BY <1>1, <1>2, <1>3

\* A plan without its first call.
LEMMA TailPlan ==
  ASSUME plan \in Seq(CallSet), plan # << >>, Lifecycle!CallDone
  PROVE  /\ plan' \in Seq(CallSet)
         /\ Len(plan') = Len(plan) - 1
         /\ Planned(Head(plan)) /\ Head(plan) \in CallSet
         /\ \A c : Planned(c)' => Planned(c)
         /\ \A c : Planned(c) /\ c # Head(plan) => Planned(c)'
<1>1. /\ Len(plan) \in Nat /\ Len(plan) > 0
      /\ plan' = Tail(plan) /\ plan' \in Seq(CallSet)
      /\ Len(plan') = Len(plan) - 1
      /\ Head(plan) = plan[1] /\ plan[1] \in CallSet
  BY DEF Lifecycle!CallDone
<1>2. \A i \in 1 .. Len(plan') : plan'[i] = plan[i + 1]
  BY <1>1
<1>3. \A c : Planned(c)' => Planned(c)
  <2>. SUFFICES ASSUME NEW c, NEW i \in 1 .. Len(plan'), plan'[i] = c
                PROVE  Planned(c)
    BY DEF Planned
  <2>. QED
    BY <1>1, <1>2 DEF Planned
<1>4. \A c : Planned(c) /\ c # Head(plan) => Planned(c)'
  <2>. SUFFICES ASSUME NEW c, NEW i \in 1 .. Len(plan), plan[i] = c, c # Head(plan)
                PROVE  Planned(c)'
    BY DEF Planned
  <2>1. i - 1 \in 1 .. Len(plan') /\ plan'[i - 1] = c
    BY <1>1, <1>2
  <2>. QED
    BY <2>1 DEF Planned
<1>. QED
  BY <1>1, <1>3, <1>4 DEF Planned

\* Four calls, two by two.
LEMMA TwoAndTwo ==
  ASSUME NEW a, NEW b, NEW c, NEW d
  PROVE  <<a, b>> \o <<c, d>> = <<a, b, c, d>>
<1>. DEFINE S == {a, b, c, d}
<1>1. <<a, b>> \in Seq(S) /\ <<c, d>> \in Seq(S) /\ <<a, b, c, d>> \in Seq(S)
  OBVIOUS
<1>2. /\ <<a, b>> \o <<c, d>> \in Seq(S)
      /\ Len(<<a, b>> \o <<c, d>>) = 4
      /\ \A i \in 1 .. 4 :
           (<<a, b>> \o <<c, d>>)[i] = IF i <= 2 THEN <<a, b>>[i] ELSE <<c, d>>[i - 2]
  BY <1>1, ConcatProperties
<1>3. \A i \in 1 .. 4 : <<a, b, c, d>>[i] = IF i <= 2 THEN <<a, b>>[i] ELSE <<c, d>>[i - 2]
  OBVIOUS
<1>4. Len(<<a, b, c, d>>) = 4
  OBVIOUS
<1>. QED
  BY <1>1, <1>2, <1>3, <1>4, SeqEqual

\* Nothing before or after a sequence.
LEMMA NothingMore ==
  ASSUME NEW S, NEW q \in Seq(S)
  PROVE  << >> \o q = q /\ q \o << >> = q
BY ConcatEmptySeq

\* The plan of each transition, call by call.
LEMMA PlansOf ==
  ASSUME element \in {"sender", "receiver"}
  PROVE  /\ \E t, u \in Lifecycle!Task :
           Lifecycle!Calls("null", "ready") = <<Lifecycle!Call("new", t), Lifecycle!Call("new", u)>>
         /\ Lifecycle!Calls("ready", "null") =
              <<Lifecycle!Call("unref", Lifecycle!First), Lifecycle!Call("unref", "riporter")>>
         /\ Lifecycle!Calls("ready", "paused") = <<Lifecycle!Call("activate", None)>>
         /\ Lifecycle!Calls("paused", "ready") =
              <<Lifecycle!Call("flush", None), Lifecycle!Call("drain", None)>>
         /\ Lifecycle!Calls("paused", "playing") =
              <<Lifecycle!Call("start", Lifecycle!First), Lifecycle!Call("start", "riporter")>>
         /\ Lifecycle!Calls("playing", "paused") =
              <<Lifecycle!Call("stop", Lifecycle!First), Lifecycle!Call("stop", "riporter"),
                Lifecycle!Call("join", Lifecycle!First), Lifecycle!Call("join", "riporter")>>
<1>1. Lifecycle!First \in Lifecycle!Task /\ "riporter" \in Lifecycle!Task
  BY DEF Lifecycle!First, Lifecycle!Task
<1>2. \A op : Lifecycle!ForBoth(op) =
        <<Lifecycle!Call(op, Lifecycle!First), Lifecycle!Call(op, "riporter")>>
  BY DEF Lifecycle!ForBoth
<1>3. Lifecycle!StopTasks = <<Lifecycle!Call("stop", Lifecycle!First), Lifecycle!Call("stop", "riporter"),
                    Lifecycle!Call("join", Lifecycle!First), Lifecycle!Call("join", "riporter")>>
  BY <1>2, TwoAndTwo DEF Lifecycle!StopTasks
<1>4. /\ Lifecycle!ParentCalls("null", "ready") = << >>
      /\ Lifecycle!ParentCalls("ready", "null") = << >>
      /\ Lifecycle!ParentCalls("paused", "playing") = << >>
      /\ Lifecycle!ParentCalls("playing", "paused") = << >>
      /\ Lifecycle!ParentCalls("ready", "paused") = <<Lifecycle!Call("activate", None)>>
      /\ Lifecycle!ParentCalls("paused", "ready") =
           <<Lifecycle!Call("flush", None), Lifecycle!Call("drain", None)>>
  BY DEF Lifecycle!ParentCalls
<1>. DEFINE Own(from, to) == IF element = "sender" THEN Lifecycle!SenderCalls(from, to)
                             ELSE Lifecycle!ReceiverCalls(from, to)
            S == [op : Ops, task : Lifecycle!Task \cup {None}]
<1>5. /\ \E t, u \in Lifecycle!Task :
           Own("null", "ready") = <<Lifecycle!Call("new", t), Lifecycle!Call("new", u)>>
      /\ Own("ready", "null") = Lifecycle!ForBoth("unref")
      /\ Own("ready", "paused") = << >> /\ Own("paused", "ready") = << >>
      /\ Own("paused", "playing") = Lifecycle!ForBoth("start")
      /\ Own("playing", "paused") = Lifecycle!StopTasks
  <2>1. CASE element = "sender"
    BY <1>1, <1>2, <2>1 DEF Lifecycle!SenderCalls
  <2>2. CASE element = "receiver"
    BY <1>1, <2>2 DEF Lifecycle!ReceiverCalls
  <2>. QED
    BY <2>1, <2>2
<1>6. \A from, to : Lifecycle!Calls(from, to) = Lifecycle!ParentCalls(from, to) \o Own(from, to)
  BY DEF Lifecycle!Calls
<1>. HIDE DEF Own
<1>7. \A t, u \in Lifecycle!Task : <<Lifecycle!Call("new", t), Lifecycle!Call("new", u)>> \in Seq(S)
  BY DEF Lifecycle!Call, Ops
<1>8. /\ Lifecycle!ForBoth("unref") \in Seq(S) /\ Lifecycle!ForBoth("start") \in Seq(S)
      /\ Lifecycle!StopTasks \in Seq(S)
      /\ <<Lifecycle!Call("activate", None)>> \in Seq(S)
      /\ <<Lifecycle!Call("flush", None), Lifecycle!Call("drain", None)>> \in Seq(S)
  <2>1. \A op \in Ops, t \in Lifecycle!Task \cup {None} : Lifecycle!Call(op, t) \in S
    BY DEF Lifecycle!Call
  <2>. HIDE DEF S
  <2>2. /\ {"unref", "start", "stop", "join", "activate", "flush", "drain"} \subseteq Ops
        /\ {Lifecycle!First, "riporter", None} \subseteq Lifecycle!Task \cup {None}
    BY <1>1 DEF Ops
  <2>3. /\ Lifecycle!Call("stop", Lifecycle!First) \in S /\ Lifecycle!Call("stop", "riporter") \in S
        /\ Lifecycle!Call("join", Lifecycle!First) \in S /\ Lifecycle!Call("join", "riporter") \in S
        /\ Lifecycle!Call("start", Lifecycle!First) \in S /\ Lifecycle!Call("start", "riporter") \in S
        /\ Lifecycle!Call("unref", Lifecycle!First) \in S /\ Lifecycle!Call("unref", "riporter") \in S
        /\ Lifecycle!Call("activate", None) \in S
        /\ Lifecycle!Call("flush", None) \in S /\ Lifecycle!Call("drain", None) \in S
    BY <2>1, <2>2
  <2>4. \A a, b, c, d \in S :
          <<a>> \in Seq(S) /\ <<a, b>> \in Seq(S) /\ <<a, b, c, d>> \in Seq(S)
    OBVIOUS
  <2>. QED
    BY <1>2, <1>3, <2>3, <2>4
<1>9. \E t, u \in Lifecycle!Task :
           Lifecycle!Calls("null", "ready") = <<Lifecycle!Call("new", t), Lifecycle!Call("new", u)>>
  BY <1>4, <1>5, <1>6, <1>7, NothingMore
<1>10. /\ Lifecycle!Calls("ready", "null") = Lifecycle!ForBoth("unref")
       /\ Lifecycle!Calls("paused", "playing") = Lifecycle!ForBoth("start")
       /\ Lifecycle!Calls("playing", "paused") = Lifecycle!StopTasks
  BY <1>4, <1>5, <1>6, <1>8, NothingMore
<1>11. /\ Lifecycle!Calls("ready", "paused") = <<Lifecycle!Call("activate", None)>>
       /\ Lifecycle!Calls("paused", "ready") =
            <<Lifecycle!Call("flush", None), Lifecycle!Call("drain", None)>>
  BY <1>4, <1>5, <1>6, <1>8, NothingMore
<1>. QED
  BY <1>2, <1>3, <1>9, <1>10, <1>11

-----------------------------------------------------------------------------
\* An element is made, and nobody is inside.
LEMMA LifecycleInit == ASSUME NoneApart, Lifecycle!Init PROVE LifecycleInv
<1>1. Lifecycle!TypeOK
  <2>1. task \in [Lifecycle!Task -> [made : BOOLEAN, started : BOOLEAN,
                          at : {"out", "top", "lock", "push", "clock"}]]
    BY DEF Lifecycle!Init, Lifecycle!NoTask
  <2>2. Len(plan) <= 4 /\ lock \in Lifecycle!Task \cup {"stream", "app", None}
        /\ {state, target, sink} \subseteq {"null", "ready", "paused", "playing"}
        /\ stream \in {"idle", "chain", "push", "cond", "woken"}
    BY DEF Lifecycle!Init
  <2>3. active \in BOOLEAN /\ path \in BOOLEAN /\ element \in {"sender", "receiver"}
    BY DEF Lifecycle!Init
  <2>. QED
    BY <2>1, <2>2, <2>3 DEF Lifecycle!TypeOK
<1>2. PlanInv
  BY DEF Lifecycle!Init, PlanInv, Planned
<1>3. InsideInv /\ LockInv
  BY DEF Lifecycle!Init, InsideInv, LockInv, Lifecycle!NoTask, Lifecycle!Running, NoneApart
<1>. QED
  BY <1>1, <1>2, <1>3 DEF LifecycleInv

\* Whatever leaves the plan, the tasks' presence, the pads, the packet and the
\* mutex alone, or has a thread leave.
LEMMA InsideFewer ==
  ASSUME InsideInv, UNCHANGED <<element, target, plan>>,
         \A t \in Lifecycle!Task : Lifecycle!Running(t)' => Lifecycle!Running(t),
         active' => active, stream' # "idle" => stream # "idle"
  PROVE  InsideInv'
BY DEF InsideInv, Lifecycle!First, Planned

LEMMA PlanSame ==
  ASSUME PlanInv, UNCHANGED <<element, target, plan>>
  PROVE  PlanInv'
BY DEF PlanInv, Lifecycle!First, Planned, Fits

\* A new transition starts from an element at rest.
LEMMA BeginHolds ==
  ASSUME LifecycleInv, NEW to \in {"null", "ready", "paused", "playing"}, Lifecycle!Begin(to),
         UNCHANGED element
  PROVE  LifecycleInv'
<1>1. /\ state = target /\ Lifecycle!Adjacent(state, to) /\ plan = << >>
      /\ target' = to /\ sink' = to /\ plan' = Lifecycle!Calls(state, to)
      /\ UNCHANGED <<element, state, task, stream, active, path, lock>>
      /\ state \in {"null", "ready", "paused", "playing"}
      /\ element \in {"sender", "receiver"} /\ Lifecycle!First' = Lifecycle!First
      /\ Lifecycle!First \in Lifecycle!Task /\ "riporter" \in Lifecycle!Task
  BY DEF Lifecycle!Begin, LifecycleInv, Lifecycle!TypeOK, Lifecycle!First, Lifecycle!Task
<1>2. \/ state = "null" /\ to = "ready"
      \/ state = "ready" /\ to = "null"
      \/ state = "ready" /\ to = "paused"
      \/ state = "paused" /\ to = "ready"
      \/ state = "paused" /\ to = "playing"
      \/ state = "playing" /\ to = "paused"
  BY <1>1, LevelValues DEF Lifecycle!Adjacent
<1>3. PlanInv'
  <2>1. CASE state = "null" /\ to = "ready"
    <3>1. PICK t, u \in Lifecycle!Task : plan' = <<Lifecycle!Call("new", t), Lifecycle!Call("new", u)>>
      BY <1>1, <2>1, PlansOf
    <3>2. /\ plan' \in Seq(CallSet)
          /\ \A c : Planned(c)' =>
               c \in {Lifecycle!Call("new", t), Lifecycle!Call("new", u)}
      BY <1>1, <3>1 DEF Planned, Lifecycle!Call, CallSet, Ops
    <3>3. \A c \in CallSet : Planned(c)' => Fits(c)'
      BY <1>1, <2>1, <3>1, <3>2 DEF Fits, Lifecycle!Call
    <3>4. Len(plan') <= 4
      BY <3>1
    <3>. QED
      BY <3>2, <3>3, <3>4 DEF PlanInv
  <2>2. CASE state = "ready" /\ to = "null"
    <3>1. plan' = <<Lifecycle!Call("unref", Lifecycle!First), Lifecycle!Call("unref", "riporter")>>
      BY <1>1, <2>2, PlansOf
    <3>2. /\ plan' \in Seq(CallSet)
          /\ \A c : Planned(c)' =>
               c \in {Lifecycle!Call("unref", Lifecycle!First), Lifecycle!Call("unref", "riporter")}
      BY <1>1, <3>1 DEF Planned, Lifecycle!Call, CallSet, Ops
    <3>3. \A c \in CallSet : Planned(c)' => Fits(c)'
      BY <1>1, <2>2, <3>1, <3>2 DEF Fits, Lifecycle!Call
    <3>4. Len(plan') <= 4
      BY <3>1
    <3>. QED
      BY <3>2, <3>3, <3>4 DEF PlanInv
  <2>3. CASE state = "ready" /\ to = "paused"
    <3>1. plan' = <<Lifecycle!Call("activate", None)>>
      BY <1>1, <2>3, PlansOf
    <3>2. /\ plan' \in Seq(CallSet)
          /\ \A c : Planned(c)' =>
               c \in {Lifecycle!Call("activate", None)}
      BY <1>1, <3>1 DEF Planned, Lifecycle!Call, CallSet, Ops
    <3>3. \A c \in CallSet : Planned(c)' => Fits(c)'
      BY <1>1, <2>3, <3>1, <3>2 DEF Fits, Lifecycle!Call
    <3>4. Len(plan') <= 4
      BY <3>1
    <3>. QED
      BY <3>2, <3>3, <3>4 DEF PlanInv
  <2>4. CASE state = "paused" /\ to = "ready"
    <3>1. plan' = <<Lifecycle!Call("flush", None), Lifecycle!Call("drain", None)>>
      BY <1>1, <2>4, PlansOf
    <3>2. /\ plan' \in Seq(CallSet)
          /\ \A c : Planned(c)' =>
               c \in {Lifecycle!Call("flush", None), Lifecycle!Call("drain", None)}
      BY <1>1, <3>1 DEF Planned, Lifecycle!Call, CallSet, Ops
    <3>3. \A c \in CallSet : Planned(c)' => Fits(c)'
      BY <1>1, <2>4, <3>1, <3>2 DEF Fits, Lifecycle!Call
    <3>4. Len(plan') <= 4
      BY <3>1
    <3>. QED
      BY <3>2, <3>3, <3>4 DEF PlanInv
  <2>5. CASE state = "paused" /\ to = "playing"
    <3>1. plan' = <<Lifecycle!Call("start", Lifecycle!First), Lifecycle!Call("start", "riporter")>>
      BY <1>1, <2>5, PlansOf
    <3>2. /\ plan' \in Seq(CallSet)
          /\ \A c : Planned(c)' =>
               c \in {Lifecycle!Call("start", Lifecycle!First), Lifecycle!Call("start", "riporter")}
      BY <1>1, <3>1 DEF Planned, Lifecycle!Call, CallSet, Ops
    <3>3. \A c \in CallSet : Planned(c)' => Fits(c)'
      BY <1>1, <2>5, <3>1, <3>2 DEF Fits, Lifecycle!Call
    <3>4. Len(plan') <= 4
      BY <3>1
    <3>. QED
      BY <3>2, <3>3, <3>4 DEF PlanInv
  <2>6. CASE state = "playing" /\ to = "paused"
    <3>1. plan' = <<Lifecycle!Call("stop", Lifecycle!First), Lifecycle!Call("stop", "riporter"),
                    Lifecycle!Call("join", Lifecycle!First), Lifecycle!Call("join", "riporter")>>
      BY <1>1, <2>6, PlansOf
    <3>2. /\ plan' \in Seq(CallSet)
          /\ \A c : Planned(c)' =>
               c \in {Lifecycle!Call("stop", Lifecycle!First), Lifecycle!Call("stop", "riporter"),
                      Lifecycle!Call("join", Lifecycle!First), Lifecycle!Call("join", "riporter")}
      BY <1>1, <3>1 DEF Planned, Lifecycle!Call, CallSet, Ops
    <3>3. \A c \in CallSet : Planned(c)' => Fits(c)'
      BY <1>1, <2>6, <3>1, <3>2 DEF Fits, Lifecycle!Call
    <3>4. Len(plan') <= 4
      BY <3>1
    <3>. QED
      BY <3>2, <3>3, <3>4 DEF PlanInv
  <2>. QED
    BY <1>2, <2>1, <2>2, <2>3, <2>4, <2>5, <2>6
<1>4. InsideInv'
  <2>1. ~ Planned(Lifecycle!Call("drain", None)) /\ ~ Planned(Lifecycle!Call("flush", None))
        /\ \A t \in Lifecycle!Task : ~ Planned(Lifecycle!Call("join", t))
    BY <1>1 DEF Planned
  <2>2. \A t \in Lifecycle!Task : Lifecycle!Running(t)' => state = "playing" /\ t \in {Lifecycle!First, "riporter"}
    BY <1>1, <2>1 DEF LifecycleInv, InsideInv, Lifecycle!Running
  <2>3. CASE state = "playing" /\ to = "paused"
    <3>1. /\ Planned(Lifecycle!Call("join", Lifecycle!First))' /\ Planned(Lifecycle!Call("join", "riporter"))'
      <4>1. plan' = <<Lifecycle!Call("stop", Lifecycle!First), Lifecycle!Call("stop", "riporter"),
                      Lifecycle!Call("join", Lifecycle!First), Lifecycle!Call("join", "riporter")>>
        BY <1>1, <2>3, PlansOf
      <4>2. 3 \in 1 .. Len(plan') /\ 4 \in 1 .. Len(plan')
            /\ plan'[3] = Lifecycle!Call("join", Lifecycle!First) /\ plan'[4] = Lifecycle!Call("join", "riporter")
        BY <4>1
      <4>. QED
        BY <1>1, <4>2 DEF Planned, Lifecycle!Call
    <3>. QED
      BY <1>1, <2>1, <2>2, <2>3, <3>1 DEF LifecycleInv, InsideInv, Lifecycle!Call
  <2>4. CASE state = "paused" /\ to = "ready"
    <3>1. plan' = <<Lifecycle!Call("flush", None), Lifecycle!Call("drain", None)>>
      BY <1>1, <2>4, PlansOf
    <3>2. Planned(Lifecycle!Call("flush", None))' /\ Planned(Lifecycle!Call("drain", None))'
      BY <3>1 DEF Planned, Lifecycle!Call
    <3>. QED
      BY <1>1, <2>2, <2>4, <3>2 DEF LifecycleInv, InsideInv
  <2>5. CASE to = "playing" \/ state \in {"null", "ready"}
    BY <1>1, <1>2, <2>1, <2>2, <2>5 DEF LifecycleInv, InsideInv
  <2>. QED
    BY <1>2, <2>3, <2>4, <2>5
<1>5. Lifecycle!TypeOK' /\ LockInv'
  BY <1>1, <1>3 DEF LifecycleInv, Lifecycle!TypeOK, LockInv, PlanInv
<1>. QED
  BY <1>3, <1>4, <1>5 DEF LifecycleInv

-----------------------------------------------------------------------------
\* The calls of a transition, one after the other.
LEMMA EndHolds == ASSUME LifecycleInv, Lifecycle!End, UNCHANGED element PROVE LifecycleInv'
<1>1. /\ UNCHANGED <<element, target, plan, task, stream, active, lock>>
      /\ state' = target
  BY DEF Lifecycle!End
<1>2. Lifecycle!TypeOK'
  BY <1>1 DEF Lifecycle!End, LifecycleInv, Lifecycle!TypeOK
<1>3. PlanInv' /\ InsideInv' /\ LockInv'
  BY <1>1, PlanSame, InsideFewer DEF LifecycleInv, LockInv, Lifecycle!Running
<1>. QED
  BY <1>2, <1>3 DEF LifecycleInv

\* A call that is done leaves a plan whose calls fit.
LEMMA PlanShorter ==
  ASSUME PlanInv, plan # << >>, Lifecycle!CallDone, UNCHANGED <<element, target>>
  PROVE  PlanInv'
<1>1. /\ plan' \in Seq(CallSet) /\ Len(plan') <= 4
      /\ \A c \in CallSet : Planned(c)' => Planned(c) /\ Fits(c)
  <2>1. Len(plan) \in Nat
    BY DEF PlanInv
  <2>. QED
    BY <2>1, TailPlan DEF PlanInv
<1>2. ASSUME NEW c \in CallSet, Planned(c)', c.op = "flush"
      PROVE  FALSE
  <2>1. plan = <<Lifecycle!Call("flush", None), Lifecycle!Call("drain", None)>>
    BY <1>1, <1>2 DEF Fits
  <2>2. plan' = <<Lifecycle!Call("drain", None)>>
    BY <2>1 DEF Lifecycle!CallDone
  <2>3. c = Lifecycle!Call("drain", None)
    BY <1>2, <2>2 DEF Planned
  <2>. QED
    BY <1>2, <2>3 DEF Lifecycle!Call
<1>3. \A c \in CallSet : Planned(c)' => Fits(c)'
  BY <1>1, <1>2 DEF Fits, Lifecycle!First
<1>. QED
  BY <1>1, <1>3 DEF PlanInv

\* Such a call may be dropped from the plan if nobody is inside on account of it.
LEMMA InsideAfterCall ==
  ASSUME PlanInv, InsideInv, plan # << >>, Lifecycle!CallDone, UNCHANGED <<element, target>>,
         \A t \in Lifecycle!Task : Lifecycle!Running(t)' => Lifecycle!Running(t) /\ Head(plan) # Lifecycle!Call("join", t),
         active' => active /\ Head(plan) # Lifecycle!Call("flush", None),
         stream' # "idle" => stream # "idle" /\ Head(plan) # Lifecycle!Call("drain", None)
  PROVE  InsideInv'
<1>1. \A c : Planned(c) /\ c # Head(plan) => Planned(c)'
  BY TailPlan DEF PlanInv
<1>2. Lifecycle!First' = Lifecycle!First
  BY DEF Lifecycle!First
<1>3. \A t \in Lifecycle!Task : Lifecycle!Running(t)' =>
        t \in {Lifecycle!First, "riporter"}' /\ (target' = "playing" \/ Planned(Lifecycle!Call("join", t))')
  BY <1>1, <1>2 DEF InsideInv
<1>4. active' => target' \in {"paused", "playing"} \/ Planned(Lifecycle!Call("flush", None))'
  BY <1>1 DEF InsideInv
<1>5. stream' # "idle" => target' \in {"paused", "playing"} \/ Planned(Lifecycle!Call("drain", None))'
  BY <1>1 DEF InsideInv
<1>. QED
  BY <1>3, <1>4, <1>5 DEF InsideInv, Lifecycle!Call

LEMMA CallHolds ==
  ASSUME NoneApart, LifecycleInv, UNCHANGED element,
         \/ Lifecycle!TaskNew \/ Lifecycle!TaskStart \/ Lifecycle!TaskStop
         \/ Lifecycle!TaskJoin \/ Lifecycle!TaskUnref
         \/ Lifecycle!PadsActivate \/ Lifecycle!PadsDrain
  PROVE  LifecycleInv'
<1>1. /\ plan # << >> /\ Lifecycle!CallDone
      /\ UNCHANGED <<element, target, state, sink, stream, path, lock>>
  BY DEF Lifecycle!TaskNew, Lifecycle!TaskStart, Lifecycle!TaskStop, Lifecycle!TaskJoin,
         Lifecycle!TaskUnref, Lifecycle!PadsActivate, Lifecycle!PadsDrain, Lifecycle!Does
<1>2. PlanInv'
  BY <1>1, PlanShorter DEF LifecycleInv
<1>3. Head(plan) \in CallSet /\ Planned(Head(plan)) /\ Fits(Head(plan))
  BY <1>1, TailPlan DEF LifecycleInv, PlanInv
<1>. DEFINE c == Head(plan)
<1>4. \A op, t : c = Lifecycle!Call(op, t) <=> c.op = op /\ c.task = t
  BY <1>3 DEF Lifecycle!Call, CallSet
<1>. HIDE DEF c
<1>5. CASE Lifecycle!TaskStart
  <2>1. /\ c.op = "start" /\ UNCHANGED active
        /\ task' = [task EXCEPT ![c.task].started = TRUE,
                                ![c.task].at = IF @ = "out" THEN "top" ELSE @]
    BY <1>5 DEF Lifecycle!TaskStart, Lifecycle!Does, Lifecycle!Subject, c
  <2>2. target = "playing" /\ c.task \in {Lifecycle!First, "riporter"} /\ c.task \in Lifecycle!Task
    BY <1>3, <2>1 DEF Fits, c, Lifecycle!First, Lifecycle!Task
  <2>3. /\ task' \in [Lifecycle!Task -> [made : BOOLEAN, started : BOOLEAN,
                               at : {"out", "top", "lock", "push", "clock"}]]
        /\ \A t \in Lifecycle!Task : t # c.task => task'[t] = task[t]
        /\ task[c.task].at = "push" => task'[c.task].at = "push"
    BY <2>1, <2>2 DEF LifecycleInv, Lifecycle!TypeOK
  <2>4. Lifecycle!TypeOK' /\ LockInv'
    BY <1>1, <1>2, <2>1, <2>3 DEF LifecycleInv, Lifecycle!TypeOK, LockInv, PlanInv
  <2>5. InsideInv'
    <3>1. \A t \in Lifecycle!Task : Lifecycle!Running(t)' => t \in {Lifecycle!First, "riporter"}'
      BY <1>1, <2>2, <2>3 DEF LifecycleInv, InsideInv, Lifecycle!Running, Lifecycle!First
    <3>. QED
      BY <1>1, <2>1, <2>2, <3>1 DEF LifecycleInv, InsideInv
  <2>. QED
    BY <1>2, <2>4, <2>5 DEF LifecycleInv
<1>6. CASE Lifecycle!TaskNew
  <2>1. /\ c.op = "new" /\ UNCHANGED <<active, lock, stream>>
        /\ task' = [task EXCEPT ![c.task] = [Lifecycle!NoTask EXCEPT !.made = TRUE]]
    BY <1>6 DEF Lifecycle!TaskNew, Lifecycle!Does, Lifecycle!Subject, c
  <2>2. target = "ready"
    BY <1>3, <2>1 DEF Fits, c
  <2>3. \A t \in Lifecycle!Task : ~ Lifecycle!Running(t)
    <3>1. \A t \in Lifecycle!Task : Lifecycle!Call("join", t) \in CallSet /\ Lifecycle!Call("join", t).op = "join"
      BY DEF Lifecycle!Call, CallSet, Ops
    <3>. QED
      BY <2>2, <3>1 DEF LifecycleInv, InsideInv, PlanInv, Fits
  <2>4. task' \in [Lifecycle!Task -> [made : BOOLEAN, started : BOOLEAN,
                            at : {"out", "top", "lock", "push", "clock"}]]
    BY <2>1 DEF LifecycleInv, Lifecycle!TypeOK, Lifecycle!NoTask
  <2>5. \A t \in Lifecycle!Task : task'[t].at = "out"
    BY <2>1, <2>3 DEF LifecycleInv, Lifecycle!TypeOK, Lifecycle!NoTask, Lifecycle!Running
  <2>6. Lifecycle!TypeOK' /\ LockInv'
    BY <1>1, <1>2, <2>1, <2>3, <2>4 DEF LifecycleInv, Lifecycle!TypeOK, LockInv, PlanInv, Lifecycle!Running
  <2>7. \A t \in Lifecycle!Task : ~ Lifecycle!Running(t)'
    BY <2>5 DEF Lifecycle!Running
  <2>8. InsideInv'
    BY <1>1, <1>4, <2>1, <2>7, InsideAfterCall DEF LifecycleInv, c
  <2>. QED
    BY <1>2, <2>6, <2>8 DEF LifecycleInv
<1>7. CASE Lifecycle!TaskUnref \/ Lifecycle!TaskStop
  <2>1. /\ c.op \in {"unref", "stop"} /\ UNCHANGED <<active, lock, stream>>
        /\ \/ task' = [task EXCEPT ![c.task].made = FALSE]
           \/ task' = [task EXCEPT ![c.task].started = FALSE]
    BY <1>7 DEF Lifecycle!TaskUnref, Lifecycle!TaskStop, Lifecycle!Does, Lifecycle!Subject, c
  <2>2. /\ task' \in [Lifecycle!Task -> [made : BOOLEAN, started : BOOLEAN,
                               at : {"out", "top", "lock", "push", "clock"}]]
        /\ \A t \in Lifecycle!Task : task'[t].at = task[t].at
    <3>1. CASE task' = [task EXCEPT ![c.task].made = FALSE]
      BY <3>1 DEF LifecycleInv, Lifecycle!TypeOK
    <3>2. CASE task' = [task EXCEPT ![c.task].started = FALSE]
      BY <3>2 DEF LifecycleInv, Lifecycle!TypeOK
    <3>. QED
      BY <2>1, <3>1, <3>2
  <2>3. Lifecycle!TypeOK' /\ LockInv'
    BY <1>1, <1>2, <2>1, <2>2 DEF LifecycleInv, Lifecycle!TypeOK, LockInv, PlanInv
  <2>4. \A t \in Lifecycle!Task : Lifecycle!Running(t)' = Lifecycle!Running(t)
    BY <2>2 DEF Lifecycle!Running
  <2>5. InsideInv'
    BY <1>1, <1>4, <2>1, <2>4, InsideAfterCall DEF LifecycleInv, c
  <2>. QED
    BY <1>2, <2>3, <2>5 DEF LifecycleInv
<1>8. CASE Lifecycle!TaskJoin
  <2>1. /\ c.op = "join" /\ UNCHANGED <<active, lock, stream, task>>
        /\ ~ Lifecycle!Running(c.task)
    BY <1>8 DEF Lifecycle!TaskJoin, Lifecycle!Does, Lifecycle!Subject, c
  <2>2. Lifecycle!TypeOK' /\ LockInv'
    BY <1>1, <1>2, <2>1 DEF LifecycleInv, Lifecycle!TypeOK, LockInv, PlanInv
  <2>3. \A t \in Lifecycle!Task : Lifecycle!Running(t)' => Lifecycle!Running(t) /\ c # Lifecycle!Call("join", t)
    BY <1>4, <2>1 DEF Lifecycle!Running
  <2>4. InsideInv'
    BY <1>1, <1>4, <2>1, <2>3, InsideAfterCall DEF LifecycleInv, c
  <2>. QED
    BY <1>2, <2>2, <2>4 DEF LifecycleInv
<1>9. CASE Lifecycle!PadsActivate
  <2>1. /\ c.op \in {"activate", "flush"} /\ UNCHANGED <<lock, stream, task>>
        /\ active' = (c.op = "activate")
    BY <1>9 DEF Lifecycle!PadsActivate, Lifecycle!Does, c
  <2>2. Lifecycle!TypeOK' /\ LockInv'
    BY <1>1, <1>2, <2>1 DEF LifecycleInv, Lifecycle!TypeOK, LockInv, PlanInv
  <2>3. active' => target = "paused"
    BY <1>3, <2>1 DEF Fits, c
  <2>4. InsideInv'
    <3>1. \A t \in Lifecycle!Task : Lifecycle!Running(t)' => Lifecycle!Running(t)
      BY <2>1 DEF Lifecycle!Running
    <3>2. CASE active'
      <4>1. \A t : Planned(Lifecycle!Call("join", t)) => Planned(Lifecycle!Call("join", t))'
        <5>1. plan \in Seq(CallSet)
          BY DEF LifecycleInv, PlanInv
        <5>2. \A t : Lifecycle!Call("join", t) # c
          BY <1>4, <2>1
        <5>. QED
          BY <1>1, <5>1, <5>2, TailPlan DEF c
      <4>. QED
        BY <1>1, <2>1, <2>3, <3>1, <3>2, <4>1 DEF LifecycleInv, InsideInv, Lifecycle!First
    <3>3. CASE ~ active'
      BY <1>1, <1>4, <2>1, <3>1, <3>3, InsideAfterCall DEF LifecycleInv, c
    <3>. QED
      BY <3>2, <3>3
  <2>. QED
    BY <1>2, <2>2, <2>4 DEF LifecycleInv
<1>10. CASE Lifecycle!PadsDrain
  <2>1. /\ c.op = "drain" /\ UNCHANGED <<active, lock, stream, task>> /\ stream = "idle"
    BY <1>10 DEF Lifecycle!PadsDrain, Lifecycle!Does, c
  <2>2. Lifecycle!TypeOK' /\ LockInv'
    BY <1>1, <1>2, <2>1 DEF LifecycleInv, Lifecycle!TypeOK, LockInv, PlanInv
  <2>3. InsideInv'
    BY <1>1, <1>4, <2>1, InsideAfterCall DEF LifecycleInv, c, Lifecycle!Running
  <2>. QED
    BY <1>2, <2>2, <2>3 DEF LifecycleInv
<1>. QED
  BY <1>5, <1>6, <1>7, <1>8, <1>9, <1>10

-----------------------------------------------------------------------------
\* The threads of the element: a task that is out stays out.
LEMMA TaskStepHolds ==
  ASSUME NoneApart, LifecycleInv, UNCHANGED element, NEW t \in Lifecycle!Task,
         \/ Lifecycle!TaskLoop(t) \/ Lifecycle!TaskRun(t)
         \/ Lifecycle!TaskPush(t) \/ Lifecycle!TaskClock(t)
  PROVE  LifecycleInv'
<1>1. /\ UNCHANGED <<element, state, target, plan, sink, active>>
      /\ \E from \in {"top", "lock", "push", "clock"},
            to \in {"out", "top", "lock", "push", "clock"} :
           /\ task[t].at = from /\ task' = [task EXCEPT ![t].at = to]
           /\ \/ from \in {"top", "clock"} /\ lock' = lock /\ stream' = stream
              \/ lock = None /\ lock' = None
                 /\ \/ stream' = stream
                    \/ stream = "cond" /\ stream' = "woken"
              \/ lock = None /\ lock' = t /\ to = "push" /\ stream' = stream
              \/ lock' = None /\ stream' = stream
      /\ path' \in BOOLEAN
  <2>1. path \in BOOLEAN
    BY DEF LifecycleInv, Lifecycle!TypeOK
  <2>2. CASE Lifecycle!TaskLoop(t)
    BY <2>1, <2>2 DEF Lifecycle!TaskLoop, Lifecycle!TaskAt
  <2>3. CASE Lifecycle!TaskPush(t)
    BY <2>1, <2>3 DEF Lifecycle!TaskPush, Lifecycle!TaskAt
  <2>4. CASE Lifecycle!TaskClock(t)
    BY <2>1, <2>4 DEF Lifecycle!TaskClock, Lifecycle!TaskAt
  <2>5. CASE Lifecycle!QuietRun(t)
    BY <2>1, <2>5 DEF Lifecycle!QuietRun, Lifecycle!TaskAt
  <2>6. CASE t = "scheduler" /\ Lifecycle!SchedulerRun
    BY <2>6 DEF Lifecycle!SchedulerRun, Lifecycle!TaskAt
  <2>7. CASE t = "riporter" /\ Lifecycle!RiporterRun
    BY <2>1, <2>7 DEF Lifecycle!RiporterRun, Lifecycle!TaskAt
  <2>. QED
    BY <2>2, <2>3, <2>4, <2>5, <2>6, <2>7 DEF Lifecycle!TaskRun
<1>2. PICK from \in {"top", "lock", "push", "clock"},
           to \in {"out", "top", "lock", "push", "clock"} :
           /\ task[t].at = from /\ task' = [task EXCEPT ![t].at = to]
           /\ \/ from \in {"top", "clock"} /\ lock' = lock /\ stream' = stream
              \/ lock = None /\ lock' = None
                 /\ \/ stream' = stream
                    \/ stream = "cond" /\ stream' = "woken"
              \/ lock = None /\ lock' = t /\ to = "push" /\ stream' = stream
              \/ lock' = None /\ stream' = stream
  BY <1>1
<1>3. /\ task' \in [Lifecycle!Task -> [made : BOOLEAN, started : BOOLEAN,
                             at : {"out", "top", "lock", "push", "clock"}]]
      /\ task'[t].at = to
      /\ \A u \in Lifecycle!Task : u # t => task'[u] = task[u]
  BY <1>2 DEF LifecycleInv, Lifecycle!TypeOK
<1>4. Lifecycle!TypeOK'
  <2>1. lock' \in Lifecycle!Task \cup {"stream", "app", None}
    BY <1>2 DEF LifecycleInv, Lifecycle!TypeOK
  <2>2. stream' \in {"idle", "chain", "push", "cond", "woken"}
    BY <1>2 DEF LifecycleInv, Lifecycle!TypeOK
  <2>. QED
    BY <1>1, <1>3, <2>1, <2>2 DEF LifecycleInv, Lifecycle!TypeOK
<1>5. LockInv'
  <2>1. CASE lock' = None
    BY <2>1 DEF LockInv, NoneApart
  <2>2. CASE lock' = t /\ to = "push"
    <3>1. t # "stream"
      BY DEF Lifecycle!Task
    <3>. QED
      BY <1>3, <2>2, <3>1 DEF LockInv
  <2>3. CASE from \in {"top", "clock"} /\ lock' = lock /\ stream' = stream
    BY <1>2, <1>3, <2>3 DEF LifecycleInv, LockInv
  <2>. QED
    BY <1>2, <2>1, <2>2, <2>3
<1>6. PlanInv' /\ InsideInv'
  <2>1. \A u \in Lifecycle!Task : Lifecycle!Running(u)' => Lifecycle!Running(u)
    BY <1>2, <1>3 DEF Lifecycle!Running
  <2>2. stream' # "idle" => stream # "idle"
    BY <1>2
  <2>. QED
    BY <1>1, <2>1, <2>2, PlanSame, InsideFewer DEF LifecycleInv
<1>. QED
  BY <1>4, <1>5, <1>6 DEF LifecycleInv

\* A packet comes in by active pads only; pads that are to be flushed are to
\* be drained too.
LEMMA ChainHolds == ASSUME LifecycleInv, UNCHANGED element, Lifecycle!Chain PROVE LifecycleInv'
<1>1. /\ UNCHANGED <<element, state, target, plan, sink, task, active, path, lock>>
      /\ active /\ stream = "idle" /\ stream' = "chain"
  BY DEF Lifecycle!Chain
<1>2. Lifecycle!TypeOK' /\ LockInv'
  BY <1>1 DEF LifecycleInv, Lifecycle!TypeOK, LockInv
<1>3. PlanInv'
  BY <1>1, PlanSame DEF LifecycleInv
<1>4. target \in {"paused", "playing"} \/ Planned(Lifecycle!Call("drain", None))
  <2>1. CASE Planned(Lifecycle!Call("flush", None))
    <3>1. Lifecycle!Call("flush", None) \in CallSet /\ Lifecycle!Call("flush", None).op = "flush"
      BY DEF Lifecycle!Call, CallSet, Ops
    <3>2. plan = <<Lifecycle!Call("flush", None), Lifecycle!Call("drain", None)>>
      BY <2>1, <3>1 DEF LifecycleInv, PlanInv, Fits
    <3>. QED
      BY <3>2 DEF Planned
  <2>. QED
    BY <1>1, <2>1 DEF LifecycleInv, InsideInv
<1>5. InsideInv'
  BY <1>1, <1>4 DEF LifecycleInv, InsideInv, Lifecycle!Running, Lifecycle!First, Planned
<1>. QED
  BY <1>2, <1>3, <1>5 DEF LifecycleInv

\* A packet goes through, or a pad is refused.
LEMMA ThroughHolds ==
  ASSUME NoneApart, LifecycleInv, UNCHANGED element,
         Lifecycle!StreamRun \/ Lifecycle!StreamPush \/ Lifecycle!RequestRefuse
  PROVE  LifecycleInv'
<1>1. /\ UNCHANGED <<element, state, target, plan, sink, task, active, path>>
      /\ stream' # "idle" => stream # "idle"
      /\ stream' \in {"idle", "chain", "push", "cond", "woken"}
      /\ \/ lock' \in {None, "app"}
         \/ lock' = "stream" /\ stream' = "push"
         \/ lock' = lock /\ lock # "stream"
  <2>1. stream \in {"idle", "chain", "push", "cond", "woken"}
    BY DEF LifecycleInv, Lifecycle!TypeOK
  <2>2. CASE Lifecycle!SenderChain
    BY <2>2 DEF Lifecycle!SenderChain
  <2>3. CASE Lifecycle!SenderResume
    BY <2>3 DEF Lifecycle!SenderResume
  <2>4. CASE Lifecycle!ReceiverChain
    BY <2>4 DEF Lifecycle!ReceiverChain
  <2>5. CASE Lifecycle!StreamPush
    BY <2>5 DEF Lifecycle!StreamPush
  <2>6. CASE Lifecycle!RequestRefuse
    BY <2>1, <2>6 DEF Lifecycle!RequestRefuse
  <2>. QED
    BY <2>2, <2>3, <2>4, <2>5, <2>6 DEF Lifecycle!StreamRun
<1>2. Lifecycle!TypeOK'
  BY <1>1 DEF LifecycleInv, Lifecycle!TypeOK
<1>3. LockInv'
  <2>1. "app" \notin Lifecycle!Task /\ "stream" \notin Lifecycle!Task
    BY DEF Lifecycle!Task
  <2>. QED
    BY <1>1, <2>1 DEF LifecycleInv, LockInv, NoneApart
<1>4. PlanInv' /\ InsideInv'
  <2>1. \A t \in Lifecycle!Task : Lifecycle!Running(t)' => Lifecycle!Running(t)
    BY <1>1 DEF Lifecycle!Running
  <2>. QED
    BY <1>1, <2>1, PlanSame, InsideFewer DEF LifecycleInv
<1>. QED
  BY <1>2, <1>3, <1>4 DEF LifecycleInv

LEMMA LifecycleNext ==
  ASSUME NoneApart, LifecycleInv, [Lifecycle!Next]_lifecycle PROVE LifecycleInv'
<1>1. CASE UNCHANGED lifecycle
  BY <1>1 DEF lifecycle, LifecycleInv, Lifecycle!TypeOK, PlanInv, Fits, Planned, InsideInv, LockInv,
              Lifecycle!Running, Lifecycle!First
<1>2. CASE Lifecycle!Next
  <2>1. UNCHANGED element
    BY <1>2 DEF Lifecycle!Next
  <2>2. CASE \E to \in {"null", "ready", "paused", "playing"} : Lifecycle!Begin(to)
    BY <2>1, <2>2, BeginHolds
  <2>3. CASE Lifecycle!ChangeStep
    BY <2>1, <2>3, EndHolds, CallHolds DEF Lifecycle!ChangeStep
  <2>4. CASE \E t \in Lifecycle!Task : \/ Lifecycle!TaskLoop(t) \/ Lifecycle!TaskRun(t)
                                      \/ Lifecycle!TaskPush(t) \/ Lifecycle!TaskClock(t)
    BY <2>1, <2>4, TaskStepHolds
  <2>5. CASE Lifecycle!Chain
    BY <2>1, <2>5, ChainHolds
  <2>6. CASE Lifecycle!StreamRun \/ Lifecycle!StreamPush \/ Lifecycle!RequestRefuse
    BY <2>1, <2>6, ThroughHolds
  <2>. QED
    BY <1>2, <2>2, <2>3, <2>4, <2>5, <2>6 DEF Lifecycle!Next
<1>. QED
  BY <1>1, <1>2

\* The plan is empty, so nobody is left that it would have waited for.
LEMMA QuietFromInv == ASSUME LifecycleInv PROVE Lifecycle!QuietBelowPaused
<1>1. SUFFICES ASSUME plan = << >>, state = target, state \in {"null", "ready"}
               PROVE  /\ stream = "idle" /\ \A t \in Lifecycle!Task : ~ Lifecycle!Running(t)
                      /\ lock \in {None, "app"}
  BY DEF Lifecycle!QuietBelowPaused
<1>2. \A c : ~ Planned(c)
  BY <1>1 DEF Planned
<1>3. stream = "idle" /\ \A t \in Lifecycle!Task : ~ Lifecycle!Running(t)
  BY <1>1, <1>2 DEF LifecycleInv, InsideInv
<1>4. lock \in {None, "app"}
  BY <1>3 DEF LifecycleInv, Lifecycle!TypeOK, LockInv, Lifecycle!Running
<1>. QED
  BY <1>3, <1>4

-----------------------------------------------------------------------------
(* The playouter's ring.                                                   *)

Half == IntSpace \div 2

\* A place less than a round before the ring or behind it, brought back to it.
Norm(p) == IF p < 0 THEN p + Slots ELSE IF p >= Slots THEN p - Slots ELSE p

\* The slot of the k-th of the last skews.
SlotOf(k) == Norm(path_skew_index - Len(recent) + k - 1)

\* The last skews are in the slots before the index, in order; what is counted
\* is how many there are, until the counter overflows.
RingInv ==
  /\ path_skew_index \in Playouts!Slot
  /\ path_skews \in [Playouts!Slot -> Skews \cup {0}]
  /\ path_skew_counter \in -Half .. Half - 1
  /\ recent \in Seq(Skews) /\ Len(recent) <= Slots
  /\ wrapped \in BOOLEAN
  /\ ~ wrapped =>
       /\ path_skew_counter >= 0
       /\ Len(recent) = IF path_skew_counter < Slots THEN path_skew_counter ELSE Slots
       /\ Len(recent) < Slots => path_skew_index = Len(recent)
  /\ wrapped => Len(recent) = Slots
  /\ \A k \in 1 .. Len(recent) : path_skews[SlotOf(k)] = recent[k]

LEMMA RingConstants ==
  /\ Slots \in Nat \ {0} /\ Half \in Nat /\ IntSpace = 2 * Half /\ Half > Slots
  /\ Paths \in 0 .. Slots /\ Skews \subseteq Nat
BY ElementsAssumption DEF Half

\* A number that is less than twice the modulus.
LEMMA ModIs ==
  ASSUME NEW n \in Nat \ {0}, NEW a \in 0 .. 2 * n - 1
  PROVE  a % n = IF a < n THEN a ELSE a - n
<1>1. CASE a < n
  BY <1>1
<1>2. CASE a >= n
  BY <1>2
<1>. QED
  BY <1>1, <1>2

LEMMA MaxOfTwo == ASSUME NEW a \in Int PROVE Playouts!Max({0, a}) = IF a > 0 THEN a ELSE 0
BY DEF Playouts!Max

LEMMA MaxOfOne == ASSUME NEW a \in Int PROVE Playouts!Max({a}) = a
BY DEF Playouts!Max

\* What is left of two sequences, joined, without the first d elements.
LastOf(q, r, d) == SubSeq(q \o r, 1 + d, Len(q \o r))

LEMMA LastOfJoined ==
  ASSUME NEW S, NEW q \in Seq(S), NEW r \in Seq(S), NEW d \in 0 .. Len(q) + Len(r)
  PROVE  /\ LastOf(q, r, d) \in Seq(S)
         /\ Len(LastOf(q, r, d)) = Len(q) + Len(r) - d
         /\ \A k \in 1 .. Len(q) + Len(r) - d :
              LastOf(q, r, d)[k] = IF k + d <= Len(q) THEN q[k + d] ELSE r[k + d - Len(q)]
<1> DEFINE all == q \o r
           last == LastOf(q, r, d)
<1>1. all \in Seq(S) /\ Len(all) = Len(q) + Len(r) /\ Len(q) \in Nat /\ Len(r) \in Nat
  OBVIOUS
<1>2. \A k \in 1 .. Len(all) : all[k] = IF k <= Len(q) THEN q[k] ELSE r[k - Len(q)]
  BY <1>1
<1>3. last = SubSeq(all, 1 + d, Len(all))
  BY DEF LastOf
<1> HIDE DEF all, last
<1>4. /\ last \in Seq(S) /\ Len(last) = Len(all) - d
      /\ \A k \in 1 .. Len(all) - d : last[k] = all[k + d]
  <2>1. last \in Seq(S) /\ Len(last) = Len(all) - d
    BY <1>1, <1>3
  <2>2. \A k \in 1 .. Len(all) - d : last[k] = all[k + d]
    BY <1>1, <1>3
  <2>. QED
    BY <2>1, <2>2
<1>5. \A k \in 1 .. Len(all) - d : k + d \in 1 .. Len(all)
  BY <1>1
<1>. QED
  BY <1>1, <1>2, <1>4, <1>5 DEF last

LEMMA RingInit == ASSUME Playouts!Init PROVE RingInv
<1>1. /\ path_skew_index = 0 /\ path_skew_counter = 0 /\ recent = << >> /\ wrapped = FALSE
      /\ path_skews = [i \in Playouts!Slot |-> 0]
  BY DEF Playouts!Init
<1>2. 0 \in Playouts!Slot
  BY RingConstants DEF Playouts!Slot
<1>3. recent \in Seq(Skews) /\ Len(recent) = 0
  BY <1>1
<1>4. path_skews \in [Playouts!Slot -> Skews \cup {0}]
  BY <1>1
<1>5. \A k \in 1 .. Len(recent) : path_skews[SlotOf(k)] = recent[k]
  BY <1>3
<1>6. 0 \in -Half .. Half - 1 /\ 0 <= Slots /\ 0 < Slots
  BY RingConstants
<1>. QED
  BY <1>1, <1>2, <1>3, <1>4, <1>5, <1>6 DEF RingInv

\* A run of at most a ring of skews: each has a slot of its own.
LEMMA SlotsOfRun ==
  ASSUME path_skew_index \in Playouts!Slot, NEW m \in 0 .. Slots
  PROVE  Playouts!SlotAfter(m) = Norm(path_skew_index + m) /\ Norm(path_skew_index + m) \in Playouts!Slot
<1> DEFINE a == path_skew_index + m
<1>1. a \in 0 .. 2 * Slots - 1
  BY RingConstants DEF Playouts!Slot
<1>2. Playouts!SlotAfter(m) = a % Slots /\ Norm(path_skew_index + m) = Norm(a)
  BY DEF Playouts!SlotAfter
<1> HIDE DEF a
<1>3. a % Slots = IF a < Slots THEN a ELSE a - Slots
  BY <1>1, RingConstants, ModIs
<1>. QED
  BY <1>1, <1>2, <1>3, RingConstants DEF Norm, Playouts!Slot

LEMMA RecordedIs ==
  ASSUME RingInv, NEW n \in 0 .. Slots, NEW run \in [1 .. n -> Skews]
  PROVE  /\ \A m \in 1 .. n : Playouts!Recorded(run)[Norm(path_skew_index + m - 1)] = run[m]
         /\ \A i \in Playouts!Slot : (\A m \in 1 .. n : Norm(path_skew_index + m - 1) # i) =>
              Playouts!Recorded(run)[i] = path_skews[i]
         /\ Playouts!Recorded(run) \in [Playouts!Slot -> Skews \cup {0}]
<1> DEFINE later(i) == {m \in 1 .. n : Norm(path_skew_index + m - 1) = i}
<1>1. Len(run) = n
  BY RingConstants
<1>2. \A m \in 1 .. n : /\ Playouts!SlotAfter(m - 1) = Norm(path_skew_index + m - 1)
                        /\ Norm(path_skew_index + m - 1) \in Playouts!Slot
  <2>1. SUFFICES ASSUME NEW m \in 1 .. n
                 PROVE  /\ Playouts!SlotAfter(m - 1) = Norm(path_skew_index + m - 1)
                        /\ Norm(path_skew_index + m - 1) \in Playouts!Slot
    OBVIOUS
  <2>2. m - 1 \in 0 .. Slots /\ path_skew_index + (m - 1) = path_skew_index + m - 1
    BY RingConstants DEF RingInv, Playouts!Slot
  <2>. QED
    BY <2>2, SlotsOfRun DEF RingInv
<1>3. \A i \in Playouts!Slot :
        Playouts!Recorded(run)[i] =
          IF later(i) = {} THEN path_skews[i] ELSE run[Playouts!Max(later(i))]
  BY <1>1, <1>2 DEF Playouts!Recorded
<1>4. \A m, l \in 1 .. n :
        Norm(path_skew_index + m - 1) = Norm(path_skew_index + l - 1) => m = l
  BY RingConstants DEF RingInv, Norm, Playouts!Slot
<1>5. ASSUME NEW m \in 1 .. n
      PROVE  Playouts!Recorded(run)[Norm(path_skew_index + m - 1)] = run[m]
  <2>1. later(Norm(path_skew_index + m - 1)) = {m}
    BY <1>4
  <2>2. Playouts!Max({m}) = m
    BY MaxOfOne
  <2>. QED
    BY <2>1, <2>2, <1>2, <1>3
<1>6. ASSUME NEW i \in Playouts!Slot, \A m \in 1 .. n : Norm(path_skew_index + m - 1) # i
      PROVE  Playouts!Recorded(run)[i] = path_skews[i]
  <2>1. later(i) = {}
    BY <1>6
  <2>. QED
    BY <2>1, <1>3
<1>7. \A i \in Playouts!Slot : Playouts!Recorded(run)[i] \in Skews \cup {0}
  <2>1. SUFFICES ASSUME NEW i \in Playouts!Slot
                 PROVE  Playouts!Recorded(run)[i] \in Skews \cup {0}
    OBVIOUS
  <2>2. CASE \A m \in 1 .. n : Norm(path_skew_index + m - 1) # i
    BY <2>2, <1>6 DEF RingInv
  <2>3. CASE \E m \in 1 .. n : Norm(path_skew_index + m - 1) = i
    BY <2>3, <1>5
  <2>. QED
    BY <2>2, <2>3
<1>8. Playouts!Recorded(run) \in [Playouts!Slot -> Skews \cup {0}]
  BY <1>7 DEF Playouts!Recorded
<1>. QED
  BY <1>5, <1>6, <1>8

\* How many are dropped and how many stay.
LEMMA HowManyStay ==
  ASSUME NEW l \in 0 .. Slots, NEW n \in 0 .. Slots,
         NEW d, d = IF l + n > Slots THEN l + n - Slots ELSE 0
  PROVE  /\ d \in 0 .. l + n /\ d <= Slots
         /\ d = IF l + n - Slots > 0 THEN l + n - Slots ELSE 0
         /\ l + n - d = IF l + n < Slots THEN l + n ELSE Slots
BY RingConstants

\* Going n places on and dropping d from the beginning leaves the others where
\* they were.
LEMMA KeptPlace ==
  ASSUME NEW i \in 0 .. Slots - 1, NEW l \in 0 .. Slots, NEW n \in 0 .. Slots,
         NEW d, d = IF l + n > Slots THEN l + n - Slots ELSE 0, NEW k \in 1 .. l + n - d
  PROVE  Norm(Norm(i + n) - (l + n - d) + k - 1) = Norm(i - l + (k + d) - 1)
BY RingConstants DEF Norm

\* What a run makes of the history, the index and the counter.
LEMMA RunSteps ==
  ASSUME RingInv, NEW n \in 0 .. Slots, NEW run \in [1 .. n -> Skews],
         Playouts!PlayouterRun(run),
         NEW d, d = IF Len(recent) + n > Slots THEN Len(recent) + n - Slots ELSE 0
  PROVE  /\ path_skews' = Playouts!Recorded(run)
         /\ path_skew_index' = Norm(path_skew_index + n)
         /\ path_skew_index' \in Playouts!Slot
         /\ path_skew_counter' = IF path_skew_counter + n < Half THEN path_skew_counter + n
                                 ELSE path_skew_counter + n - IntSpace
         /\ wrapped' = (wrapped \/ path_skew_counter' < path_skew_counter)
         /\ recent' \in Seq(Skews) /\ Len(recent') = Len(recent) + n - d
         /\ \A k \in 1 .. Len(recent') :
              recent'[k] = IF k + d <= Len(recent) THEN recent[k + d]
                           ELSE run[k + d - Len(recent)]
<1>1. Len(run) = n /\ run \in Seq(Skews)
  BY RingConstants
<1>2. /\ path_skews' = Playouts!Recorded(run)
      /\ path_skew_index' = Playouts!SlotAfter(n)
      /\ path_skew_counter' = Playouts!Counted(path_skew_counter, n)
      /\ wrapped' = (wrapped \/ path_skew_counter' < path_skew_counter)
      /\ recent' = SubSeq(recent \o run,
                          1 + Playouts!Max({0, Len(recent \o run) - Slots}), Len(recent \o run))
  BY <1>1 DEF Playouts!PlayouterRun
<1>3. path_skew_index' = Norm(path_skew_index + n) /\ path_skew_index' \in Playouts!Slot
  BY <1>2, SlotsOfRun DEF RingInv
<1>4. path_skew_counter' = IF path_skew_counter + n < Half THEN path_skew_counter + n
                           ELSE path_skew_counter + n - IntSpace
  <2> DEFINE a == path_skew_counter + n + Half
  <2>1. a \in 0 .. 2 * IntSpace - 1 /\ IntSpace \in Nat \ {0}
    BY RingConstants DEF RingInv
  <2>2. path_skew_counter' = (a % IntSpace) - Half
    BY <1>2 DEF Playouts!Counted, Half
  <2> HIDE DEF a
  <2>3. a % IntSpace = IF a < IntSpace THEN a ELSE a - IntSpace
    BY <2>1, ModIs
  <2>4. /\ a = path_skew_counter + n + Half
        /\ path_skew_counter \in -Half .. Half - 1
    BY DEF a, RingInv
  <2>. QED
    BY <2>2, <2>3, <2>4, RingConstants
<1>5. recent \in Seq(Skews) /\ Len(recent) \in 0 .. Slots
  BY RingConstants DEF RingInv
<1>6. /\ d \in 0 .. Len(recent) + n
      /\ d = IF Len(recent) + n - Slots > 0 THEN Len(recent) + n - Slots ELSE 0
  BY <1>5, HowManyStay
<1> DEFINE length == Len(recent \o run)
<1>7. length = Len(recent) + n
  BY <1>1, <1>5
<1>8. recent' = SubSeq(recent \o run, 1 + Playouts!Max({0, length - Slots}), length)
  BY <1>2
<1> HIDE DEF length
<1>9. Playouts!Max({0, length - Slots}) = d
  <2>1. length - Slots \in Int
    BY <1>5, <1>7, RingConstants
  <2>2. Playouts!Max({0, length - Slots}) = IF length - Slots > 0 THEN length - Slots ELSE 0
    BY <2>1, MaxOfTwo
  <2>3. (IF length - Slots > 0 THEN length - Slots ELSE 0) = d
    BY <1>5, <1>6, <1>7, RingConstants
  <2>. QED
    BY <2>2, <2>3
<1>10. recent' = LastOf(recent, run, d)
  BY <1>8, <1>9 DEF LastOf, length
<1>11. /\ recent' \in Seq(Skews) /\ Len(recent') = Len(recent) + n - d
       /\ \A k \in 1 .. Len(recent') :
            recent'[k] = IF k + d <= Len(recent) THEN recent[k + d]
                         ELSE run[k + d - Len(recent)]
  <2> DEFINE last == LastOf(recent, run, d)
  <2>1. d \in 0 .. Len(recent) + Len(run)
    BY <1>1, <1>6
  <2>2. /\ last \in Seq(Skews) /\ Len(last) = Len(recent) + Len(run) - d
        /\ \A k \in 1 .. Len(recent) + Len(run) - d :
             last[k] = IF k + d <= Len(recent) THEN recent[k + d]
                       ELSE run[k + d - Len(recent)]
    <3>1. /\ LastOf(recent, run, d) \in Seq(Skews)
          /\ Len(LastOf(recent, run, d)) = Len(recent) + Len(run) - d
          /\ \A k \in 1 .. Len(recent) + Len(run) - d :
               LastOf(recent, run, d)[k] = IF k + d <= Len(recent) THEN recent[k + d]
                                           ELSE run[k + d - Len(recent)]
      BY <1>1, <1>5, <2>1, LastOfJoined, ZenonT(40)
    <3>. QED
      BY <3>1
  <2>3. recent' = last
    BY <1>10
  <2> HIDE DEF last
  <2>. QED
    BY <1>1, <2>2, <2>3
<1>. QED
  BY <1>2, <1>3, <1>4, <1>11

LEMMA RunKeepsRing == ASSUME RingInv, Playouts!Next PROVE RingInv'
<1>0. PICK n \in 0 .. Slots : \E run \in [1 .. n -> Skews] : Playouts!PlayouterRun(run)
  BY RingConstants DEF Playouts!Next, Playouts!Reports
<1>1. PICK run \in [1 .. n -> Skews] : Playouts!PlayouterRun(run)
  BY <1>0
<1> DEFINE L == Len(recent)
           d == IF L + n > Slots THEN L + n - Slots ELSE 0
<1>2. /\ path_skews' = Playouts!Recorded(run)
      /\ path_skew_index' = Norm(path_skew_index + n) /\ path_skew_index' \in Playouts!Slot
      /\ recent' \in Seq(Skews) /\ Len(recent') = L + n - d
      /\ \A k \in 1 .. Len(recent') :
           recent'[k] = IF k + d <= L THEN recent[k + d] ELSE run[k + d - L]
  BY <1>1, RunSteps
<1>3. /\ path_skew_counter' = IF path_skew_counter + n < Half THEN path_skew_counter + n
                              ELSE path_skew_counter + n - IntSpace
      /\ wrapped' = (wrapped \/ path_skew_counter' < path_skew_counter)
  BY <1>1, RunSteps
<1>4. /\ L \in 0 .. Slots /\ path_skew_index \in 0 .. Slots - 1
      /\ path_skew_counter \in -Half .. Half - 1
  BY RingConstants DEF RingInv, Playouts!Slot
<1>5. d \in 0 .. Slots
  BY <1>4, RingConstants
<1>6. Len(recent') = IF L + n < Slots THEN L + n ELSE Slots
  <2>1. Len(recent') = L + n - d
    BY <1>2
  <2>2. L + n - d = IF L + n < Slots THEN L + n ELSE Slots
    BY <1>4, HowManyStay
  <2>. QED
    BY <2>1, <2>2
<1> HIDE DEF d
<1>7. ASSUME NEW k \in 1 .. Len(recent') PROVE path_skews'[SlotOf(k)'] = recent'[k]
  <2>1. k \in 1 .. L + n - d /\ k + d \in 1 .. L + n
    BY <1>2, <1>4, <1>5
  <2>2. SlotOf(k)' = Norm(path_skew_index - L + (k + d) - 1)
    <3>1. SlotOf(k)' = Norm(Norm(path_skew_index + n) - (L + n - d) + k - 1)
      BY <1>2 DEF SlotOf, Norm
    <3>2. d = IF L + n > Slots THEN L + n - Slots ELSE 0
      BY DEF d
    <3> HIDE DEF L
    <3>. QED
      BY <3>1, <3>2, <2>1, <1>4, KeptPlace, SMTT(40)
  <2>3. CASE k + d > L
    <3>1. k + d - L \in 1 .. n /\ recent'[k] = run[k + d - L]
      BY <1>2, <1>4, <2>1, <2>3, <1>5
    <3>2. path_skew_index - L + (k + d) - 1 = path_skew_index + (k + d - L) - 1
      BY <1>4, <1>5, <2>1
    <3>. QED
      BY <3>1, <3>2, <2>2, <1>2, RecordedIs
  <2>4. CASE k + d <= L
    <3> DEFINE l == k + d
    <3>1. l \in 1 .. L /\ recent'[k] = recent[l] /\ l - L + n <= Slots
      BY <1>2, <1>4, <1>5, <2>1, <2>4, RingConstants
    <3>2. SlotOf(k)' = SlotOf(l)
      BY <2>2 DEF SlotOf
    <3>3. l > L + n - Slots
      BY <2>1, <1>4, RingConstants DEF d
    <3> HIDE DEF l, L
    <3>4. /\ SlotOf(l) \in Playouts!Slot
          /\ \A m \in 1 .. n : Norm(path_skew_index + m - 1) # SlotOf(l)
      BY <3>1, <3>3, <1>4, RingConstants, SMTT(40) DEF SlotOf, Norm, Playouts!Slot, L
    <3>5. path_skews'[SlotOf(l)] = path_skews[SlotOf(l)]
      BY <3>4, <1>2, RecordedIs
    <3>6. path_skews[SlotOf(l)] = recent[l]
      BY <3>1 DEF RingInv, L
    <3>. QED
      BY <3>1, <3>2, <3>5, <3>6
  <2>. QED
    BY <2>1, <2>3, <2>4, <1>4
<1>8. path_skew_counter' \in -Half .. Half - 1
  BY <1>3, <1>4, RingConstants
<1>9. ASSUME ~ wrapped'
      PROVE  /\ path_skew_counter' >= 0
             /\ Len(recent') = IF path_skew_counter' < Slots THEN path_skew_counter' ELSE Slots
             /\ Len(recent') < Slots => path_skew_index' = Len(recent')
  <2>1. ~ wrapped /\ ~ (path_skew_counter' < path_skew_counter)
    BY <1>3, <1>9 DEF RingInv
  <2>2. path_skew_counter' = path_skew_counter + n
    BY <2>1, <1>3, <1>4, RingConstants
  <2>3. /\ path_skew_counter >= 0
        /\ L = IF path_skew_counter < Slots THEN path_skew_counter ELSE Slots
        /\ L < Slots => path_skew_index = L
    BY <2>1 DEF RingInv
  <2>. QED
    BY <2>2, <2>3, <1>2, <1>4, <1>6, RingConstants, SMTT(40) DEF Norm
<1>10. ASSUME wrapped' PROVE Len(recent') = Slots
  <2>1. CASE wrapped
    <3>1. L = Slots
      BY <2>1 DEF RingInv
    <3>. QED
      BY <3>1, <1>6, RingConstants
  <2>2. CASE ~ wrapped
    <3>1. path_skew_counter' < path_skew_counter
      BY <2>2, <1>3, <1>10
    <3>2. path_skew_counter + n >= Half
      BY <3>1, <1>3, <1>4, RingConstants
    <3>3. L = IF path_skew_counter < Slots THEN path_skew_counter ELSE Slots
      BY <2>2 DEF RingInv
    <3>. QED
      BY <3>2, <3>3, <1>4, <1>6, RingConstants
  <2>. QED
    BY <2>1, <2>2
<1>11. /\ wrapped' \in BOOLEAN /\ Len(recent') <= Slots
       /\ path_skews' \in [Playouts!Slot -> Skews \cup {0}]
  BY <1>2, <1>3, <1>6, RecordedIs, RingConstants DEF RingInv
<1>. QED
  BY <1>2, <1>7, <1>8, <1>9, <1>10, <1>11, RingConstants DEF RingInv, Half, Playouts!Slot

LEMMA RingNext == ASSUME RingInv, [Playouts!Next]_playouts PROVE RingInv'
<1>1. CASE UNCHANGED playouts
  BY <1>1 DEF playouts, RingInv, SlotOf, Norm
<1>2. CASE Playouts!Next
  BY <1>2, RunKeepsRing
<1>. QED
  BY <1>1, <1>2

\* The maximum of the library is the largest element.
LEMMA MaxIsLargest ==
  ASSUME NEW T \in SUBSET Nat, IsFiniteSet(T), T # {}
  PROVE  Playouts!Max(T) \in T /\ \A x \in T : x <= Playouts!Max(T)
<1>1. \E x \in T : \A y \in T : x >= y
  BY LargestNat
<1>. QED
  BY <1>1 DEF Playouts!Max

Largest == Playouts!Max(Skews \cup {0})

LEMMA LargestSkew == Largest \in Nat /\ \A x \in Skews \cup {0} : x <= Largest
<1>1. Skews \cup {0} \in SUBSET Nat /\ IsFiniteSet(Skews \cup {0}) /\ Skews \cup {0} # {}
  BY ElementsAssumption, FS_AddElement
<1>. QED
  BY <1>1, MaxIsLargest DEF Largest

\* Whatever the counter says, what the loop finds is one of the skews or 0.
LEMMA FoundIsASkew ==
  ASSUME NEW skews \in [Playouts!Slot -> Skews \cup {0}], NEW counter \in Int
  PROVE  Playouts!MaxPathSkew(skews, counter) \in 0 .. Largest
<1> DEFINE T == {0} \cup {skews[i] : i \in Playouts!Used(counter)}
<1>1. T \subseteq Skews \cup {0} /\ IsFiniteSet(Skews \cup {0})
  BY ElementsAssumption, FS_AddElement DEF Playouts!Used
<1>2. IsFiniteSet(T) /\ T \in SUBSET Nat /\ T # {}
  <2>1. T # {}
    OBVIOUS
  <2> HIDE DEF T
  <2>2. Skews \cup {0} \subseteq Nat
    BY RingConstants
  <2>. QED
    BY <1>1, <2>1, <2>2, FS_Subset
<1>3. Playouts!MaxPathSkew(skews, counter) = Playouts!Max(T)
  BY DEF Playouts!MaxPathSkew
<1> HIDE DEF T
<1>4. Playouts!Max(T) \in T
  BY <1>2, MaxIsLargest
<1>5. Playouts!Max(T) \in Skews \cup {0}
  BY <1>1, <1>4
<1>6. \A x \in Skews \cup {0} : x \in 0 .. Largest
  BY LargestSkew, RingConstants
<1>. QED
  BY <1>3, <1>5, <1>6

LEMMA TimesKeepsOrder == ASSUME NEW c \in Nat, NEW b \in Nat, NEW a \in 0 .. b PROVE c * a <= c * b
OBVIOUS

\* Both roundings of a mean are within the bounds of what it is the mean of.
LEMMA RoundedWithin ==
  ASSUME NEW d \in Nat \ {0}, NEW b \in Nat, NEW n \in 0 .. d * b,
         NEW r \in Playouts!Rounded(n, d)
  PROVE  r \in 0 .. b
<1>1. \A q \in Nat : q \div d \in Nat /\ d * (q \div d) <= q
  OBVIOUS
<1>2. \A q \in Nat : q < d * (b + 1) => q \div d <= b
  <2>1. SUFFICES ASSUME NEW q \in Nat, q < d * (b + 1), q \div d > b PROVE FALSE
    BY <1>1
  <2>2. d * (b + 1) <= d * (q \div d)
    BY <2>1, <1>1, TimesKeepsOrder
  <2>. QED
    BY <2>1, <2>2, <1>1
<1>3. d * (b + 1) = d * b + d
  OBVIOUS
<1>4. n \in Nat /\ n + d - 1 \in Nat /\ n < d * (b + 1) /\ n + d - 1 < d * (b + 1)
  BY <1>3
<1>. QED
  BY <1>1, <1>2, <1>4 DEF Playouts!Rounded

DelayInv == playout_delay \in 0 .. Scale * Largest

LEMMA RunKeepsDelay ==
  ASSUME RingInv, RingInv', DelayInv, Playouts!Next
  PROVE  DelayInv'
<1>1. PICK run \in Playouts!Reports : Playouts!PlayouterRun(run)
  BY DEF Playouts!Next
<1> DEFINE max == Playouts!MaxPathSkew(path_skews', path_skew_counter')
           bound == Scale * Largest
           sum == Scale * max + (Weight - 1) * playout_delay
<1>2. playout_delay' \in Playouts!Rounded(sum, Weight)
  BY <1>1 DEF Playouts!PlayouterRun, Playouts!WeightedSum
<1>3. max \in 0 .. Largest
  <2>1. path_skews' \in [Playouts!Slot -> Skews \cup {0}]
    BY DEF RingInv, Playouts!Slot
  <2>2. path_skew_counter' \in Int
    BY RingConstants DEF RingInv, Half
  <2>. QED
    BY <2>1, <2>2, FoundIsASkew
<1>4. Weight \in Nat \ {0} /\ Scale \in Nat /\ Largest \in Nat /\ bound \in Nat
  BY ElementsAssumption, LargestSkew
<1> HIDE DEF max
<1>5. Scale * max \in 0 .. bound
  BY <1>3, <1>4, TimesKeepsOrder
<1>6. playout_delay \in 0 .. bound
  BY DEF DelayInv
<1> HIDE DEF bound
<1>7. (Weight - 1) * playout_delay \in 0 .. (Weight - 1) * bound
  BY <1>4, <1>6, TimesKeepsOrder
<1>8. bound + (Weight - 1) * bound = Weight * bound /\ (Weight - 1) * bound \in Nat
  BY <1>4
<1>9. sum \in 0 .. Weight * bound
  BY <1>4, <1>5, <1>7, <1>8
<1>10. playout_delay' \in 0 .. bound
  BY <1>2, <1>4, <1>9, RoundedWithin
<1>. QED
  BY <1>10 DEF DelayInv, bound, Largest

LEMMA DelayInit == ASSUME Playouts!Init PROVE DelayInv
<1>1. playout_delay = 0
  BY DEF Playouts!Init
<1> DEFINE bound == Scale * Largest
<1>2. bound \in Nat
  BY LargestSkew, ElementsAssumption
<1>3. DelayInv <=> playout_delay \in 0 .. bound
  BY DEF DelayInv
<1> HIDE DEF bound
<1>. QED
  BY <1>1, <1>2, <1>3

LEMMA DelayNext ==
  ASSUME RingInv, RingInv', DelayInv, [Playouts!Next]_playouts
  PROVE  DelayInv'
<1>1. CASE UNCHANGED playouts
  BY <1>1 DEF playouts, DelayInv
<1>2. CASE Playouts!Next
  BY <1>2, RunKeepsDelay
<1>. QED
  BY <1>1, <1>2

LEMMA PlayoutTyped == ASSUME RingInv, DelayInv PROVE Playouts!TypeOK
BY DEF RingInv, DelayInv, Playouts!TypeOK, Half, Largest

\* What the loop looks at is what the history holds.
LEMMA LooksAtRecent ==
  ASSUME RingInv, ~ wrapped \/ path_skew_counter >= Slots
  PROVE  {path_skews[i] : i \in Playouts!Used(path_skew_counter)} = Playouts!Range(recent)
<1>1. /\ Len(recent) \in 0 .. Slots /\ path_skew_index \in 0 .. Slots - 1
      /\ path_skew_counter \in Int /\ DOMAIN recent = 1 .. Len(recent)
  BY RingConstants DEF RingInv, Playouts!Slot
<1>2. \/ path_skew_counter >= Slots /\ Len(recent) = Slots
      \/ /\ path_skew_counter < Slots /\ Len(recent) = path_skew_counter
         /\ path_skew_index = Len(recent)
  <2>1. CASE wrapped
    BY <2>1 DEF RingInv
  <2>2. CASE ~ wrapped
    <3>1. /\ Len(recent) = IF path_skew_counter < Slots THEN path_skew_counter ELSE Slots
          /\ Len(recent) < Slots => path_skew_index = Len(recent)
      BY <2>2 DEF RingInv
    <3>. QED
      BY <3>1, <1>1, RingConstants
  <2>. QED
    BY <2>1, <2>2 DEF RingInv
<1>3. \A i : i \in Playouts!Used(path_skew_counter)
               <=> i \in 0 .. Slots - 1 /\ i < path_skew_counter
  BY DEF Playouts!Used, Playouts!Slot
<1>4. \A k \in 1 .. Len(recent) : SlotOf(k) \in Playouts!Used(path_skew_counter)
  <2>1. SUFFICES ASSUME NEW k \in 1 .. Len(recent)
                 PROVE  SlotOf(k) \in 0 .. Slots - 1 /\ SlotOf(k) < path_skew_counter
    BY <1>3
  <2>2. SlotOf(k) \in 0 .. Slots - 1
    BY <1>1, RingConstants DEF SlotOf, Norm
  <2>3. CASE path_skew_counter >= Slots
    BY <1>1, <2>2, <2>3, RingConstants
  <2>4. CASE path_skew_counter < Slots
    <3>1. path_skew_index = Len(recent) /\ Len(recent) = path_skew_counter
      <4>1. ~ (path_skew_counter >= Slots)
        BY <1>1, <2>4, RingConstants
      <4>. QED
        BY <4>1, <1>2
    <3>2. SlotOf(k) = k - 1
      BY <1>1, <3>1, <2>4, RingConstants DEF SlotOf, Norm
    <3>. QED
      BY <1>1, <2>2, <3>1, <3>2
  <2>. QED
    BY <1>1, <2>3, <2>4, RingConstants
<1>5. ASSUME NEW i \in Playouts!Used(path_skew_counter)
      PROVE  \E k \in 1 .. Len(recent) : SlotOf(k) = i
  <2>1. i \in 0 .. Slots - 1 /\ i < path_skew_counter
    BY <1>3
  <2>2. CASE path_skew_counter >= Slots /\ Len(recent) = Slots
    <3> DEFINE k == IF i >= path_skew_index THEN i - path_skew_index + 1
                    ELSE i - path_skew_index + 1 + Slots
    <3>1. k \in 1 .. Slots
      BY <1>1, <2>1, RingConstants
    <3>2. SlotOf(k) = i
      BY <1>1, <2>1, <2>2, RingConstants DEF SlotOf, Norm
    <3>. QED
      BY <3>1, <3>2, <2>2
  <2>3. CASE /\ path_skew_counter < Slots /\ Len(recent) = path_skew_counter
             /\ path_skew_index = Len(recent)
    <3>1. i + 1 \in 1 .. Len(recent)
      BY <1>1, <2>1, <2>3, RingConstants
    <3>2. SlotOf(i + 1) = i
      BY <1>1, <2>1, <2>3, RingConstants DEF SlotOf, Norm
    <3>. QED
      BY <3>1, <3>2
  <2>. QED
    BY <1>2, <2>2, <2>3
<1>6. \A k \in 1 .. Len(recent) : path_skews[SlotOf(k)] = recent[k]
  BY DEF RingInv
<1>7. \A i \in Playouts!Used(path_skew_counter) : path_skews[i] \in Playouts!Range(recent)
  BY <1>1, <1>5, <1>6 DEF Playouts!Range
<1>8. \A k \in 1 .. Len(recent) :
        recent[k] \in {path_skews[i] : i \in Playouts!Used(path_skew_counter)}
  BY <1>4, <1>6
<1>. QED
  BY <1>1, <1>7, <1>8 DEF Playouts!Range

LEMMA MaxOfRecentHolds == ASSUME RingInv PROVE MaxOfRecent
BY LooksAtRecent DEF MaxOfRecent, Playouts!MaxOfRecent, Playouts!MaxPathSkew

-----------------------------------------------------------------------------
(* The riporter's buffer.                                                  *)

\* Induction from the last element of 0 .. used - 1 down.
Downward(used, Good) ==
  \A o \in 0 .. used - 1 : o + 1 .. used - 1 \subseteq Good => o \in Good

LEMMA DownwardInduction ==
  ASSUME NEW used \in Nat, NEW Good, Downward(used, Good)
  PROVE  0 .. used - 1 \subseteq Good
<1> DEFINE Bad == {k \in Nat : k < used /\ used - 1 - k \notin Good}
<1>1. SUFFICES ASSUME Bad # {} PROVE FALSE
  <2>1. ASSUME Bad = {} PROVE \A o \in 0 .. used - 1 : o \in Good
    <3>1. SUFFICES ASSUME NEW o \in 0 .. used - 1 PROVE o \in Good
      OBVIOUS
    <3>2. used - 1 - o \in Nat /\ used - 1 - o < used /\ used - 1 - (used - 1 - o) = o
      OBVIOUS
    <3>3. used - 1 - o \notin Bad
      BY <2>1
    <3>. QED
      BY <3>2, <3>3
  <2>. QED
    BY <2>1
<1>2. PICK k \in Bad : \A m \in Bad : k <= m
  <2>1. Bad \subseteq Nat
    OBVIOUS
  <2> HIDE DEF Bad
  <2>. QED
    BY <2>1, <1>1, LeastNat
<1> DEFINE o == used - 1 - k
<1>3. o \in 0 .. used - 1 /\ o \notin Good
  BY <1>2
<1>4. ASSUME NEW n \in o + 1 .. used - 1 PROVE n \in Good
  <2>1. used - 1 - n \in Nat /\ used - 1 - n < k /\ used - 1 - (used - 1 - n) = n
    BY <1>2
  <2>2. used - 1 - n \notin Bad
    <3>1. k \in Nat /\ ~ (k <= used - 1 - n)
      BY <1>2, <2>1
    <3> HIDE DEF Bad
    <3>. QED
      BY <1>2, <3>1
  <2>. QED
    BY <2>1, <2>2, <1>2
<1>. QED
  BY <1>3, <1>4 DEF Downward

Words == [kind : {"zero", "header", "info", "data"}, b0 : Nat, b1 : Nat, h : Nat]
Buffers == [0 .. MaxSize - 1 -> Words]

\* A word where the walk over the headers ends, and one it goes on from.
Terminal(w) == w.kind = "data" \/ ~ Reports!IsRtcpType(w.b1)

NextOf(m, o) == o + m[o].h + 1

GoesOn(m, used, o) == ~ Terminal(m[o]) /\ NextOf(m, o) < used

LEMMA WordsInside ==
  ASSUME NEW m \in Buffers, NEW used \in 0 .. MaxSize, NEW o \in 0 .. used - 1
  PROVE  o \in 0 .. MaxSize - 1 /\ m[o] \in Words /\ m[o].h \in Nat
<1>1. o \in 0 .. MaxSize - 1
  BY ElementsAssumption
<1>. QED
  BY <1>1 DEF Buffers, Words

\* The recursive functions of Plain and of LastHeaders have solutions.
LEMMA PlainStep ==
  ASSUME NEW m \in Buffers, NEW used \in 1 .. MaxSize
  PROVE  \E f \in [0 .. used - 1 -> Nat] :
           /\ Reports!Plain(m, used) = f[0]
           /\ \A o \in 0 .. used - 1 :
                f[o] = IF GoesOn(m, used, o) THEN f[NextOf(m, o)] ELSE o
<1> DEFINE D == 0 .. used - 1
           F == [D -> Nat]
           G == [o \in D |-> [f \in F |-> IF GoesOn(m, used, o) THEN f[NextOf(m, o)] ELSE o]]
           body(f) == [o \in D |->
                         LET next == o + m[o].h + 1
                         IN  IF m[o].kind # "data" /\ Reports!IsRtcpType(m[o].b1) /\ next < used
                             THEN f[next] ELSE o]
<1>1. \A o \in D : NextOf(m, o) \in Nat /\ NextOf(m, o) > o
  BY WordsInside DEF NextOf
<1>2. \A o \in D : GoesOn(m, used, o) => NextOf(m, o) \in D /\ NextOf(m, o) \in o + 1 .. used - 1
  BY <1>1 DEF GoesOn
<1>3. \A o \in D : \A f \in F : G[o][f] = IF GoesOn(m, used, o) THEN f[NextOf(m, o)] ELSE o
  OBVIOUS
<1> HIDE DEF G
<1>4. \A o \in D : \A f \in F : G[o][f] \in Nat
  BY <1>2, <1>3
<1>5. \A o \in D : \A f, g \in F :
        (\A n \in o + 1 .. used - 1 : f[n] = g[n]) => G[o][f] = G[o][g]
  <2>1. SUFFICES ASSUME NEW o \in D, NEW f \in F, NEW g \in F,
                        \A n \in o + 1 .. used - 1 : f[n] = g[n]
                 PROVE  G[o][f] = G[o][g]
    OBVIOUS
  <2>2. CASE GoesOn(m, used, o)
    BY <1>2, <1>3, <2>1, <2>2
  <2>3. CASE ~ GoesOn(m, used, o)
    BY <1>3, <2>3
  <2>. QED
    BY <2>2, <2>3
<1>6. PICK f \in [0 .. used - 1 -> Nat] : \A o \in 0 .. used - 1 : f[o] = G[o][f]
  <2>1. LooksOnward(used, Nat, G)
    BY <1>4, <1>5 DEF LooksOnward
  <2>2. used \in Nat /\ Nat # {}
    OBVIOUS
  <2>3. Solvable(used, Nat, G)
    BY <2>1, <2>2, RecursionHasSolution
  <2>. QED
    BY <2>3 DEF Solvable
<1>7. \E g : g = body(g)
  <2>1. f = body(f)
    BY <1>3, <1>6 DEF GoesOn, Terminal, NextOf
  <2>. QED
    BY <2>1
<1> DEFINE last == CHOOSE g : g = body(g)
<1>8. last = body(last)
  BY <1>7
<1>9. Reports!Plain(m, used) = last[0]
  BY DEF Reports!Plain
<1> HIDE DEF last
<1>10. ASSUME NEW o \in D
       PROVE  last[o] = IF GoesOn(m, used, o) THEN last[NextOf(m, o)] ELSE o
  <2>1. body(last)[o] = IF GoesOn(m, used, o) THEN last[NextOf(m, o)] ELSE o
    BY DEF GoesOn, Terminal, NextOf
  <2> HIDE DEF body
  <2>. QED
    BY <2>1, <1>8
<1> DEFINE Typed == {o \in D : last[o] \in Nat}
<1>11. D \subseteq Typed
  <2>1. ASSUME NEW o \in 0 .. used - 1, o + 1 .. used - 1 \subseteq Typed
        PROVE  o \in Typed
    BY <1>2, <1>10, <2>1
  <2>2. Downward(used, Typed)
    BY <2>1 DEF Downward
  <2>3. used \in Nat
    OBVIOUS
  <2> HIDE DEF Typed
  <2>. QED
    BY <2>2, <2>3, DownwardInduction
<1>12. DOMAIN last = D /\ last = [o \in D |-> last[o]]
  <2>1. last = [o \in D |-> body(last)[o]]
    BY <1>8
  <2>. QED
    BY <2>1, <1>8
<1>13. last \in F
  BY <1>11, <1>12
<1>. QED
  BY <1>9, <1>10, <1>13

LastsFrom(m, used, o, f) ==
  CASE m[o].kind = "data" -> {o} \cup UNION {f[n] : n \in (o + 1) .. (used - 1)}
    [] m[o].kind # "data" /\ Reports!IsRtcpType(m[o].b1) /\ NextOf(m, o) < used ->
         f[NextOf(m, o)]
    [] OTHER -> {o}

LEMMA LastHeadersStep ==
  ASSUME NEW m \in Buffers, NEW used \in 1 .. MaxSize
  PROVE  \E f : /\ Reports!LastHeaders(m, used) = f[0]
               /\ \A o \in 0 .. used - 1 : /\ f[o] \subseteq 0 .. used - 1
                                          /\ f[o] = LastsFrom(m, used, o, f)
<1> DEFINE D == 0 .. used - 1
           F == [D -> SUBSET D]
           Value(o, f) == LastsFrom(m, used, o, f)
           G == [o \in D |-> [f \in F |-> Value(o, f)]]
           body(f) == [o \in D |->
                         LET next == o + m[o].h + 1
                         IN  CASE m[o].kind = "data" ->
                                    {o} \cup UNION {f[n] : n \in (o + 1) .. (used - 1)}
                               [] m[o].kind # "data" /\ Reports!IsRtcpType(m[o].b1)
                                    /\ next < used -> f[next]
                               [] OTHER -> {o}]
<1>1. \A o \in D : NextOf(m, o) < used => NextOf(m, o) \in D /\ NextOf(m, o) \in o + 1 .. used - 1
  BY WordsInside DEF NextOf
<1>2. \A o \in D : \A n \in o + 1 .. used - 1 : n \in D
  OBVIOUS
<1>3. \A o \in D : \A f \in F : G[o][f] = Value(o, f)
  OBVIOUS
<1>4. \A o \in D : \A f \in F : Value(o, f) \in SUBSET D
  <2>1. SUFFICES ASSUME NEW o \in D, NEW f \in F PROVE Value(o, f) \in SUBSET D
    OBVIOUS
  <2>2. UNION {f[n] : n \in (o + 1) .. (used - 1)} \in SUBSET D
    BY <1>2
  <2>. QED
    BY <1>1, <2>2 DEF LastsFrom
<1>5. \A o \in D : \A f, g \in F :
        (\A n \in o + 1 .. used - 1 : f[n] = g[n]) => Value(o, f) = Value(o, g)
  <2>1. SUFFICES ASSUME NEW o \in D, NEW f \in F, NEW g \in F,
                        \A n \in o + 1 .. used - 1 : f[n] = g[n]
                 PROVE  Value(o, f) = Value(o, g)
    OBVIOUS
  <2>2. {f[n] : n \in (o + 1) .. (used - 1)} = {g[n] : n \in (o + 1) .. (used - 1)}
    BY <2>1
  <2>3. NextOf(m, o) < used => f[NextOf(m, o)] = g[NextOf(m, o)]
    BY <1>1, <2>1
  <2>. QED
    BY <2>2, <2>3 DEF LastsFrom
<1> HIDE DEF G
<1>6. PICK f \in [0 .. used - 1 -> SUBSET D] : \A o \in 0 .. used - 1 : f[o] = G[o][f]
  <2> DEFINE V == SUBSET D
  <2>1. LooksOnward(used, V, G)
    <3>1. \A o \in D : \A f \in [D -> V] : G[o][f] \in V
      BY <1>3, <1>4
    <3>2. \A o \in D : \A f, g \in [D -> V] :
            (\A n \in o + 1 .. used - 1 : f[n] = g[n]) => G[o][f] = G[o][g]
      BY <1>3, <1>5
    <3> HIDE DEF V
    <3>. QED
      BY <3>1, <3>2 DEF LooksOnward
  <2>2. used \in Nat /\ V # {}
    <3>1. D \in V /\ used \in Nat
      OBVIOUS
    <3> HIDE DEF V
    <3>. QED
      BY <3>1
  <2>3. Solvable(used, V, G)
    <3> HIDE DEF V
    <3>. QED
      BY <2>1, <2>2, RecursionHasSolution
  <2>. QED
    BY <2>3 DEF Solvable
<1>7. \E g : g = body(g)
  <2>1. f = body(f)
    BY <1>3, <1>6 DEF LastsFrom, NextOf
  <2>. QED
    BY <2>1
<1> DEFINE last == CHOOSE g : g = body(g)
<1>8. last = body(last)
  BY <1>7
<1>9. Reports!LastHeaders(m, used) = last[0]
  BY DEF Reports!LastHeaders
<1> HIDE DEF last
<1>10. ASSUME NEW o \in D PROVE last[o] = Value(o, last)
  <2>1. body(last)[o] = Value(o, last)
    BY DEF LastsFrom, NextOf
  <2> HIDE DEF body
  <2>. QED
    BY <2>1, <1>8
<1> DEFINE Inside == {o \in D : last[o] \in SUBSET D}
<1>11. D \subseteq Inside
  <2>1. ASSUME NEW o \in 0 .. used - 1, o + 1 .. used - 1 \subseteq Inside
        PROVE  o \in Inside
    <3>1. UNION {last[n] : n \in (o + 1) .. (used - 1)} \in SUBSET D
      BY <2>1
    <3>2. NextOf(m, o) < used => last[NextOf(m, o)] \in SUBSET D
      BY <1>1, <2>1
    <3>3. Value(o, last) \in SUBSET D
      BY <3>1, <3>2 DEF LastsFrom
    <3>. QED
      BY <1>10, <3>3
  <2>2. Downward(used, Inside)
    BY <2>1 DEF Downward
  <2>3. used \in Nat
    OBVIOUS
  <2> HIDE DEF Inside
  <2>. QED
    BY <2>2, <2>3, DownwardInduction
<1>. QED
  BY <1>9, <1>10, <1>11

LEMMA LastHeadersInside ==
  ASSUME NEW m \in Buffers, NEW used \in 1 .. MaxSize
  PROVE  Reports!LastHeaders(m, used) \subseteq 0 .. used - 1
BY LastHeadersStep

\* Chain(m, used, c, e): the walk over the headers passes the offsets in c only,
\* goes upwards and comes to its end at e.
Chain(m, used, c, e) ==
  /\ c \subseteq 0 .. e /\ 0 \in c /\ e \in c
  /\ \A o \in c \ {e} : GoesOn(m, used, o) /\ NextOf(m, o) \in c
  /\ ~ GoesOn(m, used, e)

LEMMA PlainIsTheEnd ==
  ASSUME NEW m \in Buffers, NEW used \in 1 .. MaxSize, NEW e \in 0 .. used - 1,
         NEW c, Chain(m, used, c, e)
  PROVE  Reports!Plain(m, used) = e
<1>1. PICK f \in [0 .. used - 1 -> Nat] :
        /\ Reports!Plain(m, used) = f[0]
        /\ \A o \in 0 .. used - 1 : f[o] = IF GoesOn(m, used, o) THEN f[NextOf(m, o)] ELSE o
  BY PlainStep
<1> DEFINE Good == {o \in 0 .. used - 1 : o \in c => f[o] = e}
<1>2. ASSUME NEW o \in 0 .. used - 1, o + 1 .. used - 1 \subseteq Good
      PROVE  o \in Good
  <2>1. CASE o \notin c
    BY <2>1
  <2>2. CASE o = e
    BY <1>1, <2>2 DEF Chain
  <2>3. CASE o \in c \ {e}
    <3>1. GoesOn(m, used, o) /\ NextOf(m, o) \in c
      BY <2>3 DEF Chain
    <3>2. NextOf(m, o) \in o + 1 .. used - 1
      BY <3>1, WordsInside, SMTT(40) DEF GoesOn, NextOf
    <3>3. f[NextOf(m, o)] = e
      BY <1>2, <3>1, <3>2
    <3>. QED
      BY <1>1, <3>1, <3>3
  <2>. QED
    BY <2>1, <2>2, <2>3
<1>3. 0 .. used - 1 \subseteq Good
  <2>1. Downward(used, Good)
    BY <1>2 DEF Downward
  <2>2. used \in Nat
    OBVIOUS
  <2> HIDE DEF Good
  <2>. QED
    BY <2>1, <2>2, DownwardInduction
<1>4. 0 \in c
  BY DEF Chain
<1>. QED
  BY <1>1, <1>3, <1>4

\* The words of a report that is written at offset at.
Report(m, at, id) ==
  [i \in 0 .. MaxSize - 1 |->
     IF i = at THEN Reports!Header(1, 212, 10)
     ELSE IF i = at + 3 THEN Reports!Info(7, id)
     ELSE IF i = at + 4 THEN Reports!Header(0, 200, 6)
     ELSE IF i = at + 1 \/ i \in at + 5 .. at + 10 THEN Reports!Data
     ELSE m[i]]

\* What the functions of the source that fill a report make together.
LEMMA FilledIsReport ==
  ASSUME NEW m \in Buffers, NEW at \in 0 .. MaxSize - 5, NEW id \in Nat
  PROVE  Reports!SetupSrRiport(Reports!AddRiport(m, at), at, id) = Report(m, at, id)
<1> DEFINE M == 0 .. MaxSize - 1
           begun == Reports!AddRiport(m, at)
           block == Reports!BlockAt(begun, at)
           opened == Reports!AddBlockBegin(begun, at, id)
           filled == Reports!AddSr(opened, block)
<1>. at \in M /\ at + 1 \in M /\ at + 2 \in M /\ at + 3 \in M /\ at + 4 \in M /\ at \in Nat
  BY ElementsAssumption
<1>1. DOMAIN m = M /\ \A i \in M : m[i] \in Words
  BY DEF Buffers
<1>2. /\ DOMAIN begun = M /\ begun[at] = Reports!Header(0, 212, 2)
      /\ begun[at + 1] = Reports!Data
      /\ \A i \in M \ {at, at + 1} : begun[i] = m[i]
  BY <1>1, ElementsAssumption
     DEF Reports!AddRiport, Reports!MPRTCP_PACKET_TYPE_IDENTIFIER, Reports!RTCPHEADER_WORDS
<1> HIDE DEF begun
<1>3. block = at + 3
  <2>1. begun[at].b0 = 0
    BY <1>2 DEF Reports!Header, Reports!Word
  <2>2. begun[at + 3].b1 \in Nat
    <3>1. begun[at + 3] = m[at + 3]
      BY <1>2
    <3>. QED
      BY <1>1, <3>1 DEF Words
  <2>3. 0 * (begun[at + 3].b1 + 1) = 0 /\ at + 2 + 1 = at + 3
    BY <2>2
  <2>4. block = at + 2 + 1 + 0 * (begun[at + 3].b1 + 1)
    BY <2>1, <2>3 DEF Reports!BlockAt, Reports!RTCPHEADER_WORDS
  <2>. QED
    BY <2>3, <2>4
<1>4. /\ DOMAIN opened = M /\ opened[at] = Reports!Header(1, 212, 2)
      /\ opened[at + 3] = Reports!Info(0, id)
      /\ \A i \in M \ {at, at + 3} : opened[i] = begun[i]
  BY <1>2, <1>3 DEF Reports!AddBlockBegin, Reports!Header, Reports!Word
<1> HIDE DEF opened, block
<1>5. /\ DOMAIN filled = M /\ filled[at + 4] = Reports!Header(0, 200, 6)
      /\ \A i \in M : i \in at + 5 .. at + 10 => filled[i] = Reports!Data
      /\ \A i \in M : i \notin at + 4 .. at + 10 => filled[i] = opened[i]
  BY <1>3, <1>4 DEF Reports!AddSr, Reports!RTCPHEADER_WORDS, Reports!RTCPSRBLOCK_WORDS,
     Reports!GST_RTCP_TYPE_SR
<1> HIDE DEF filled
<1>6. filled[block + 1].h + 1 = 7 /\ filled[at].h = 2
  BY <1>3, <1>4, <1>5, SMTT(40) DEF Reports!Header, Reports!Word
<1> DEFINE closed == Reports!AddBlockEnd(filled, at, block)
<1>7. /\ closed = [i \in M |-> closed[i]] /\ closed[at] = Reports!Header(1, 212, 10)
      /\ closed[at + 3] = Reports!Info(7, id)
      /\ \A i \in M \ {at, at + 3} : closed[i] = filled[i]
  <2>1. filled[at] = Reports!Header(1, 212, 2) /\ filled[at + 3] = Reports!Info(0, id)
    BY <1>4, <1>5
  <2>2. closed = [filled EXCEPT ![at + 3].b1 = 7, ![at].h = 10]
    <3>1. 7 % 256 = 7 /\ block = at + 3
      BY <1>3
    <3>2. closed = [filled EXCEPT ![at + 3].b1 = 7, ![at].h = @ + 7 + 1]
      BY <3>1, <1>6 DEF Reports!AddBlockEnd
    <3>3. filled[at].h + 7 + 1 = 10
      BY <1>6
    <3> HIDE DEF closed
    <3>. QED
      BY <3>2, <3>3, <1>6
  <2> HIDE DEF closed
  <2>3. DOMAIN filled = M /\ filled = [i \in M |-> filled[i]]
    BY <1>5 DEF filled, Reports!AddSr
  <2>4. closed[at] = [filled[at] EXCEPT !.h = 10]
    BY <2>2, <2>3
  <2>5. closed[at + 3] = [filled[at + 3] EXCEPT !.b1 = 7]
    BY <2>2, <2>3
  <2>6. [Reports!Header(1, 212, 2) EXCEPT !.h = 10] = Reports!Header(1, 212, 10)
    BY DEF Reports!Header, Reports!Word
  <2>7. [Reports!Info(0, id) EXCEPT !.b1 = 7] = Reports!Info(7, id)
    BY DEF Reports!Info, Reports!Word
  <2>8. closed = [i \in M |-> closed[i]]
    BY <2>2, <2>3
  <2>9. \A i \in M \ {at, at + 3} : closed[i] = filled[i]
    BY <2>2, <2>3
  <2>. QED
    BY <2>1, <2>4, <2>5, <2>6, <2>7, <2>8, <2>9
<1>8. closed = Reports!SetupSrRiport(Reports!AddRiport(m, at), at, id)
  BY DEF Reports!SetupSrRiport, closed, filled, opened, block, begun
<1> HIDE DEF closed
<1>9. ASSUME NEW i \in M PROVE closed[i] = Report(m, at, id)[i]
  <2>1. CASE i = at \/ i = at + 3
    BY <2>1, <1>7 DEF Report
  <2>2. CASE i \in at + 4 .. at + 10
    BY <2>2, <1>5, <1>7, SMTT(40) DEF Report
  <2>3. CASE i = at + 1
    BY <2>3, <1>2, <1>4, <1>5, <1>7 DEF Report
  <2>4. CASE i \notin {at, at + 1, at + 3} \cup at + 4 .. at + 10
    BY <2>4, <1>2, <1>4, <1>5, <1>7, SMTT(40) DEF Report
  <2>. QED
    BY <2>1, <2>2, <2>3, <2>4
<1>10. Report(m, at, id) = [i \in M |-> Report(m, at, id)[i]]
  BY DEF Report
<1>. QED
  BY <1>7, <1>8, <1>9, <1>10

\* The walk ends at the last report that is counted or at what is left of those
\* that were begun behind it, and no header is to be found further on.
Ended(m, used, e) ==
  /\ e \in 0 .. MaxSize - 1
  /\ used = 0 => e = 0
  /\ used # 0 => /\ e \in {used - 11, used - 8, used - 5, used - 2}
                 /\ \E c : Chain(m, used, c, e)
  /\ \A j \in 0 .. MaxSize - 1 :
       j \in {e + 3, e + 6, e + 9} \/ j >= e + 11 => Terminal(m[j])

BufferInv ==
  /\ todo \in Seq(1 .. Reporters) /\ compound \in BOOLEAN
  /\ mem \in Buffers /\ size \in 0 .. MaxSize /\ size % 11 = 0
  /\ ~ misread => \E e : Ended(mem, size, e)

\* With nine words more than whole reports, a report begun at the end fits.
LEMMA Room ==
  ASSUME NEW n \in 0 .. MaxSize, n % 11 = 0
  PROVE  n + 9 <= MaxSize
BY ElementsAssumption

LEMMA EndIsPlain ==
  ASSUME NEW m \in Buffers, NEW used \in 0 .. MaxSize, used % 11 = 0, NEW e, Ended(m, used, e)
  PROVE  Reports!Plain(m, used) = e /\ e + 11 <= MaxSize
<1>1. CASE used = 0
  BY <1>1, ElementsAssumption DEF Reports!Plain, Ended
<1>2. CASE used # 0
  <2>1. used \in 1 .. MaxSize /\ used >= 11
    BY <1>2, ElementsAssumption
  <2>2. e \in 0 .. used - 1 /\ e <= used - 2
    BY <1>2, <2>1, ElementsAssumption DEF Ended
  <2>3. PICK c : Chain(m, used, c, e)
    BY <1>2 DEF Ended
  <2>4. Reports!Plain(m, used) = e
    BY <2>1, <2>2, <2>3, PlainIsTheEnd
  <2>. QED
    BY <2>1, <2>2, <2>4, Room, ElementsAssumption
<1>. QED
  BY <1>1, <1>2

LEMMA BegunInside ==
  ASSUME NEW m \in Buffers, NEW used \in 0 .. MaxSize, used % 11 = 0,
         NEW at \in Reports!AddBegin(m, used)
  PROVE  at \in 0 .. MaxSize - 10
<1>1. CASE used = 0
  BY <1>1, ElementsAssumption DEF Reports!AddBegin
<1>2. CASE used # 0
  <2>1. at \in 0 .. used - 1
    BY <1>2, LastHeadersInside DEF Reports!AddBegin
  <2>. QED
    BY <2>1, Room, ElementsAssumption
<1>. QED
  BY <1>1, <1>2

LEMMA WordsTyped ==
  /\ \A id \in Nat : Reports!Info(7, id) \in Words
  /\ Reports!Header(1, 212, 10) \in Words /\ Reports!Header(0, 200, 6) \in Words
  /\ Reports!Header(0, 212, 2) \in Words /\ Reports!Data \in Words
BY DEF Words, Reports!Info, Reports!Header, Reports!Data, Reports!Word

\* A report that is begun and left: its header and a word of data.
LEMMA SkippedIs ==
  ASSUME NEW m \in Buffers, NEW at \in 0 .. MaxSize - 10
  PROVE  /\ Reports!AddRiport(m, at) \in Buffers
         /\ Reports!AddRiport(m, at)[at] = Reports!Header(0, 212, 2)
         /\ Reports!AddRiport(m, at)[at + 1] = Reports!Data
         /\ \A i \in 0 .. MaxSize - 1 :
              i \notin {at, at + 1} => Reports!AddRiport(m, at)[i] = m[i]
<1>1. at \in 0 .. MaxSize - 1 /\ at + 1 \in 0 .. MaxSize - 1 /\ at # at + 1
  BY ElementsAssumption
<1>2. Reports!AddRiport(m, at) =
        [m EXCEPT ![at] = Reports!Header(0, 212, 2), ![at + 1] = Reports!Data]
  BY DEF Reports!AddRiport, Reports!MPRTCP_PACKET_TYPE_IDENTIFIER, Reports!RTCPHEADER_WORDS
<1>. QED
  BY <1>1, <1>2, WordsTyped DEF Buffers

LEMMA ReportIs ==
  ASSUME NEW m \in Buffers, NEW at \in 0 .. MaxSize - 10, NEW id \in Nat,
         NEW used \in 0 .. MaxSize
  PROVE  /\ Report(m, at, id) \in Buffers
         /\ Reports!AddEnd(Report(m, at, id), used, at) =
              IF used + 11 <= MaxSize THEN used + 11 ELSE used
<1>1. Report(m, at, id) \in Buffers
  BY WordsTyped DEF Report, Buffers
<1>2. Report(m, at, id)[at] = Reports!Header(1, 212, 10)
  BY ElementsAssumption DEF Report
<1>3. Report(m, at, id)[at].h = 10
  BY <1>2 DEF Reports!Header, Reports!Word
<1>. QED
  BY <1>1, <1>3 DEF Reports!AddEnd

LEMMA FreshEnds == Reports!NewBuffer \in Buffers /\ Ended(Reports!NewBuffer, 0, 0)
<1>1. Reports!NewBuffer \in Buffers
  BY DEF Reports!NewBuffer, Buffers, Words, Reports!Word
<1>2. \A j \in 0 .. MaxSize - 1 : Terminal(Reports!NewBuffer[j])
  BY DEF Reports!NewBuffer, Terminal, Reports!IsRtcpType, Reports!Word,
     Reports!MPRTCP_PACKET_TYPE_IDENTIFIER, Reports!GST_RTCP_TYPE_SR,
     Reports!GST_RTCP_TYPE_RR, Reports!GST_RTCP_TYPE_XR
<1>. QED
  BY <1>1, <1>2, ElementsAssumption DEF Ended

LEMMA KindsOfWords ==
  /\ ~ Terminal(Reports!Header(0, 212, 2)) /\ ~ Terminal(Reports!Header(1, 212, 10))
  /\ Reports!Header(0, 212, 2).h = 2 /\ Reports!Header(1, 212, 10).h = 10
  /\ Terminal(Reports!Data) /\ \A id : Terminal(Reports!Info(7, id))
BY DEF Terminal, Reports!IsRtcpType, Reports!Header, Reports!Info, Reports!Data, Reports!Word,
   Reports!MPRTCP_PACKET_TYPE_IDENTIFIER, Reports!GST_RTCP_TYPE_SR,
   Reports!GST_RTCP_TYPE_RR, Reports!GST_RTCP_TYPE_XR

\* The walk before e does not see what is written from e on.
LEMMA ChainGrows ==
  ASSUME NEW m \in Buffers, NEW w \in Buffers, NEW used \in 1 .. MaxSize,
         NEW n \in used .. MaxSize, NEW e \in 0 .. used - 1, NEW c, Chain(m, used, c, e),
         \A i \in 0 .. e - 1 : w[i] = m[i]
  PROVE  /\ ~ GoesOn(w, n, e) => Chain(w, n, c, e)
         /\ \A x \in e + 1 .. n - 1 :
              GoesOn(w, n, e) /\ NextOf(w, e) = x /\ ~ GoesOn(w, n, x)
                => Chain(w, n, c \cup {x}, x)
<1>1. ASSUME NEW o \in c \ {e} PROVE GoesOn(w, n, o) /\ NextOf(w, o) \in c
  <2>1. o \in 0 .. e - 1
    BY DEF Chain
  <2>2. GoesOn(m, used, o) /\ NextOf(m, o) \in c
    BY DEF Chain
  <2>3. w[o] = m[o] /\ m[o].h \in Nat
    BY <2>1, WordsInside
  <2>. QED
    BY <2>1, <2>2, <2>3 DEF GoesOn, NextOf
<1>2. c \subseteq 0 .. e /\ 0 \in c /\ e \in c
  BY DEF Chain
<1>3. ASSUME ~ GoesOn(w, n, e) PROVE Chain(w, n, c, e)
  BY <1>1, <1>2, <1>3 DEF Chain
<1>4. ASSUME NEW x \in e + 1 .. n - 1, GoesOn(w, n, e), NextOf(w, e) = x, ~ GoesOn(w, n, x)
      PROVE  Chain(w, n, c \cup {x}, x)
  <2>1. c \cup {x} \subseteq 0 .. x /\ 0 \in c \cup {x} /\ x \in c \cup {x}
    BY <1>2
  <2>2. \A o \in (c \cup {x}) \ {x} : GoesOn(w, n, o) /\ NextOf(w, o) \in c \cup {x}
    BY <1>1, <1>4
  <2>. QED
    BY <1>4, <2>1, <2>2 DEF Chain
<1>. QED
  BY <1>3, <1>4

LEMMA EndBounds ==
  ASSUME NEW m \in Buffers, NEW used \in 0 .. MaxSize, used % 11 = 0, NEW e, Ended(m, used, e)
  PROVE  /\ e \in 0 .. MaxSize - 11
         /\ used # 0 => used \in 1 .. MaxSize /\ e \in 0 .. used - 1 /\ e >= used - 11
<1>1. e + 11 <= MaxSize /\ e \in 0 .. MaxSize - 1
  BY EndIsPlain DEF Ended
<1>2. used # 0 => e \in {used - 11, used - 8, used - 5, used - 2}
  BY DEF Ended
<1>. QED
  BY <1>1, <1>2, ElementsAssumption

LEMMA SkipEnds ==
  ASSUME NEW m \in Buffers, NEW used \in 0 .. MaxSize, used % 11 = 0, NEW e, Ended(m, used, e)
  PROVE  \E x : Ended(Reports!AddRiport(m, e), used, x)
<1> DEFINE w == Reports!AddRiport(m, e)
<1>1. e \in 0 .. MaxSize - 11 /\ e \in 0 .. MaxSize - 10
  BY EndBounds, ElementsAssumption
<1>2. /\ w \in Buffers /\ w[e] = Reports!Header(0, 212, 2)
      /\ \A i \in 0 .. MaxSize - 1 : i \notin {e, e + 1} => w[i] = m[i]
  BY <1>1, SkippedIs
<1> HIDE DEF w
<1>3. NextOf(w, e) = e + 3 /\ ~ Terminal(w[e])
  BY <1>1, <1>2, KindsOfWords DEF NextOf
<1>4. \A j \in 0 .. MaxSize - 1 :
        j \in {e + 3, e + 6, e + 9} \/ j >= e + 11 => Terminal(w[j])
  BY <1>1, <1>2 DEF Ended
<1>5. CASE used = 0
  <2>1. Ended(w, used, e)
    BY <1>4, <1>5 DEF Ended
  <2>. QED
    BY <2>1 DEF w
<1>6. CASE used # 0
  <2>1. PICK c : Chain(m, used, c, e)
    BY <1>6 DEF Ended
  <2>2. used \in 1 .. MaxSize /\ e \in 0 .. used - 1 /\ used \in used .. MaxSize
    BY <1>6, EndBounds
  <2>3. \A i \in 0 .. e - 1 : w[i] = m[i]
    BY <1>1, <1>2, ElementsAssumption
  <2>4. CASE e + 3 < used
    <3>1. GoesOn(w, used, e)
      BY <1>3, <2>4 DEF GoesOn
    <3>2. ~ GoesOn(w, used, e + 3)
      BY <1>1, <1>4, ElementsAssumption DEF GoesOn
    <3>3. e + 3 \in e + 1 .. used - 1
      BY <2>2, <2>4
    <3>4. Chain(w, used, c \cup {e + 3}, e + 3)
      BY <1>2, <1>3, <2>1, <2>2, <2>3, <3>1, <3>2, <3>3, ChainGrows
    <3>5. e + 3 \in {used - 11, used - 8, used - 5, used - 2}
      BY <1>6, <2>2, <2>4 DEF Ended
    <3>6. \A j \in 0 .. MaxSize - 1 :
            j \in {e + 3 + 3, e + 3 + 6, e + 3 + 9} \/ j >= e + 3 + 11 => Terminal(w[j])
      BY <1>1, <1>4, ElementsAssumption
    <3>7. e + 3 \in 0 .. MaxSize - 1
      BY <2>2, <3>3, ElementsAssumption
    <3>8. Ended(w, used, e + 3)
      BY <1>6, <3>4, <3>5, <3>6, <3>7 DEF Ended
    <3>. QED
      BY <3>8 DEF w
  <2>5. CASE ~ (e + 3 < used)
    <3>1. ~ GoesOn(w, used, e)
      BY <1>3, <2>5 DEF GoesOn
    <3>2. Chain(w, used, c, e)
      BY <1>2, <2>1, <2>2, <2>3, <3>1, ChainGrows
    <3>3. Ended(w, used, e)
      BY <1>4, <1>6, <3>2 DEF Ended
    <3>. QED
      BY <3>3 DEF w
  <2>. QED
    BY <2>4, <2>5
<1>. QED
  BY <1>5, <1>6 DEF w

LEMMA ReportEnds ==
  ASSUME NEW m \in Buffers, NEW used \in 0 .. MaxSize, used % 11 = 0, NEW e, Ended(m, used, e),
         NEW id \in Nat
  PROVE  \E x : Ended(Report(m, e, id), IF used + 11 <= MaxSize THEN used + 11 ELSE used, x)
<1> DEFINE w == Report(m, e, id)
           n == IF used + 11 <= MaxSize THEN used + 11 ELSE used
<1>1. e \in 0 .. MaxSize - 11 /\ e \in 0 .. MaxSize - 10
  BY EndBounds, ElementsAssumption
<1>2. /\ w[e] = Reports!Header(1, 212, 10) /\ w[e + 3] = Reports!Info(7, id)
      /\ \A i \in 0 .. MaxSize - 1 : i \in e + 5 .. e + 10 => w[i] = Reports!Data
      /\ \A i \in 0 .. MaxSize - 1 : i < e \/ i >= e + 11 => w[i] = m[i]
  <2>1. /\ e \in Int /\ MaxSize \in Int
        /\ e \in 0 .. MaxSize - 1 /\ e + 3 \in 0 .. MaxSize - 1
        /\ e + 3 # e /\ e + 3 # e + 4
    BY <1>1, ElementsAssumption
  <2>2. w[e] = Reports!Header(1, 212, 10)
    BY <2>1 DEF Report
  <2>3. w[e + 3] = Reports!Info(7, id)
    BY <2>1 DEF Report
  <2>4. ASSUME NEW i \in 0 .. MaxSize - 1, i \in e + 5 .. e + 10 PROVE w[i] = Reports!Data
    BY <2>1, <2>4 DEF Report
  <2>5. ASSUME NEW i \in 0 .. MaxSize - 1, i < e \/ i >= e + 11 PROVE w[i] = m[i]
    BY <2>1, <2>5 DEF Report
  <2>. QED
    BY <2>2, <2>3, <2>4, <2>5
<1>3. w \in Buffers
  BY <1>1, ReportIs
<1> HIDE DEF w
<1>4. NextOf(w, e) = e + 11 /\ ~ Terminal(w[e])
  BY <1>1, <1>2, KindsOfWords DEF NextOf
<1>5. \A j \in 0 .. MaxSize - 1 :
        j \in {e + 3, e + 6, e + 9} \/ j >= e + 11 => Terminal(w[j])
  <2>1. ASSUME NEW j \in 0 .. MaxSize - 1, j \in {e + 6, e + 9} PROVE Terminal(w[j])
    BY <1>1, <1>2, <2>1, KindsOfWords
  <2>2. ASSUME NEW j \in 0 .. MaxSize - 1, j >= e + 11 PROVE Terminal(w[j])
    BY <1>1, <1>2, <2>2 DEF Ended
  <2>. QED
    BY <1>2, <2>1, <2>2, KindsOfWords
<1>6. CASE used = 0
  <2>1. e = 0 /\ n = 11 /\ NextOf(w, 0) = 11
    BY <1>4, <1>6, ElementsAssumption DEF Ended
  <2>2. ~ GoesOn(w, n, 0)
    BY <2>1 DEF GoesOn
  <2>3. Chain(w, n, {0}, 0)
    BY <2>2 DEF Chain
  <2>4. 0 \in {11 - 11, 11 - 8, 11 - 5, 11 - 2} /\ 0 \in 0 .. MaxSize - 1
    BY ElementsAssumption
  <2>5. Ended(w, n, 0)
    BY <1>5, <2>1, <2>3, <2>4 DEF Ended
  <2>. QED
    BY <2>5 DEF w
<1>7. CASE used # 0
  <2>1. PICK c : Chain(m, used, c, e)
    BY <1>7 DEF Ended
  <2>2. used \in 1 .. MaxSize /\ e \in 0 .. used - 1 /\ e >= used - 11
    BY <1>7, EndBounds
  <2>3. \A i \in 0 .. e - 1 : w[i] = m[i]
    BY <1>1, <1>2, ElementsAssumption
  <2>4. CASE used + 11 <= MaxSize
    <3>1. n = used + 11 /\ n \in used .. MaxSize /\ n # 0
      BY <2>2, <2>4, ElementsAssumption
    <3> HIDE DEF n
    <3>2. GoesOn(w, n, e)
      BY <1>4, <2>2, <3>1 DEF GoesOn
    <3>3. e + 11 \in e + 1 .. n - 1 /\ e + 11 \in 0 .. MaxSize - 1
      BY <2>2, <2>4, <3>1, ElementsAssumption
    <3>4. ~ GoesOn(w, n, e + 11)
      BY <1>1, <1>5, <3>3 DEF GoesOn
    <3>5. Chain(w, n, c \cup {e + 11}, e + 11)
      BY <1>3, <1>4, <2>1, <2>2, <2>3, <3>1, <3>2, <3>3, <3>4, ChainGrows
    <3>6. e + 11 \in {n - 11, n - 8, n - 5, n - 2}
      BY <1>7, <2>2, <3>1 DEF Ended
    <3>7. \A j \in 0 .. MaxSize - 1 :
            j \in {e + 11 + 3, e + 11 + 6, e + 11 + 9} \/ j >= e + 11 + 11 => Terminal(w[j])
      BY <1>1, <1>5
    <3>8. Ended(w, n, e + 11)
      BY <3>1, <3>3, <3>5, <3>6, <3>7 DEF Ended
    <3>. QED
      BY <3>8 DEF w, n
  <2>5. CASE ~ (used + 11 <= MaxSize)
    <3>1. n = used /\ used \in used .. MaxSize
      BY <2>2, <2>5
    <3>2. ~ GoesOn(w, used, e)
      BY <1>4, <2>2 DEF GoesOn
    <3>3. Chain(w, used, c, e)
      BY <1>3, <2>1, <2>2, <2>3, <3>1, <3>2, ChainGrows
    <3>4. Ended(w, used, e)
      BY <1>5, <1>7, <3>3 DEF Ended
    <3>. QED
      BY <3>1, <3>4 DEF w
  <2>. QED
    BY <2>4, <2>5
<1>. QED
  BY <1>6, <1>7 DEF w

LEMMA BufferInit == Reports!Init => BufferInv
<1>1. SUFFICES ASSUME Reports!Init PROVE BufferInv
  OBVIOUS
<1>2. todo \in Seq(1 .. Reporters)
  <2>1. todo = << >>
    BY <1>1 DEF Reports!Init
  <2>. QED
    BY <2>1
<1>3. compound \in BOOLEAN /\ mem = Reports!NewBuffer /\ size = 0
  BY <1>1 DEF Reports!Init
<1>4. 0 \in 0 .. MaxSize /\ 0 % 11 = 0
  BY ElementsAssumption
<1>. QED
  BY <1>2, <1>3, <1>4, FreshEnds DEF BufferInv

\* Where a report is begun, unless a data word has passed for a header.
LEMMA BegunAtTheEnd ==
  ASSUME BufferInv, NEW at \in Reports!AddBegin(mem, size), Reports!Misread(at), ~ misread'
  PROVE  Ended(mem, size, at)
<1>1. ~ misread /\ at = Reports!Plain(mem, size)
  BY DEF Reports!Misread
<1>2. PICK e : Ended(mem, size, e)
  BY <1>1 DEF BufferInv
<1>3. Reports!Plain(mem, size) = e
  BY <1>2, EndIsPlain DEF BufferInv
<1>. QED
  BY <1>1, <1>2, <1>3

LEMMA BufferNext ==
  ASSUME BufferInv, [Reports!Next]_reports
  PROVE  BufferInv'
<1>1. ASSUME UNCHANGED reports PROVE BufferInv'
  BY <1>1 DEF reports, BufferInv
<1>2. ASSUME NEW n \in 0 .. Reporters, NEW c \in BOOLEAN, Reports!Start(n, c)
      PROVE  BufferInv'
  <2>1. todo' = [i \in 1 .. n |-> i] /\ compound' = c /\ mem' = Reports!NewBuffer /\ size' = 0
    BY <1>2 DEF Reports!Start
  <2>2. todo' \in Seq(1 .. Reporters)
    <3>1. \A i \in 1 .. n : i \in 1 .. Reporters
      BY ElementsAssumption
    <3>2. n \in Nat
      BY ElementsAssumption
    <3>. QED
      BY <2>1, <3>1, <3>2
  <2>3. 0 \in 0 .. MaxSize /\ 0 % 11 = 0
    BY ElementsAssumption
  <2>. QED
    BY <2>1, <2>2, <2>3, FreshEnds DEF BufferInv
<1>3. ASSUME Reports!Finish PROVE BufferInv'
  BY <1>3 DEF Reports!Finish, BufferInv
<1>4. ASSUME NEW at \in Reports!AddBegin(mem, size),
             Reports!Skip(at) \/ Reports!CompoundReport(at) \/ Reports!SeparateReport(at)
      PROVE  BufferInv'
  <2>1. at \in 0 .. MaxSize - 10
    BY BegunInside DEF BufferInv
  <2>2. /\ todo # << >> /\ todo' = Tail(todo) /\ compound' = compound /\ Reports!Misread(at)
    BY <1>4 DEF Reports!Skip, Reports!CompoundReport, Reports!SeparateReport
  <2>3. todo' \in Seq(1 .. Reporters) /\ Head(todo) \in Nat /\ compound' \in BOOLEAN
    <3>1. Head(todo) \in 1 .. Reporters /\ Tail(todo) \in Seq(1 .. Reporters)
      BY <2>2, HeadTailProperties DEF BufferInv
    <3>. QED
      BY <2>2, <3>1 DEF BufferInv
  <2>4. CASE Reports!Skip(at)
    <3>1. mem' = Reports!AddRiport(mem, at) /\ size' = size
      BY <2>4 DEF Reports!Skip, Reports!Skipped
    <3>2. mem' \in Buffers
      BY <2>1, <3>1, SkippedIs DEF BufferInv
    <3>3. ASSUME ~ misread' PROVE \E e : Ended(mem', size', e)
      BY <2>2, <3>1, <3>3, BegunAtTheEnd, SkipEnds DEF BufferInv
    <3>. QED
      BY <2>3, <3>1, <3>2, <3>3 DEF BufferInv
  <2>5. Reports!Filled(at) = Report(mem, at, Head(todo))
    <3>1. at \in 0 .. MaxSize - 5
      BY <2>1, ElementsAssumption
    <3>. QED
      BY <2>3, <3>1, FilledIsReport DEF Reports!Filled, BufferInv
  <2>6. CASE Reports!CompoundReport(at)
    <3>1. /\ mem' = Report(mem, at, Head(todo))
          /\ size' = IF size + 11 <= MaxSize THEN size + 11 ELSE size
      BY <2>1, <2>3, <2>5, <2>6, ReportIs DEF Reports!CompoundReport, Reports!NewSize, BufferInv
    <3>2. mem' \in Buffers
      BY <2>1, <2>3, <3>1, ReportIs DEF BufferInv
    <3>3. size' \in 0 .. MaxSize /\ size' % 11 = 0
      BY <3>1, ElementsAssumption DEF BufferInv
    <3>4. ASSUME ~ misread' PROVE \E e : Ended(mem', size', e)
      BY <2>2, <2>3, <3>1, <3>4, BegunAtTheEnd, ReportEnds DEF BufferInv
    <3>. QED
      BY <2>3, <3>2, <3>3, <3>4 DEF BufferInv
  <2>7. CASE Reports!SeparateReport(at)
    <3>1. mem' = Reports!NewBuffer /\ size' = 0
      BY <2>7 DEF Reports!SeparateReport, Reports!FreshBuffer
    <3>2. 0 \in 0 .. MaxSize /\ 0 % 11 = 0
      BY ElementsAssumption
    <3>. QED
      BY <2>3, <3>1, <3>2, FreshEnds DEF BufferInv
  <2>. QED
    BY <1>4, <2>4, <2>6, <2>7
<1>. QED
  BY <1>1, <1>2, <1>3, <1>4 DEF Reports!Next

LEMMA BufferTyped == BufferInv => Reports!TypeOK
<1>1. SUFFICES ASSUME BufferInv PROVE Reports!TypeOK
  OBVIOUS
<1>2. ASSUME ~ misread PROVE Reports!Plain(mem, size) + 11 <= MaxSize
  BY <1>1, <1>2, EndIsPlain DEF BufferInv
<1>3. Reports!ReportWords = 11
  BY DEF Reports!ReportWords, Reports!RTCPHEADER_WORDS, Reports!RTCPSRBLOCK_WORDS
<1>. QED
  BY <1>1, <1>2, <1>3 DEF Reports!TypeOK, BufferInv, Buffers

-----------------------------------------------------------------------------
(* What a reader finds in the riporter's packets.                          *)

ReadFrom(m, used, o, f) ==
  IF o >= used \/ m[o].b1 # 212 THEN {}
  ELSE {o} \cup IF NextOf(m, o) > used THEN {} ELSE f[NextOf(m, o)]

\* The recursive function of HeadersFrom has a solution.
LEMMA ReaderStep ==
  ASSUME NEW m \in Buffers, NEW used \in 0 .. MaxSize
  PROVE  \E f : /\ Reports!HeadersFrom(m, used) = f[0]
                /\ \A o \in 0 .. used : /\ f[o] \subseteq 0 .. used - 1
                                        /\ f[o] = ReadFrom(m, used, o, f)
<1> DEFINE top == used + 1
           D == 0 .. top - 1
           V == SUBSET (0 .. used - 1)
           F == [D -> V]
           G == [o \in D |-> [f \in F |-> ReadFrom(m, used, o, f)]]
           body(f) == [o \in 0 .. used |->
                         IF o >= used \/ m[o].b1 # Reports!MPRTCP_PACKET_TYPE_IDENTIFIER THEN {}
                         ELSE {o} \cup IF Reports!NextHeader(m, o) > used THEN {}
                                       ELSE f[Reports!NextHeader(m, o)]]
<1>0. top \in Nat /\ D = 0 .. used /\ used \in Nat
  BY ElementsAssumption
<1>1. \A o \in D : o < used /\ ~ (NextOf(m, o) > used) =>
        NextOf(m, o) \in D /\ NextOf(m, o) \in o + 1 .. top - 1
  BY <1>0, WordsInside DEF NextOf
<1>2. \A o \in D : \A f \in F : G[o][f] = ReadFrom(m, used, o, f)
  OBVIOUS
<1> HIDE DEF top
<1>3. \A o \in D : \A f \in F : ReadFrom(m, used, o, f) \in V
  <2>1. SUFFICES ASSUME NEW o \in D, NEW f \in F PROVE ReadFrom(m, used, o, f) \in V
    OBVIOUS
  <2>2. o < used => {o} \in V
    BY <1>0
  <2>3. o < used /\ ~ (NextOf(m, o) > used) => f[NextOf(m, o)] \in V
    BY <1>1
  <2>. QED
    BY <1>0, <2>2, <2>3 DEF ReadFrom
<1>4. \A o \in D : \A f, g \in F :
        (\A n \in o + 1 .. top - 1 : f[n] = g[n])
          => ReadFrom(m, used, o, f) = ReadFrom(m, used, o, g)
  <2>1. SUFFICES ASSUME NEW o \in D, NEW f \in F, NEW g \in F,
                        \A n \in o + 1 .. top - 1 : f[n] = g[n]
                 PROVE  ReadFrom(m, used, o, f) = ReadFrom(m, used, o, g)
    OBVIOUS
  <2>2. o < used /\ ~ (NextOf(m, o) > used) => f[NextOf(m, o)] = g[NextOf(m, o)]
    BY <1>1, <2>1
  <2>3. o >= used \/ o < used
    BY <1>0
  <2>. QED
    BY <2>2, <2>3 DEF ReadFrom
<1>5. \A o \in D : \A f, g \in F :
         (\A n \in o + 1 .. top - 1 : f[n] = g[n]) => G[o][f] = G[o][g]
  BY <1>2, <1>4
<1> HIDE DEF G
<1>6. PICK f \in F : \A o \in D : f[o] = G[o][f]
  <2>1. LooksOnward(top, V, G)
    <3>1. \A o \in D : \A f \in [D -> V] : G[o][f] \in V
      BY <1>2, <1>3
    <3>2. \A o \in D : \A f, g \in [D -> V] :
            (\A n \in o + 1 .. top - 1 : f[n] = g[n]) => G[o][f] = G[o][g]
      BY <1>5
    <3> HIDE DEF V
    <3>. QED
      BY <3>1, <3>2 DEF LooksOnward
  <2>2. V # {}
    OBVIOUS
  <2> HIDE DEF V
  <2>3. Solvable(top, V, G)
    BY <1>0, <2>1, <2>2, RecursionHasSolution
  <2>. QED
    BY <2>3 DEF Solvable
<1>7. \A g, o : o \in 0 .. used => body(g)[o] = ReadFrom(m, used, o, g)
  BY DEF ReadFrom, NextOf, Reports!NextHeader, Reports!MPRTCP_PACKET_TYPE_IDENTIFIER
<1>8. \E g : g = body(g)
  <2>1. \A o \in 0 .. used : f[o] = ReadFrom(m, used, o, f)
    BY <1>0, <1>2, <1>6
  <2>2. f = [o \in 0 .. used |-> f[o]]
    BY <1>0
  <2>3. body(f) = [o \in 0 .. used |-> body(f)[o]]
    OBVIOUS
  <2>4. \A o \in 0 .. used : f[o] = body(f)[o]
    BY <1>7, <2>1
  <2> HIDE DEF body
  <2>5. f = body(f)
    BY <2>2, <2>3, <2>4
  <2>. QED
    BY <2>5
<1> DEFINE read == CHOOSE g : g = body(g)
<1>9. read = body(read)
  BY <1>8
<1>10. Reports!HeadersFrom(m, used) = read[0]
  BY DEF Reports!HeadersFrom
<1> HIDE DEF read, body
<1>11. \A o \in 0 .. used : read[o] = ReadFrom(m, used, o, read)
  BY <1>7, <1>9
<1> DEFINE Inside == {o \in D : read[o] \in V}
<1>12. D \subseteq Inside
  <2>1. ASSUME NEW o \in 0 .. top - 1, o + 1 .. top - 1 \subseteq Inside
        PROVE  o \in Inside
    <3>1. o < used /\ ~ (NextOf(m, o) > used) => read[NextOf(m, o)] \in V
      BY <1>1, <2>1
    <3>2. o < used => {o} \in V
      BY <1>0
    <3>3. ReadFrom(m, used, o, read) \in V
      BY <1>0, <3>1, <3>2 DEF ReadFrom
    <3>. QED
      BY <1>0, <1>11, <3>3
  <2> HIDE DEF Inside
  <2>2. Downward(top, Inside)
    BY <2>1 DEF Downward
  <2>. QED
    BY <1>0, <2>2, DownwardInduction
<1>. QED
  BY <1>0, <1>10, <1>11, <1>12

\* A chain of headers a reader goes along: all but the last are of reports, and
\* nothing of the chain lies between a header and the next.
Readable(m, used, c, e) ==
  /\ Chain(m, used, c, e)
  /\ \A o \in c \ {e} : m[o].b1 = 212 /\ \A p \in c : p > o => p >= NextOf(m, o)

LEMMA ReaderFinds ==
  ASSUME NEW m \in Buffers, NEW used \in 1 .. MaxSize, NEW e \in 0 .. used - 1,
         NEW c, Readable(m, used, c, e)
  PROVE  /\ c \ {e} \subseteq Reports!HeadersFrom(m, used)
         /\ m[e].b1 = 212 => e \in Reports!HeadersFrom(m, used)
<1>1. PICK f : /\ Reports!HeadersFrom(m, used) = f[0]
               /\ \A o \in 0 .. used : /\ f[o] \subseteq 0 .. used - 1
                                       /\ f[o] = ReadFrom(m, used, o, f)
  <2>1. used \in 0 .. MaxSize
    OBVIOUS
  <2>. QED
    BY <2>1, ReaderStep
<1>2. c \subseteq 0 .. e /\ 0 \in c /\ e \in c
  BY DEF Readable, Chain
<1> DEFINE Seen(p) == p # e \/ m[e].b1 = 212
           Good == {o \in 0 .. used - 1 : o \in c => \A p \in c : p >= o /\ Seen(p) => p \in f[o]}
<1>3. ASSUME NEW o \in 0 .. used - 1, o + 1 .. used - 1 \subseteq Good
      PROVE  o \in Good
  <2>1. CASE o \notin c
    BY <2>1
  <2>2. CASE o = e
    <3>1. ASSUME NEW p \in c, p >= o, Seen(p) PROVE p \in f[o]
      <4>1. p = e /\ m[e].b1 = 212
        BY <1>2, <2>2, <3>1
      <4>2. e \in ReadFrom(m, used, e, f)
        BY <4>1 DEF ReadFrom
      <4>. QED
        BY <1>1, <2>2, <4>1, <4>2
    <3>. QED
      BY <3>1
  <2>3. CASE o \in c \ {e}
    <3>1. /\ GoesOn(m, used, o) /\ NextOf(m, o) \in c /\ m[o].b1 = 212
          /\ \A p \in c : p > o => p >= NextOf(m, o)
      BY <2>3 DEF Readable, Chain
    <3>2. NextOf(m, o) \in o + 1 .. used - 1
      BY <3>1, WordsInside DEF GoesOn, NextOf
    <3>3. f[o] = {o} \cup f[NextOf(m, o)]
      <4>1. ~ (o >= used) /\ ~ (NextOf(m, o) > used) /\ o \in 0 .. used
        BY <3>2
      <4>2. f[o] = ReadFrom(m, used, o, f)
        BY <1>1, <4>1
      <4>. QED
        BY <3>1, <4>1, <4>2 DEF ReadFrom
    <3>4. NextOf(m, o) \in Good
      BY <1>3, <3>2
    <3>5. ASSUME NEW p \in c, p >= o, Seen(p) PROVE p \in f[o]
      <4>1. CASE p = o
        BY <3>3, <4>1
      <4>2. CASE p > o
        BY <3>1, <3>3, <3>4, <3>5, <4>2
      <4>. QED
        BY <1>2, <3>5, <4>1, <4>2
    <3>. QED
      BY <3>5
  <2>. QED
    BY <2>1, <2>2, <2>3
<1>4. 0 .. used - 1 \subseteq Good
  <2>1. Downward(used, Good)
    BY <1>3 DEF Downward
  <2>2. used \in Nat
    OBVIOUS
  <2> HIDE DEF Good
  <2>. QED
    BY <2>1, <2>2, DownwardInduction
<1>5. \A p \in c : Seen(p) => p \in f[0]
  BY <1>2, <1>4
<1>6. c \ {e} \subseteq f[0]
  BY <1>5
<1>7. m[e].b1 = 212 => e \in f[0]
  BY <1>2, <1>5
<1>. QED
  BY <1>1, <1>6, <1>7

\* Such a chain grows with the walk.
LEMMA ReadableGrows ==
  ASSUME NEW m \in Buffers, NEW w \in Buffers, NEW used \in 1 .. MaxSize,
         NEW n \in used .. MaxSize, NEW e \in 0 .. used - 1, NEW c, Readable(m, used, c, e),
         \A i \in 0 .. e - 1 : w[i] = m[i]
  PROVE  /\ ~ GoesOn(w, n, e) => Readable(w, n, c, e)
         /\ \A x \in e + 1 .. n - 1 :
              GoesOn(w, n, e) /\ NextOf(w, e) = x /\ ~ GoesOn(w, n, x) /\ w[e].b1 = 212
                => Readable(w, n, c \cup {x}, x)
<1>1. Chain(m, used, c, e) /\ c \subseteq 0 .. e
  BY DEF Readable, Chain
<1>2. /\ ~ GoesOn(w, n, e) => Chain(w, n, c, e)
      /\ \A x \in e + 1 .. n - 1 :
           GoesOn(w, n, e) /\ NextOf(w, e) = x /\ ~ GoesOn(w, n, x) => Chain(w, n, c \cup {x}, x)
  BY <1>1, ChainGrows
<1>3. ASSUME NEW o \in c \ {e}
      PROVE  /\ w[o].b1 = 212 /\ NextOf(w, o) <= e
             /\ \A p \in c : p > o => p >= NextOf(w, o)
  <2>1. o \in 0 .. e - 1 /\ e \in c
    BY <1>1 DEF Chain
  <2>2. w[o] = m[o] /\ NextOf(w, o) = NextOf(m, o)
    BY <2>1 DEF NextOf
  <2>3. NextOf(m, o) \in c
    BY <1>1 DEF Chain
  <2>. QED
    BY <1>1, <2>1, <2>2, <2>3 DEF Readable
<1>4. ASSUME NEW x \in e + 1 .. n - 1, NextOf(w, e) = x, w[e].b1 = 212, NEW o \in (c \cup {x}) \ {x}
      PROVE  w[o].b1 = 212 /\ \A p \in c \cup {x} : p > o => p >= NextOf(w, o)
  <2>1. CASE o = e
    <3>1. \A p \in c : ~ (p > e)
      BY <1>1
    <3>2. x >= x
      OBVIOUS
    <3>. QED
      BY <1>4, <2>1, <3>1, <3>2
  <2>2. CASE o # e
    <3>1. NextOf(w, o) \in Int
      <4>1. o \in 0 .. e - 1 /\ w[o] = m[o] /\ m[o].h \in Nat
        BY <1>1, <1>4, <2>2, WordsInside
      <4>. QED
        BY <4>1 DEF NextOf
    <3>. QED
      BY <1>3, <1>4, <2>2, <3>1
  <2>. QED
    BY <2>1, <2>2
<1>. QED
  BY <1>2, <1>3, <1>4 DEF Readable

\* With no data at its end the walk can end nowhere else.
LEMMA LastIsTheEnd ==
  ASSUME NEW m \in Buffers, NEW used \in 1 .. MaxSize, NEW e \in 0 .. used - 1,
         NEW c, Chain(m, used, c, e), m[e].kind # "data"
  PROVE  Reports!LastHeaders(m, used) = {e}
<1>1. PICK f : /\ Reports!LastHeaders(m, used) = f[0]
               /\ \A o \in 0 .. used - 1 : f[o] = LastsFrom(m, used, o, f)
  BY LastHeadersStep
<1> DEFINE Good == {o \in 0 .. used - 1 : o \in c => f[o] = {e}}
<1>2. ASSUME NEW o \in 0 .. used - 1, o + 1 .. used - 1 \subseteq Good
      PROVE  o \in Good
  <2>1. CASE o \notin c
    BY <2>1
  <2>2. CASE o = e
    <3>1. LastsFrom(m, used, e, f) = {e}
      BY DEF LastsFrom, Chain, GoesOn, Terminal
    <3>. QED
      BY <1>1, <2>2, <3>1
  <2>3. CASE o \in c \ {e}
    <3>1. GoesOn(m, used, o) /\ NextOf(m, o) \in c
      BY <2>3 DEF Chain
    <3>2. NextOf(m, o) \in o + 1 .. used - 1
      BY <3>1, WordsInside DEF GoesOn, NextOf
    <3>3. f[NextOf(m, o)] = {e}
      BY <1>2, <3>1, <3>2
    <3>4. LastsFrom(m, used, o, f) = f[NextOf(m, o)]
      BY <3>1 DEF LastsFrom, GoesOn, Terminal
    <3>. QED
      BY <1>1, <3>3, <3>4
  <2>. QED
    BY <2>1, <2>2, <2>3
<1>3. 0 .. used - 1 \subseteq Good
  <2>1. Downward(used, Good)
    BY <1>2 DEF Downward
  <2>2. used \in Nat
    OBVIOUS
  <2> HIDE DEF Good
  <2>. QED
    BY <2>1, <2>2, DownwardInduction
<1>4. 0 \in c
  BY DEF Chain
<1>. QED
  BY <1>1, <1>3, <1>4

\* A report that is written is there as a whole.
LEMMA ReportWhole ==
  ASSUME NEW m \in Buffers, NEW at \in 0 .. MaxSize - 11, NEW id \in Nat,
         NEW n \in Nat, at + 11 <= n
  PROVE  /\ Reports!WholeReport(Report(m, at, id), n, at)
         /\ Report(m, at, id)[at + 3] = Reports!Info(7, id)
         /\ Report(m, at, id)[at] = Reports!Header(1, 212, 10)
         /\ \A i \in 0 .. MaxSize - 1 : i < at \/ i >= at + 11 => Report(m, at, id)[i] = m[i]
         /\ \A i \in 0 .. MaxSize - 1 :
              Report(m, at, id)[i].kind = "info" => i = at + 3 \/ Report(m, at, id)[i] = m[i]
<1> DEFINE w == Report(m, at, id)
<1>1. /\ at \in Int /\ MaxSize \in Int
      /\ at \in 0 .. MaxSize - 1 /\ at + 3 \in 0 .. MaxSize - 1 /\ at + 4 \in 0 .. MaxSize - 1
  BY ElementsAssumption
<1>2. w[at] = Reports!Header(1, 212, 10) /\ w[at + 3] = Reports!Info(7, id)
  BY <1>1 DEF Report
<1>3. w[at + 4] = Reports!Header(0, 200, 6)
  BY <1>1 DEF Report
<1>4. ASSUME NEW i \in at + 5 .. at + 10 PROVE w[i].kind = "data"
  <2>1. i \in 0 .. MaxSize - 1 /\ i # at /\ i # at + 3 /\ i # at + 4
    BY <1>1
  <2>2. w[i] = Reports!Data
    BY <2>1 DEF Report
  <2>. QED
    BY <2>2 DEF Reports!Data, Reports!Word
<1>5. ASSUME NEW i \in 0 .. MaxSize - 1, i < at \/ i >= at + 11 PROVE w[i] = m[i]
  BY <1>1, <1>5 DEF Report
<1>6. ASSUME NEW i \in 0 .. MaxSize - 1, w[i].kind = "info" PROVE i = at + 3 \/ w[i] = m[i]
  BY <1>1, <1>6 DEF Report, Reports!Header, Reports!Data, Reports!Word
<1> HIDE DEF w
<1>7. w[at + 3].kind = "info" /\ w[at + 3].b1 = 7
  BY <1>2 DEF Reports!Info, Reports!Word
<1>8. Reports!WholeReport(w, n, at)
  BY <1>2, <1>3, <1>4, <1>7
     DEF Reports!WholeReport, Reports!ReportWords, Reports!RTCPHEADER_WORDS,
         Reports!RTCPSRBLOCK_WORDS, Reports!MPRTCP_PACKET_TYPE_IDENTIFIER,
         Reports!GST_RTCP_TYPE_SR
<1>. QED
  BY <1>2, <1>5, <1>6, <1>8 DEF w

\* What lies before a change is as whole as it was.
LEMMA WholeStays ==
  ASSUME NEW m \in Buffers, NEW w \in Buffers, NEW used \in 0 .. MaxSize,
         NEW n \in used .. MaxSize, NEW e \in Nat, NEW o \in Nat, o + 11 <= e,
         \A i \in 0 .. e - 1 : w[i] = m[i],
         Reports!WholeReport(m, used, o)
  PROVE  Reports!WholeReport(w, n, o) /\ w[o + 3] = m[o + 3]
<1>1. o \in 0 .. e - 1 /\ o + 3 \in 0 .. e - 1 /\ o + 4 \in 0 .. e - 1
      /\ \A i \in o + 5 .. o + 10 : i \in 0 .. e - 1
  OBVIOUS
<1>2. Reports!ReportWords = 11
  BY DEF Reports!ReportWords, Reports!RTCPHEADER_WORDS, Reports!RTCPSRBLOCK_WORDS
<1>3. o + Reports!ReportWords <= n
  BY <1>2, ElementsAssumption DEF Reports!WholeReport
<1>4. \A i \in o + 5 .. o + Reports!ReportWords - 1 : w[i].kind = "data"
  BY <1>1, <1>2 DEF Reports!WholeReport
<1>. QED
  BY <1>1, <1>3, <1>4 DEF Reports!WholeReport

\* A reader finds nothing but ids of blocks.
LEMMA ReportedAreInfos ==
  ASSUME NEW m \in Buffers, NEW used \in 0 .. MaxSize, NEW id \in Reports!Reported(m, used)
  PROVE  \E j \in 0 .. MaxSize - 1 : m[j].kind = "info" /\ m[j].h = id
<1>1. PICK o \in Reports!HeadersFrom(m, used) : Reports!WholeReport(m, used, o) /\ m[o + 3].h = id
  BY DEF Reports!Reported
<1>2. o \in 0 .. used - 1
  <2>1. 0 \in 0 .. used
    BY ElementsAssumption
  <2>. QED
    BY <2>1, ReaderStep
<1>3. o + 3 \in 0 .. MaxSize - 1
  BY <1>1, <1>2, ElementsAssumption
     DEF Reports!WholeReport, Reports!ReportWords, Reports!RTCPHEADER_WORDS,
         Reports!RTCPSRBLOCK_WORDS
<1>. QED
  BY <1>1, <1>3 DEF Reports!WholeReport

\* A report no later one is written over: its header is passed by the walk and
\* is not where it ends.
Settled(m, used, c, e, id) ==
  \E o \in c \ {e} : Reports!WholeReport(m, used, o) /\ m[o + 3].h = id

LEMMA SettledIsRead ==
  ASSUME NEW m \in Buffers, NEW used \in 1 .. MaxSize, NEW e \in 0 .. used - 1,
         NEW c, Readable(m, used, c, e), NEW id, Settled(m, used, c, e, id)
  PROVE  id \in Reports!Reported(m, used)
BY ReaderFinds DEF Settled, Reports!Reported

LEMMA SettledStays ==
  ASSUME NEW m \in Buffers, NEW w \in Buffers, NEW used \in 1 .. MaxSize,
         NEW n \in used .. MaxSize, NEW e \in 0 .. used - 1, NEW c, Readable(m, used, c, e),
         \A i \in 0 .. e - 1 : w[i] = m[i],
         NEW id, Settled(m, used, c, e, id), NEW x \in Nat, x >= e
  PROVE  Settled(w, n, c \cup {x}, x, id)
<1>1. PICK o \in c \ {e} : Reports!WholeReport(m, used, o) /\ m[o + 3].h = id
  BY DEF Settled
<1>2. o \in 0 .. e - 1 /\ NextOf(m, o) <= e
  BY DEF Readable, Chain
<1>3. m[o].h = 10
  BY <1>1 DEF Reports!WholeReport, Reports!Header, Reports!Word, Reports!ReportWords,
     Reports!RTCPHEADER_WORDS, Reports!RTCPSRBLOCK_WORDS
<1>4. o + 11 <= e /\ o \in Nat /\ e \in Nat
  BY <1>2, <1>3 DEF NextOf
<1>5. used \in 0 .. MaxSize
  OBVIOUS
<1>6. Reports!WholeReport(w, n, o) /\ w[o + 3] = m[o + 3]
  BY <1>1, <1>4, <1>5, WholeStays
<1>. QED
  BY <1>1, <1>2, <1>6 DEF Settled

\* The reports of d fill the buffer, and all but the first are settled.
Kept(m, used, d) ==
  /\ used = 11 * Len(d)
  /\ used # 0 => \E c : /\ Readable(m, used, c, Reports!Plain(m, used))
                        /\ \A i \in 2 .. Len(d) : Settled(m, used, c, Reports!Plain(m, used), d[i])

LEMMA ReadableIsPlain ==
  ASSUME NEW m \in Buffers, NEW used \in 1 .. MaxSize, NEW e \in 0 .. used - 1,
         NEW c, Readable(m, used, c, e)
  PROVE  Reports!Plain(m, used) = e
BY PlainIsTheEnd DEF Readable

\* One that is begun and left is written where nothing is settled.
LEMMA SkipKeeps ==
  ASSUME NEW m \in Buffers, NEW used \in 0 .. MaxSize, used % 11 = 0, NEW e, Ended(m, used, e),
         NEW d \in Seq(Nat), Kept(m, used, d)
  PROVE  Kept(Reports!AddRiport(m, e), used, d)
<1> DEFINE w == Reports!AddRiport(m, e)
           x == IF e + 3 < used THEN e + 3 ELSE e
<1>1. e \in 0 .. MaxSize - 11 /\ e \in 0 .. MaxSize - 10 /\ Reports!Plain(m, used) = e
  <2>1. e \in 0 .. MaxSize - 11
    BY EndBounds
  <2>2. Reports!Plain(m, used) = e
    BY EndIsPlain
  <2>. QED
    BY <2>1, <2>2, ElementsAssumption
<1>2. /\ w \in Buffers /\ w[e] = Reports!Header(0, 212, 2)
      /\ \A i \in 0 .. MaxSize - 1 : i \notin {e, e + 1} => w[i] = m[i]
  BY <1>1, SkippedIs
<1> HIDE DEF w
<1>3. CASE used = 0
  BY <1>3 DEF Kept, w
<1>4. CASE used # 0
  <2>1. PICK c : /\ Readable(m, used, c, e)
                 /\ \A i \in 2 .. Len(d) : Settled(m, used, c, e, d[i])
    BY <1>1, <1>4 DEF Kept
  <2>2. used \in 1 .. MaxSize /\ e \in 0 .. used - 1 /\ used \in used .. MaxSize
    BY <1>4, EndBounds
  <2>3. \A i \in 0 .. e - 1 : w[i] = m[i]
    BY <1>1, <1>2, ElementsAssumption
  <2>4. w[e].b1 = 212 /\ NextOf(w, e) = e + 3 /\ ~ Terminal(w[e])
    BY <1>1, <1>2, KindsOfWords DEF NextOf, Reports!Header, Reports!Word
  <2>5. x \in 0 .. used - 1 /\ x \in Nat /\ x >= e
    BY <2>2
  <2>6. Readable(w, used, c \cup {x}, x)
    <3>1. CASE e + 3 < used
      <4>1. GoesOn(w, used, e) /\ x = e + 3 /\ x \in e + 1 .. used - 1
        BY <2>2, <2>4, <3>1 DEF GoesOn
      <4>2. ~ GoesOn(w, used, x)
        <5>1. x \in 0 .. MaxSize - 1 /\ x \notin {e, e + 1}
          BY <2>2, <4>1, ElementsAssumption
        <5>2. Terminal(w[x])
          BY <1>2, <4>1, <5>1 DEF Ended
        <5>. QED
          BY <5>2 DEF GoesOn
      <4>3. \A y \in e + 1 .. used - 1 :
              GoesOn(w, used, e) /\ NextOf(w, e) = y /\ ~ GoesOn(w, used, y) /\ w[e].b1 = 212
                => Readable(w, used, c \cup {y}, y)
        BY <1>2, <2>1, <2>2, <2>3, ReadableGrows
      <4>4. NextOf(w, e) = x
        BY <2>4, <4>1
      <4> HIDE DEF x
      <4>. QED
        BY <2>4, <4>1, <4>2, <4>3, <4>4
    <3>2. CASE ~ (e + 3 < used)
      <4>1. ~ GoesOn(w, used, e) /\ x = e
        BY <2>4, <3>2 DEF GoesOn
      <4>2. e \in c
        BY <2>1 DEF Readable, Chain
      <4>3. Readable(w, used, c, e)
        BY <1>2, <2>1, <2>2, <2>3, <4>1, ReadableGrows
      <4>4. c \cup {x} = c
        BY <4>1, <4>2
      <4>. QED
        BY <4>1, <4>3, <4>4
    <3>. QED
      BY <3>1, <3>2
  <2> HIDE DEF x
  <2>7. \A i \in 2 .. Len(d) : Settled(w, used, c \cup {x}, x, d[i])
    BY <1>2, <2>1, <2>2, <2>3, <2>5, SettledStays
  <2>8. Reports!Plain(w, used) = x
    BY <1>2, <2>2, <2>5, <2>6, ReadableIsPlain
  <2>9. Kept(w, used, d)
    BY <2>6, <2>7, <2>8 DEF Kept
  <2>. QED
    BY <2>9 DEF w
<1>. QED
  BY <1>3, <1>4

\* One that is written is settled at once, but for the first.
LEMMA ReportKeeps ==
  ASSUME NEW m \in Buffers, NEW used \in 0 .. MaxSize, used % 11 = 0, NEW e, Ended(m, used, e),
         NEW d \in Seq(Nat), Kept(m, used, d), NEW id \in Nat, used + 11 <= MaxSize
  PROVE  /\ Kept(Report(m, e, id), used + 11, Append(d, id))
         /\ Reports!Plain(Report(m, e, id), used + 11) = IF used = 0 THEN 0 ELSE e + 11
<1> DEFINE w == Report(m, e, id)
           n == used + 11
<1>1. e \in 0 .. MaxSize - 11 /\ e \in 0 .. MaxSize - 10 /\ Reports!Plain(m, used) = e
  <2>1. e \in 0 .. MaxSize - 11
    BY EndBounds
  <2>2. Reports!Plain(m, used) = e
    BY EndIsPlain
  <2>. QED
    BY <2>1, <2>2, ElementsAssumption
<1>2. n \in 1 .. MaxSize /\ n \in used .. MaxSize /\ n \in Nat /\ e + 11 <= n
  <2>1. used = 0 => e = 0
    BY DEF Ended
  <2>2. used # 0 => e \in 0 .. used - 1
    BY EndBounds
  <2>. QED
    BY <2>1, <2>2, ElementsAssumption
<1>3. /\ Reports!WholeReport(w, n, e) /\ w[e + 3] = Reports!Info(7, id)
      /\ w[e] = Reports!Header(1, 212, 10)
      /\ \A i \in 0 .. MaxSize - 1 : i < e \/ i >= e + 11 => w[i] = m[i]
  BY <1>1, <1>2, ReportWhole, SMTT(40)
<1>4. w \in Buffers
  BY <1>1, ReportIs
<1>5. w[e].b1 = 212 /\ NextOf(w, e) = e + 11 /\ ~ Terminal(w[e]) /\ w[e + 3].h = id
  BY <1>1, <1>3, KindsOfWords DEF NextOf, Reports!Header, Reports!Info, Reports!Word
<1>6. n = 11 * Len(Append(d, id)) /\ Len(d) \in Nat /\ Len(Append(d, id)) = Len(d) + 1
  BY DEF Kept
<1> HIDE DEF w
<1>7. CASE used = 0
  <2>1. e = 0 /\ n = 11 /\ Len(d) = 0
    BY <1>6, <1>7 DEF Ended
  <2>2. ~ GoesOn(w, n, 0)
    BY <1>5, <2>1 DEF GoesOn
  <2>3. Readable(w, n, {0}, 0)
    BY <2>2 DEF Readable, Chain
  <2>4. Reports!Plain(w, n) = 0
    BY <1>2, <1>4, <2>1, <2>3, ReadableIsPlain
  <2>5. \A i \in 2 .. Len(Append(d, id)) : FALSE
    BY <1>6, <2>1
  <2>6. Kept(w, n, Append(d, id))
    BY <1>6, <2>3, <2>4, <2>5 DEF Kept
  <2>. QED
    BY <1>7, <2>4, <2>6 DEF w
<1>8. CASE used # 0
  <2>1. PICK c : /\ Readable(m, used, c, e)
                 /\ \A i \in 2 .. Len(d) : Settled(m, used, c, e, d[i])
    BY <1>1, <1>8 DEF Kept
  <2>2. used \in 1 .. MaxSize /\ e \in 0 .. used - 1
    BY <1>8, EndBounds
  <2>3. \A i \in 0 .. e - 1 : w[i] = m[i]
    BY <1>1, <1>3, ElementsAssumption
  <2> DEFINE x == e + 11
  <2>4. x \in e + 1 .. n - 1 /\ x \in 0 .. n - 1 /\ x \in 0 .. MaxSize - 1 /\ x \in Nat /\ x >= e
    BY <1>2, <2>2, ElementsAssumption
  <2>5. GoesOn(w, n, e)
    BY <1>5, <2>2 DEF GoesOn
  <2>6. ~ GoesOn(w, n, x)
    <3>1. w[x] = m[x] /\ Terminal(m[x])
      BY <1>1, <1>3, <2>4 DEF Ended
    <3>. QED
      BY <3>1 DEF GoesOn
  <2>7. NextOf(w, e) = x /\ e # x /\ e \in c
    BY <1>5, <2>1, <2>2 DEF Readable, Chain
  <2> HIDE DEF x, n
  <2>8. Readable(w, n, c \cup {x}, x)
    <3>1. \A y \in e + 1 .. n - 1 :
            GoesOn(w, n, e) /\ NextOf(w, e) = y /\ ~ GoesOn(w, n, y) /\ w[e].b1 = 212
              => Readable(w, n, c \cup {y}, y)
      BY <1>2, <1>4, <2>1, <2>2, <2>3, ReadableGrows
    <3>. QED
      BY <1>5, <2>4, <2>5, <2>6, <2>7, <3>1
  <2>9. \A i \in 2 .. Len(d) : Settled(w, n, c \cup {x}, x, d[i])
    BY <1>2, <1>4, <2>1, <2>2, <2>3, <2>4, SettledStays
  <2>10. Settled(w, n, c \cup {x}, x, id)
    BY <1>3, <1>5, <2>7 DEF Settled
  <2>11. \A i \in 2 .. Len(Append(d, id)) : Settled(w, n, c \cup {x}, x, Append(d, id)[i])
    <3>1. \A i \in 2 .. Len(Append(d, id)) : i \in 2 .. Len(d) \/ i = Len(d) + 1
      BY <1>6
    <3>2. Append(d, id)[Len(d) + 1] = id /\ \A i \in 2 .. Len(d) : Append(d, id)[i] = d[i]
      BY <1>6
    <3>. QED
      BY <2>9, <2>10, <3>1, <3>2
  <2>12. Reports!Plain(w, n) = x
    BY <1>2, <1>4, <2>4, <2>8, ReadableIsPlain
  <2>13. Kept(w, n, Append(d, id))
    BY <1>6, <2>8, <2>11, <2>12 DEF Kept, n
  <2>. QED
    BY <1>8, <2>12, <2>13 DEF w, n, x
<1>. QED
  BY <1>7, <1>8

\* Nobody passed over: no data lies where the walk ends, and behind the report
\* there all is as it was made; the first report stays until the second.
Straight(m, used, e, d) ==
  /\ used # 0 => m[e].kind # "data"
  /\ \A j \in 0 .. MaxSize - 1 : j >= e + 11 => m[j].kind = "zero"
  /\ Len(d) <= 1 => e = 0 /\ \A j \in 0 .. MaxSize - 1 : m[j].kind = "info" => j = 3
  /\ Len(d) = 1 => Reports!WholeReport(m, used, 0) /\ m[3].h = d[1]
  /\ Len(d) > 1 => \A j \in 0 .. MaxSize - 1 :
                     m[j].kind = "info" => \E i \in 2 .. Len(d) : m[j].h = d[i]

LEMMA FreshIsStraight == Straight(Reports!NewBuffer, 0, 0, << >>)
BY DEF Straight, Reports!NewBuffer, Reports!Word

LEMMA StraightGrows ==
  ASSUME NEW m \in Buffers, NEW used \in 0 .. MaxSize, used % 11 = 0, NEW e, Ended(m, used, e),
         NEW d \in Seq(Nat), used = 11 * Len(d), Straight(m, used, e, d),
         NEW id \in Nat, used + 11 <= MaxSize
  PROVE  Straight(Report(m, e, id), used + 11, IF used = 0 THEN 0 ELSE e + 11, Append(d, id))
<1> DEFINE w == Report(m, e, id)
           n == used + 11
           x == IF used = 0 THEN 0 ELSE e + 11
           g == Append(d, id)
<1>1. e \in 0 .. MaxSize - 11
  BY EndBounds
<1>2. n \in Nat /\ e + 11 <= n /\ x \in 0 .. MaxSize - 1
  <2>1. used = 0 => e = 0
    BY DEF Ended
  <2>2. used # 0 => e \in 0 .. used - 1
    BY EndBounds
  <2>. QED
    BY <2>1, <2>2, ElementsAssumption
<1>3. /\ Reports!WholeReport(w, n, e) /\ w[e + 3] = Reports!Info(7, id)
      /\ w[e] = Reports!Header(1, 212, 10)
      /\ \A i \in 0 .. MaxSize - 1 : i < e \/ i >= e + 11 => w[i] = m[i]
      /\ \A i \in 0 .. MaxSize - 1 : w[i].kind = "info" => i = e + 3 \/ w[i] = m[i]
  <2> HIDE DEF n, x
  <2>. QED
    BY <1>1, <1>2, ReportWhole, SMTT(40)
<1>4. w[e + 3].h = id /\ w[e].kind = "header"
  BY <1>3 DEF Reports!Info, Reports!Header, Reports!Word
<1>5. Len(d) \in Nat /\ Len(g) = Len(d) + 1 /\ g[Len(d) + 1] = id
      /\ \A i \in 2 .. Len(d) : g[i] = d[i]
  OBVIOUS
<1> HIDE DEF w, g
<1>6. w[x].kind # "data"
  <2>1. CASE used = 0
    BY <1>4, <2>1 DEF Ended
  <2>2. CASE used # 0
    <3>1. w[x] = m[x] /\ m[x].kind = "zero"
      BY <1>1, <1>2, <1>3, <2>2 DEF Straight
    <3>. QED
      BY <3>1
  <2>. QED
    BY <2>1, <2>2
<1>7. ASSUME NEW j \in 0 .. MaxSize - 1, j >= x + 11 PROVE w[j].kind = "zero"
  <2>1. j >= e + 11
    BY <1>1, <1>2, <1>7 DEF Ended
  <2>. QED
    BY <1>3, <2>1 DEF Straight
<1>8. CASE used = 0
  <2>1. Len(d) = 0 /\ Len(g) = 1 /\ x = 0 /\ e = 0
    BY <1>5, <1>8 DEF Ended
  <2>2. \A j \in 0 .. MaxSize - 1 : w[j].kind = "info" => j = 3
    BY <1>3, <2>1 DEF Straight
  <2>3. w[3].h = id /\ g[1] = id /\ Reports!WholeReport(w, n, 0)
    BY <1>3, <1>4, <1>5, <2>1
  <2>4. Straight(w, n, x, g)
    BY <1>6, <1>7, <2>1, <2>2, <2>3 DEF Straight
  <2>. QED
    BY <2>4 DEF w, g
<1>9. CASE used # 0
  <2>1. Len(d) >= 1 /\ Len(g) > 1
    BY <1>5, <1>9
  <2>2. ASSUME NEW j \in 0 .. MaxSize - 1, w[j].kind = "info"
        PROVE  \E i \in 2 .. Len(g) : w[j].h = g[i]
    <3>1. CASE j = e + 3
      <4>1. Len(d) + 1 \in 2 .. Len(g)
        BY <1>5, <2>1
      <4>. QED
        BY <1>4, <1>5, <3>1, <4>1
    <3>2. CASE j # e + 3
      <4>1. w[j] = m[j]
        BY <1>3, <2>2, <3>2
      <4>2. Len(d) > 1
        <5>1. CASE Len(d) <= 1
          <6>1. e = 0 /\ j = 3
            BY <2>2, <4>1, <5>1 DEF Straight
          <6>. QED
            BY <3>2, <6>1
        <5>. QED
          BY <1>5, <5>1
      <4>3. PICK i \in 2 .. Len(d) : m[j].h = d[i]
        BY <2>2, <4>1, <4>2 DEF Straight
      <4>4. i \in 2 .. Len(g)
        BY <1>5
      <4>. QED
        BY <1>5, <4>1, <4>3, <4>4
    <3>. QED
      BY <3>1, <3>2
  <2>3. ~ (Len(g) <= 1) /\ Len(g) # 1
    BY <1>5, <2>1
  <2>4. Straight(w, n, x, g)
    BY <1>6, <1>7, <2>2, <2>3 DEF Straight
  <2>. QED
    BY <2>4 DEF w, g
<1>. QED
  BY <1>8, <1>9

\* The ids of blocks are those of subflows whose report was due.
DueInv ==
  /\ due \in Seq(Nat) /\ skips \in Nat
  /\ \A j \in 0 .. MaxSize - 1 : mem[j].kind = "info" => \E i \in 1 .. Len(due) : mem[j].h = due[i]

AllFit == 11 * Len(due) <= MaxSize

KeptInv == compound /\ ~ misread /\ AllFit => Kept(mem, size, due)

StraightInv ==
  compound /\ skips = 0 /\ AllFit
    => ~ misread /\ Straight(mem, size, Reports!Plain(mem, size), due)

\* What has been sent.
SentInv ==
  /\ compound => \/ sent = << >>
                 \/ todo = << >> /\ sent = <<Reports!Packet(0, mem, size)>>
  /\ ~ compound => /\ size = 0 /\ sent \in Seq(Range(sent)) /\ Len(sent) = Len(due)
                   /\ Reports!SeparateReportsWhole

ReadInv == BufferInv /\ DueInv /\ KeptInv /\ StraightInv /\ SentInv

\* A run at its beginning.
Fresh ==
  /\ mem = Reports!NewBuffer /\ size = 0 /\ due = << >> /\ sent = << >>
  /\ skips = 0 /\ ~ misread

LEMMA FreshIsRead == Fresh => DueInv /\ KeptInv /\ StraightInv /\ SentInv
<1>. SUFFICES ASSUME Fresh PROVE DueInv /\ KeptInv /\ StraightInv /\ SentInv
  OBVIOUS
<1>. USE DEF Fresh
<1>1. due \in Seq(Nat) /\ Len(due) = 0 /\ sent \in Seq(Range(sent)) /\ Len(sent) = 0
  OBVIOUS
<1>2. DueInv
  BY <1>1 DEF DueInv, Reports!NewBuffer, Reports!Word
<1>3. KeptInv
  BY <1>1 DEF KeptInv, Kept
<1>4. Reports!Plain(mem, size) = 0
  BY DEF Reports!Plain
<1>5. StraightInv
  BY <1>4, FreshIsStraight DEF StraightInv
<1>6. SentInv
  BY <1>1 DEF SentInv, Reports!SeparateReportsWhole
<1>. QED
  BY <1>2, <1>3, <1>5, <1>6

LEMMA ReadInit == ASSUME Reports!Init PROVE ReadInv
<1>1. BufferInv
  BY BufferInit
<1>2. Fresh
  BY DEF Reports!Init, Fresh
<1>. QED
  BY <1>1, <1>2, FreshIsRead DEF ReadInv

\* What is written when a subflow is visited.
LEMMA VisitIs ==
  ASSUME BufferInv, NEW at \in Reports!AddBegin(mem, size), todo # << >>
  PROVE  /\ at \in 0 .. MaxSize - 10 /\ Head(todo) \in Nat
         /\ Reports!Filled(at) = Report(mem, at, Head(todo))
         /\ Reports!NewSize(at) = IF size + 11 <= MaxSize THEN size + 11 ELSE size
<1>1. at \in 0 .. MaxSize - 10
  BY BegunInside DEF BufferInv
<1>2. Head(todo) \in Nat
  <2>1. Head(todo) \in 1 .. Reporters
    BY HeadTailProperties DEF BufferInv
  <2>. QED
    BY <2>1
<1>3. at \in 0 .. MaxSize - 5
  BY <1>1, ElementsAssumption
<1>4. Reports!Filled(at) = Report(mem, at, Head(todo))
  BY <1>2, <1>3, FilledIsReport DEF Reports!Filled, BufferInv
<1>. QED
  BY <1>1, <1>2, <1>4, ReportIs DEF Reports!NewSize, BufferInv

\* With nobody passed over no data word can pass for a header.
LEMMA BegunStraight ==
  ASSUME BufferInv, ~ misread, Straight(mem, size, Reports!Plain(mem, size), due),
         NEW at \in Reports!AddBegin(mem, size)
  PROVE  at = Reports!Plain(mem, size)
<1>1. PICK e : Ended(mem, size, e)
  BY DEF BufferInv
<1>2. Reports!Plain(mem, size) = e
  BY <1>1, EndIsPlain DEF BufferInv
<1>3. CASE size = 0
  BY <1>1, <1>2, <1>3 DEF Reports!AddBegin, Ended
<1>4. CASE size # 0
  <2>1. PICK c : Chain(mem, size, c, e)
    BY <1>1, <1>4 DEF Ended
  <2>2. size \in 1 .. MaxSize /\ e \in 0 .. size - 1
    BY <1>1, <1>4, EndBounds DEF BufferInv
  <2>3. mem[e].kind # "data"
    BY <1>2, <1>4 DEF Straight
  <2>4. Reports!LastHeaders(mem, size) = {e}
    BY <2>1, <2>2, <2>3, LastIsTheEnd DEF BufferInv
  <2>. QED
    BY <1>2, <1>4, <2>4 DEF Reports!AddBegin
<1>. QED
  BY <1>3, <1>4

LEMMA SkipKeepsRead ==
  ASSUME ReadInv, NEW at \in Reports!AddBegin(mem, size), Reports!Skip(at)
  PROVE  DueInv' /\ KeptInv' /\ StraightInv' /\ SentInv'
<1>1. /\ mem' = Reports!AddRiport(mem, at) /\ size' = size /\ due' = due /\ sent' = sent
      /\ skips' = skips + 1 /\ compound' = compound /\ todo # << >>
  BY DEF Reports!Skip, Reports!Skipped
<1>2. BufferInv /\ Reports!Misread(at)
  BY DEF Reports!Skip, ReadInv
<1>3. at \in 0 .. MaxSize - 10 /\ mem \in Buffers /\ size \in 0 .. MaxSize /\ size % 11 = 0
  BY <1>1, <1>2, VisitIs DEF BufferInv
<1>4. DueInv'
  <2>1. skips' \in Nat /\ due' \in Seq(Nat)
    BY <1>1 DEF ReadInv, DueInv
  <2>2. ASSUME NEW j \in 0 .. MaxSize - 1, mem'[j].kind = "info" PROVE mem'[j] = mem[j]
    <3>1. /\ mem'[at].kind = "header" /\ mem'[at + 1].kind = "data"
          /\ \A i \in 0 .. MaxSize - 1 : i \notin {at, at + 1} => mem'[i] = mem[i]
      BY <1>1, <1>3, SkippedIs DEF Reports!Header, Reports!Data, Reports!Word
    <3>. QED
      BY <2>2, <3>1
  <2>. QED
    BY <1>1, <2>1, <2>2 DEF ReadInv, DueInv
<1>5. KeptInv'
  <2>1. SUFFICES ASSUME compound', ~ misread', AllFit' PROVE Kept(mem', size', due')
    BY DEF KeptInv
  <2>2. Ended(mem, size, at)
    BY <1>2, <2>1, BegunAtTheEnd
  <2>3. Kept(mem, size, due)
    BY <1>1, <1>2, <2>1 DEF ReadInv, KeptInv, AllFit, Reports!Misread
  <2>4. due \in Seq(Nat)
    BY DEF ReadInv, DueInv
  <2>. QED
    BY <1>1, <1>3, <2>2, <2>3, <2>4, SkipKeeps
<1>6. StraightInv'
  <2>1. skips' # 0
    BY <1>1 DEF ReadInv, DueInv
  <2>. QED
    BY <2>1 DEF StraightInv
<1>7. SentInv'
  BY <1>1 DEF ReadInv, SentInv, Reports!SeparateReportsWhole, Reports!PacketReports
<1>. QED
  BY <1>4, <1>5, <1>6, <1>7

LEMMA CompoundKeepsRead ==
  ASSUME ReadInv, NEW at \in Reports!AddBegin(mem, size), Reports!CompoundReport(at)
  PROVE  DueInv' /\ KeptInv' /\ StraightInv' /\ SentInv'
<1> DEFINE id == Head(todo)
<1>1. BufferInv /\ Reports!Misread(at) /\ todo # << >> /\ compound
  BY DEF Reports!CompoundReport, ReadInv
<1>2. /\ mem' = Report(mem, at, id) /\ id \in Nat /\ at \in 0 .. MaxSize - 10
      /\ size' = IF size + 11 <= MaxSize THEN size + 11 ELSE size
  BY <1>1, VisitIs DEF Reports!CompoundReport
<1>3. /\ due' = Append(due, id) /\ sent' = sent /\ skips' = skips /\ compound' = compound
      /\ due \in Seq(Nat)
  BY DEF Reports!CompoundReport, ReadInv, DueInv
<1> HIDE DEF id
<1>4. /\ due' \in Seq(Nat) /\ Len(due) \in Nat /\ Len(due') = Len(due) + 1
      /\ due'[Len(due) + 1] = id /\ \A i \in 1 .. Len(due) : due'[i] = due[i]
  BY <1>2, <1>3
<1>5. mem \in Buffers /\ size \in 0 .. MaxSize /\ size % 11 = 0
  BY <1>1 DEF BufferInv
<1>6. DueInv'
  <2>1. ASSUME NEW j \in 0 .. MaxSize - 1, mem'[j].kind = "info"
        PROVE  \E i \in 1 .. Len(due') : mem'[j].h = due'[i]
    <3>1. mem'[j] = Reports!Info(7, id) \/ mem'[j] = mem[j]
      BY <1>2, <2>1 DEF Report, Reports!Header, Reports!Data, Reports!Word
    <3>2. CASE mem'[j] = Reports!Info(7, id)
      <4>1. Len(due) + 1 \in 1 .. Len(due') /\ mem'[j].h = id
        BY <1>4, <3>2 DEF Reports!Info, Reports!Word
      <4>. QED
        BY <1>4, <4>1
    <3>3. CASE mem'[j] = mem[j]
      <4>1. PICK i \in 1 .. Len(due) : mem[j].h = due[i]
        BY <2>1, <3>3 DEF ReadInv, DueInv
      <4>2. i \in 1 .. Len(due')
        BY <1>4
      <4>. QED
        BY <1>4, <3>3, <4>1, <4>2
    <3>. QED
      BY <3>1, <3>2, <3>3
  <2>. QED
    BY <1>3, <1>4, <2>1 DEF ReadInv, DueInv
<1>7. AllFit' => AllFit
  BY <1>4, ElementsAssumption DEF AllFit
<1>8. ASSUME ~ misread', AllFit'
      PROVE  /\ Ended(mem, size, at) /\ Kept(mem, size, due)
             /\ size + 11 <= MaxSize /\ size' = size + 11
  <2>1. Ended(mem, size, at)
    BY <1>1, <1>8, BegunAtTheEnd
  <2>2. Kept(mem, size, due)
    BY <1>1, <1>7, <1>8 DEF ReadInv, KeptInv, Reports!Misread
  <2>3. size + 11 <= MaxSize
    BY <1>4, <1>8, <2>2 DEF Kept, AllFit
  <2>. QED
    BY <1>2, <2>1, <2>2, <2>3
<1>9. KeptInv'
  <2>1. SUFFICES ASSUME ~ misread', AllFit' PROVE Kept(mem', size', due')
    BY DEF KeptInv
  <2>. QED
    BY <1>2, <1>3, <1>5, <1>8, <2>1, ReportKeeps
<1>10. StraightInv'
  <2>1. SUFFICES ASSUME skips = 0, AllFit'
                 PROVE  ~ misread' /\ Straight(mem', size', Reports!Plain(mem', size'), due')
    BY <1>3 DEF StraightInv
  <2>2. ~ misread /\ Straight(mem, size, Reports!Plain(mem, size), due)
    BY <1>1, <1>7, <2>1 DEF ReadInv, StraightInv
  <2>3. at = Reports!Plain(mem, size)
    BY <1>1, <2>2, BegunStraight
  <2>4. ~ misread'
    BY <1>1, <2>2, <2>3 DEF Reports!Misread
  <2>5. Reports!Plain(mem', size') = IF size = 0 THEN 0 ELSE at + 11
    BY <1>2, <1>3, <1>5, <1>8, <2>1, <2>4, ReportKeeps
  <2>6. size = 11 * Len(due)
    BY <1>8, <2>1, <2>4 DEF Kept
  <2>7. Straight(mem', size', IF size = 0 THEN 0 ELSE at + 11, due')
    BY <1>2, <1>3, <1>5, <1>8, <2>1, <2>2, <2>3, <2>4, <2>6, StraightGrows
  <2>. QED
    BY <2>4, <2>5, <2>7
<1>11. SentInv'
  BY <1>1, <1>3 DEF ReadInv, SentInv
<1>. QED
  BY <1>6, <1>9, <1>10, <1>11

\* A packet of one report holds this one and no other.
LEMMA OneReport ==
  ASSUME NEW m \in Buffers, NEW id \in Nat
  PROVE  Reports!Reported(Report(m, 0, id), 11) = {id}
<1> DEFINE w == Report(m, 0, id)
<1>1. 0 \in 0 .. MaxSize - 11 /\ 0 \in 0 .. MaxSize - 10 /\ 11 \in 1 .. MaxSize /\ 11 \in 0 .. MaxSize
  BY ElementsAssumption
<1>2. w \in Buffers
  BY <1>1, ReportIs
<1>3. /\ Reports!WholeReport(w, 11, 0) /\ w[3] = Reports!Info(7, id)
      /\ w[0] = Reports!Header(1, 212, 10)
  <2>1. /\ Reports!WholeReport(w, 11, 0) /\ w[0 + 3] = Reports!Info(7, id)
        /\ w[0] = Reports!Header(1, 212, 10)
    <3>1. 11 \in Nat /\ 0 + 11 <= 11
      OBVIOUS
    <3>. QED
      BY <1>1, <3>1, ReportWhole
  <2>. QED
    BY <2>1
<1>4. w[3].h = id /\ w[0].h = 10 /\ w[0].b1 = 212
  BY <1>3 DEF Reports!Info, Reports!Header, Reports!Word
<1> HIDE DEF w
<1>5. Readable(w, 11, {0}, 0)
  <2>1. ~ GoesOn(w, 11, 0)
    BY <1>4 DEF GoesOn, NextOf
  <2>. QED
    BY <2>1 DEF Readable, Chain
<1>6. 0 \in Reports!HeadersFrom(w, 11)
  <2>1. 0 \in 0 .. 11 - 1
    OBVIOUS
  <2>. QED
    BY <1>1, <1>2, <1>4, <1>5, <2>1, ReaderFinds
<1>7. ASSUME NEW o \in Reports!HeadersFrom(w, 11), Reports!WholeReport(w, 11, o) PROVE o = 0
  <2>1. o \in 0 .. 11 - 1
    <3>1. 0 \in 0 .. 11
      OBVIOUS
    <3>. QED
      BY <1>1, <1>2, <3>1, ReaderStep
  <2>. QED
    BY <1>7, <2>1
       DEF Reports!WholeReport, Reports!ReportWords, Reports!RTCPHEADER_WORDS,
           Reports!RTCPSRBLOCK_WORDS
<1>8. Reports!Reported(w, 11) = {id}
  BY <1>3, <1>4, <1>6, <1>7 DEF Reports!Reported
<1>. QED
  BY <1>8 DEF w

LEMMA SeparateKeepsRead ==
  ASSUME ReadInv, NEW at \in Reports!AddBegin(mem, size), Reports!SeparateReport(at)
  PROVE  DueInv' /\ KeptInv' /\ StraightInv' /\ SentInv'
<1> DEFINE id == Head(todo)
           p == Reports!Packet(id, Reports!Filled(at), Reports!NewSize(at))
<1>1. BufferInv /\ ~ compound /\ todo # << >> /\ size = 0
  BY DEF Reports!SeparateReport, ReadInv, SentInv
<1>2. at = 0
  BY <1>1 DEF Reports!AddBegin
<1>3. /\ id \in Nat /\ mem \in Buffers
      /\ Reports!Filled(at) = Report(mem, 0, id) /\ Reports!NewSize(at) = 11
  BY <1>1, <1>2, VisitIs, ElementsAssumption DEF BufferInv
<1>4. p.to = id /\ p.size = 11 /\ Reports!PacketReports(p) = {id}
  BY <1>3, OneReport DEF Reports!Packet, Reports!PacketReports
<1>5. /\ mem' = Reports!NewBuffer /\ size' = 0 /\ due' = Append(due, id)
      /\ sent' = Append(sent, p) /\ skips' = skips /\ ~ compound'
  BY <1>1 DEF Reports!SeparateReport, Reports!FreshBuffer
<1>6. /\ due \in Seq(Nat) /\ skips \in Nat /\ sent \in Seq(Range(sent)) /\ Len(sent) = Len(due)
      /\ Reports!SeparateReportsWhole
  BY <1>1 DEF ReadInv, DueInv, SentInv
<1> HIDE DEF id, p
<1>7. DueInv'
  BY <1>3, <1>5, <1>6 DEF DueInv, Reports!NewBuffer, Reports!Word
<1>8. /\ Len(due') = Len(due) + 1 /\ due'[Len(due) + 1] = id
      /\ \A i \in 1 .. Len(due) : due'[i] = due[i]
  BY <1>3, <1>5, <1>6
<1>9. /\ Len(sent') = Len(sent) + 1 /\ sent'[Len(sent) + 1] = p
      /\ \A i \in 1 .. Len(sent) : sent'[i] = sent[i]
  BY <1>5, <1>6
<1>10. Len(sent) \in Nat
  BY <1>6
<1>11. sent' \in Seq(Range(sent'))
  <2>1. sent' \in Seq(Range(sent) \cup {p})
    BY <1>5, <1>6
  <2>. QED
    BY <2>1 DEF Range
<1>12. Reports!SeparateReportsWhole'
  <2>1. SUFFICES ASSUME NEW i \in 1 .. Len(sent')
                 PROVE  /\ sent'[i].to = due'[i] /\ sent'[i].size = Reports!ReportWords
                        /\ Reports!PacketReports(sent'[i]) = {due'[i]}
    BY DEF Reports!SeparateReportsWhole, Reports!PacketReports
  <2>2. CASE i \in 1 .. Len(sent)
    BY <1>6, <1>8, <1>9, <2>2 DEF Reports!SeparateReportsWhole
  <2>3. CASE i = Len(sent) + 1
    <3>1. Reports!ReportWords = 11
      BY DEF Reports!ReportWords, Reports!RTCPHEADER_WORDS, Reports!RTCPSRBLOCK_WORDS
    <3>. QED
      BY <1>4, <1>6, <1>8, <1>9, <2>3, <3>1
  <2>. QED
    BY <1>9, <1>10, <2>2, <2>3
<1>13. SentInv'
  BY <1>5, <1>6, <1>8, <1>9, <1>11, <1>12 DEF SentInv
<1>. QED
  BY <1>5, <1>7, <1>13 DEF KeptInv, StraightInv

LEMMA FinishKeepsRead ==
  ASSUME ReadInv, Reports!Finish
  PROVE  DueInv' /\ KeptInv' /\ StraightInv' /\ SentInv'
<1>1. /\ mem' = mem /\ size' = size /\ due' = due /\ skips' = skips /\ misread' = misread
      /\ compound /\ compound' = compound /\ todo' = << >>
      /\ sent' = <<Reports!Packet(0, mem, size)>>
  BY DEF Reports!Finish, Reports!RtcpPad
<1>2. DueInv' /\ KeptInv' /\ StraightInv'
  BY <1>1 DEF ReadInv, DueInv, KeptInv, StraightInv, AllFit
<1>3. SentInv'
  <2>1. Reports!Packet(0, mem', size') = Reports!Packet(0, mem, size)
    BY <1>1 DEF Reports!Packet
  <2>. QED
    BY <1>1, <2>1 DEF SentInv
<1>. QED
  BY <1>2, <1>3

LEMMA ReadNext ==
  ASSUME ReadInv, [Reports!Next]_reports
  PROVE  ReadInv'
<1>1. BufferInv'
  BY BufferNext DEF ReadInv
<1>2. ASSUME UNCHANGED reports PROVE ReadInv'
  <2>1. DueInv' /\ KeptInv' /\ StraightInv'
    BY <1>2 DEF ReadInv, DueInv, KeptInv, StraightInv, AllFit, reports
  <2>2. SentInv'
    BY <1>2 DEF ReadInv, SentInv, reports, Reports!SeparateReportsWhole, Reports!PacketReports,
       Reports!Packet
  <2>. QED
    BY <1>1, <2>1, <2>2 DEF ReadInv
<1>3. ASSUME NEW n \in 0 .. Reporters, NEW c \in BOOLEAN, Reports!Start(n, c)
      PROVE  ReadInv'
  <2>1. Fresh'
    BY <1>3 DEF Reports!Start, Fresh
  <2>2. (Fresh => DueInv /\ KeptInv /\ StraightInv /\ SentInv)'
    BY FreshIsRead, PTL
  <2>. QED
    BY <1>1, <2>1, <2>2 DEF ReadInv
<1>4. ASSUME NEW at \in Reports!AddBegin(mem, size),
             Reports!Skip(at) \/ Reports!CompoundReport(at) \/ Reports!SeparateReport(at)
      PROVE  ReadInv'
  BY <1>1, <1>4, SkipKeepsRead, CompoundKeepsRead, SeparateKeepsRead DEF ReadInv
<1>5. ASSUME Reports!Finish PROVE ReadInv'
  BY <1>1, <1>5, FinishKeepsRead DEF ReadInv
<1>. QED
  BY <1>2, <1>3, <1>4, <1>5 DEF Reports!Next

LEMMA CompoundRead ==
  ASSUME ReadInv, compound, sent # << >>, AllFit
  PROVE  Reports!CompoundLosses
<1> DEFINE found == Reports!PacketReports(sent[1])
           others == {due[i] : i \in 2 .. Len(due)}
<1>1. found = Reports!Reported(mem, size)
  BY DEF ReadInv, SentInv, Reports!PacketReports, Reports!Packet
<1>2. /\ BufferInv /\ mem \in Buffers /\ size \in 0 .. MaxSize /\ size % 11 = 0
      /\ due \in Seq(Nat) /\ Len(due) \in Nat
  BY DEF ReadInv, BufferInv, DueInv
<1>3. ASSUME NEW x \in found
      PROVE  \E j \in 0 .. MaxSize - 1 : mem[j].kind = "info" /\ mem[j].h = x
  BY <1>1, <1>2, ReportedAreInfos
<1> HIDE DEF found
<1>4. ASSUME NEW x \in found PROVE \E i \in 1 .. Len(due) : x = due[i]
  BY <1>3 DEF ReadInv, DueInv
<1>5. Reports!Range(due) = {due[i] : i \in 1 .. Len(due)}
  BY <1>2 DEF Reports!Range
<1>6. ASSUME ~ misread
      PROVE  /\ size = 11 * Len(due)
             /\ size # 0 =>
                  \E e \in 0 .. size - 1 : \E c :
                    /\ e = Reports!Plain(mem, size) /\ Readable(mem, size, c, e)
                    /\ \A i \in 2 .. Len(due) : Settled(mem, size, c, e, due[i])
  <2>1. Kept(mem, size, due)
    BY <1>6 DEF ReadInv, KeptInv
  <2>2. size # 0 => Reports!Plain(mem, size) \in 0 .. size - 1
    <3>1. PICK e : Ended(mem, size, e)
      BY <1>2, <1>6 DEF BufferInv
    <3>2. Reports!Plain(mem, size) = e
      BY <1>2, <3>1, EndIsPlain
    <3>3. size # 0 => e \in 0 .. size - 1
      BY <1>2, <3>1, EndBounds
    <3>. QED
      BY <3>2, <3>3
  <2>. QED
    BY <2>1, <2>2 DEF Kept
<1>7. ASSUME ~ misread, NEW i \in 2 .. Len(due) PROVE due[i] \in found
  <2>1. size \in 1 .. MaxSize
    BY <1>2, <1>6, <1>7
  <2>2. PICK e \in 0 .. size - 1 :
          \E c : Readable(mem, size, c, e) /\ Settled(mem, size, c, e, due[i])
    BY <1>6, <1>7, <2>1
  <2>. QED
    BY <1>1, <1>2, <2>1, <2>2, SettledIsRead
<1>8. ASSUME skips = 0 PROVE found = IF Len(due) = 1 THEN Reports!Range(due) ELSE others
  <2>1. ~ misread /\ Straight(mem, size, Reports!Plain(mem, size), due)
    BY <1>8 DEF ReadInv, StraightInv
  <2>2. CASE Len(due) = 0
    BY <1>4, <2>2
  <2>3. CASE Len(due) = 1
    <3>1. /\ Reports!Plain(mem, size) = 0 /\ Reports!WholeReport(mem, size, 0) /\ mem[3].h = due[1]
      BY <2>1, <2>3 DEF Straight
    <3>2. size \in 1 .. MaxSize
      BY <1>2, <1>6, <2>1, <2>3
    <3>3. PICK c : Readable(mem, size, c, 0)
      BY <1>6, <2>1, <3>1, <3>2
    <3>4. mem[0].b1 = 212
      BY <3>1 DEF Reports!WholeReport, Reports!Header, Reports!Word,
         Reports!MPRTCP_PACKET_TYPE_IDENTIFIER
    <3>5. 0 \in Reports!HeadersFrom(mem, size)
      <4>1. 0 \in 0 .. size - 1
        BY <3>2, ElementsAssumption
      <4>. QED
        BY <1>2, <3>2, <3>3, <3>4, <4>1, ReaderFinds
    <3>6. due[1] \in found
      <4>1. mem[0 + 3].h = due[1]
        BY <3>1
      <4>. QED
        BY <1>1, <3>1, <3>5, <4>1 DEF Reports!Reported
    <3>. QED
      BY <1>4, <1>5, <2>3, <3>6
  <2>4. CASE Len(due) > 1
    <3>1. \A x \in found : x \in others
      BY <1>3, <2>1, <2>4 DEF Straight
    <3>. QED
      BY <1>7, <2>1, <2>4, <3>1
  <2>5. Len(due) = 0 \/ Len(due) = 1 \/ Len(due) > 1
    <3>1. Len(due) \in Nat
      BY <1>2
    <3>. QED
      BY <3>1
  <2> HIDE DEF others
  <2>. QED
    BY <2>2, <2>3, <2>4, <2>5
<1>9. found \subseteq Reports!Range(due) /\ (~ misread => others \subseteq found)
  BY <1>4, <1>5, <1>7
<1> DEFINE P(f) == /\ f \subseteq Reports!Range(due) /\ (~ misread => others \subseteq f)
                   /\ skips = 0 => f = IF Len(due) = 1 THEN Reports!Range(due) ELSE others
<1>10. P(found)
  BY <1>8, <1>9
<1>. QED
  BY <1>10 DEF Reports!CompoundLosses, found

LEMMA ReadHolds == ASSUME ReadInv PROVE ReportsReadBack
<1>1. ASSUME compound, sent # << >>, Len(due) * Reports!ReportWords <= MaxSize
      PROVE  Reports!CompoundLosses
  <2>1. AllFit
    BY <1>1 DEF AllFit, ReadInv, DueInv, Reports!ReportWords, Reports!RTCPHEADER_WORDS,
       Reports!RTCPSRBLOCK_WORDS
  <2>. QED
    BY <1>1, <2>1, CompoundRead
<1>2. ~ compound => Reports!SeparateReportsWhole
  BY DEF ReadInv, SentInv
<1>. QED
  BY <1>1, <1>2 DEF ReportsReadBack, Reports!ReportsReadBack

-----------------------------------------------------------------------------
(* The parts.                                                              *)

\* A step of the whole is a step of each part, or leaves the part alone.
LEMMA StepOfEachPart ==
  ASSUME [Next]_vars
  PROVE  /\ [Playouts!Next]_playouts /\ [Reports!Next]_reports /\ [Rotation!Next]_rotation
         /\ [Readers!Next]_reading /\ [Lifecycle!Next]_lifecycle
BY DEF Next, vars

\* All five machines stay in their domains, for any number of pads, subflows and
\* slots and buffers of any size.  In this are: the playout delay never exceeds
\* what the largest path skew makes it; the MPRTCP receiver never gives back a
\* lock it has not; and, as long as no data word has passed for a header, no
\* report is written beyond the end of the riporter's buffer, however many
\* subflows there are and whichever of them are passed over.
THEOREM TypeCorrect == Spec => []TypeOK
<1> DEFINE Inv == /\ RotationInv /\ ReadersInv /\ LifecycleInv
                  /\ RingInv /\ DelayInv /\ BufferInv
<1>1. Init => Inv
  BY NoneIsApart, RotationInit, ReadersInit, LifecycleInit, RingInit, DelayInit, BufferInit
     DEF Init
<1>2. Inv /\ [Next]_vars => Inv'
  BY StepOfEachPart, NoneIsApart, RotationNext, ReadersNext, LifecycleNext, RingNext, DelayNext, BufferNext
<1>3. Inv => TypeOK
  BY PlayoutTyped, BufferTyped DEF TypeOK, RotationInv, ReadersInv, LifecycleInv
<1>. QED
  BY <1>1, <1>2, <1>3, PTL DEF Spec

\* The MPRTCP sender serves each subflow once a round, for any number of
\* subflows, whatever is requested, linked and unlinked on the way.
THEOREM RotationServesOnce == Spec => ServedOnceARound
<1>1. Init => RotationInv
  BY RotationInit DEF Init
<1>2. RotationInv /\ [Next]_vars => RotationInv'
  BY StepOfEachPart, RotationNext
<1>3. RotationInv /\ [Next]_vars =>
        [Rotation!Push /\ chain.out # RtcpSrc =>
           chain.out \notin round \/ chain.out = Rotation!ListHead]_Rotation!vars
  BY PushIsNew
<1>. QED
  BY <1>1, <1>2, <1>3, PTL DEF Spec, ServedOnceARound, Rotation!ServedOnceARound

\* A read lock is out for every thread inside a chain function of the MPRTCP
\* receiver and for no other, for any number of pads and on every way out.
THEOREM ReadLocksCounted == Spec => [](readers = Cardinality(Readers!Inside))
<1>1. Init => ReadersInv
  BY ReadersInit DEF Init
<1>2. ReadersInv /\ [Next]_vars => ReadersInv'
  BY StepOfEachPart, ReadersNext
<1>3. ReadersInv => readers = Cardinality(Readers!Inside)
  BY SameCount DEF ReadersInv, Readers!TypeOK
<1>. QED
  BY <1>1, <1>2, <1>3, PTL DEF Spec

\* No thread is inside an element that has come to READY or NULL, in whatever
\* order the calls of a state change, the tasks and the packets fall.
THEOREM NobodyInsideBelowPaused == Spec => []QuietBelowPaused
<1>1. Init => LifecycleInv
  BY NoneIsApart, LifecycleInit DEF Init
<1>2. LifecycleInv /\ [Next]_vars => LifecycleInv'
  BY StepOfEachPart, NoneIsApart, LifecycleNext
<1>3. LifecycleInv => QuietBelowPaused
  BY QuietFromInv DEF QuietBelowPaused
<1>. QED
  BY <1>1, <1>2, <1>3, PTL DEF Spec

\* The playout delay follows the largest of the last path skews, for a ring of
\* any size and a counter of any width, as long as the counter has not
\* overflown, and again once it has come back to a full ring.
THEOREM PlayoutLooksAtRecent == Spec => []MaxOfRecent
<1>1. Init => RingInv
  BY RingInit DEF Init
<1>2. RingInv /\ [Next]_vars => RingInv'
  BY StepOfEachPart, RingNext
<1>3. RingInv => MaxOfRecent
  BY MaxOfRecentHolds
<1>. QED
  BY <1>1, <1>2, <1>3, PTL DEF Spec

\* What a reader finds in the packets of a run, for buffers of any size and any
\* number of subflows, in whatever order they are due or passed over: every
\* report in its own packet; of a compound packet all but the first, as long as
\* they fit and no data word has passed for a header, which none does when
\* nobody is passed over.
THEOREM ReportsCanBeRead == Spec => []ReportsReadBack
<1>1. Init => ReadInv
  BY ReadInit DEF Init
<1>2. ReadInv /\ [Next]_vars => ReadInv'
  BY StepOfEachPart, ReadNext
<1>3. ReadInv => ReportsReadBack
  BY ReadHolds
<1>. QED
  BY <1>1, <1>2, <1>3, PTL DEF Spec
=============================================================================
