---------------------------- MODULE SenderDispatch ----------------------------
(***************************************************************************)
(* How the sender divides its traffic: the list of subflows with their     *)
(* rates, the scheduler that turns rates into values, and the tree that    *)
(* turns values into draws.  Every operation runs under subflows_mutex and *)
(* is one step; MprtpSender has the threads, this module the arithmetic.   *)
(*                                                                         *)
(* Rates are fractions 1 / subflow_num.  They are kept as multiples of     *)
(* 1 / RateUnit, which is exact when RateUnit is a multiple of every       *)
(* possible subflow_num.                                                   *)
(***************************************************************************)
EXTENDS MprtpsSubflow, SchTree, Functions

CONSTANT RateUnit

ASSUME DispatchAssumption ==
  /\ IsFiniteSet(Path)
  /\ RateUnit \in Nat
  /\ \A n \in 1 .. Cardinality(Path) : RateUnit % n = 0 /\ RateUnit > 0

VARIABLES
  subflows,   \* the list, newest first
  sf,         \* state record of each subflow
  peer,       \* the subflows whose pads are linked
  schtree,    \* the tree
  packets,    \* packets drawn since the last scheduler run (up to MaxValue)
  last        \* the subflow of the last packet

dispatchVars == <<subflows, sf, peer, schtree, packets, last>>

Listed == {subflows[i] : i \in 1..Len(subflows)}

-----------------------------------------------------------------------------
(* scheduler_run.                                                          *)

JoinRate == RateUnit \div Len(subflows)

Joined(s) == IF ~ s.active /\ s.linked THEN Fire(s, "JOINED", JoinRate) ELSE s

\* Bug: the sum starts at 1.0.
RateSumFromOne(f) == RateUnit + SumFunction([i \in 1..Len(subflows) |-> f[subflows[i]].SR])

\* SR_sum, or 1.0 if no subflow has a rate.
RateSum(f) ==
  LET sum == SumFunction([i \in 1..Len(subflows) |-> f[subflows[i]].SR])
  IN  IF sum = 0 THEN RateUnit ELSE sum

\* Bug: every rate counts for the same.
EqualValue(f, p) == MaxValue \div Cardinality({q \in Listed : Schedulable(f[q])})

\* The conversion to guint16 rounds down.
RateValue(f, p) == (MaxValue * f[p].SR) \div RateSum(f)

\* One set_path for each subflow that is to be scheduled.
Batch(f) ==
  LET batch[n \in 0 .. Len(subflows)] ==
        IF n = 0 THEN schtree
        ELSE IF Schedulable(f[subflows[n]])
        THEN SetPath(batch[n - 1], subflows[n], RateValue(f, subflows[n]))
        ELSE batch[n - 1]
  IN  batch[Len(subflows)]

SchedulerRun ==
  /\ sf' = [p \in Path |-> IF p \in Listed THEN Joined(sf[p]) ELSE sf[p]]
  /\ schtree' = IF subflows = << >> THEN schtree ELSE CreateAndReplace(Batch(sf'))
  /\ packets' = 0
  /\ UNCHANGED <<subflows, peer, last>>

-----------------------------------------------------------------------------
(* Pads and packets.                                                       *)

DispatchInit ==
  /\ subflows = << >>
  /\ sf = [p \in Path |-> NewSubflow]
  /\ peer = {}
  /\ schtree = InitTree
  /\ packets = 0
  /\ last = NoPath

RequestPad(p) ==
  /\ p \notin Listed
  /\ subflows' = <<p>> \o subflows
  /\ UNCHANGED <<sf, peer, schtree, packets, last>>

SrcLink(p) ==
  /\ p \in Listed \ peer
  /\ sf' = [sf EXCEPT ![p] = Link(@)]
  /\ peer' = peer \cup {p}
  /\ UNCHANGED <<subflows, schtree, packets, last>>

\* Whichever pad is unlinked, DETACHED is fired at the last of the list.
SrcUnlink(p) ==
  /\ p \in peer
  /\ peer' = peer \ {p}
  /\ sf' = [sf EXCEPT ![subflows[Len(subflows)]] = Fire(@, "DETACHED", 0)]
  /\ UNCHANGED <<subflows, schtree, packets, last>>

RtpPacket ==
  /\ DOMAIN schtree.root # {}
  /\ schtree' = GetNext(schtree)
  /\ last' = NextPath(schtree)
  /\ packets' = IF packets = MaxValue THEN MaxValue ELSE packets + 1
  /\ UNCHANGED <<subflows, sf, peer>>

DispatchNext ==
  \/ \E p \in Path : RequestPad(p) \/ SrcLink(p) \/ SrcUnlink(p)
  \/ SchedulerRun
  \/ RtpPacket

DispatchSpec == DispatchInit /\ [][DispatchNext]_dispatchVars

-----------------------------------------------------------------------------
(* Properties.                                                             *)

Leaves(t, p) == {k \in DOMAIN t : t[k].path = p}
Units(t, p) == SumFunction([k \in Leaves(t, p) |-> LevelValue[k]])
InTree(t) == {t[k].path : k \in DOMAIN t} \ {NoPath}

\* The values of one scheduler run never exceed max_value and miss less than
\* one unit per path, whatever mixture of old and new rates they come from.
\* (SchTreeSpec takes this for granted of its client.)
BatchFitsTree ==
  [][SchedulerRun =>
       LET batch == Batch(sf')
           missing == MaxValue - Total(batch.path_values)
       IN  0 <= missing /\ (batch.paths # << >> => missing < Len(batch.paths))]_dispatchVars

\* After a scheduler run the tree holds exactly the active subflows, each
\* with at least one unit: none is left out by the rounding.
TreeHoldsEveryActive ==
  [][SchedulerRun =>
       InTree(schtree'.root) = {p \in Listed : sf'[p].active}]_dispatchVars

\* A subflow's part of the tree is its part of the rates, to within one unit
\* for each active subflow.
SharesProportional ==
  [][SchedulerRun =>
       \A p \in InTree(schtree'.root) :
         LET exact == MaxValue * sf'[p].SR
             given == Units(schtree'.root, p) * RateSum(sf')
             slack == Len(Batch(sf').paths) * RateSum(sf')
         IN  exact - slack < given /\ given < exact + slack]_dispatchVars

\* The first packet after every scheduler run goes to the newest active
\* subflow, wherever the last draw was: with less than one packet per run no
\* other subflow is ever used.
FirstPacketToNewest ==
  [][RtpPacket /\ packets = 0 =>
       last' = subflows[CHOOSE i \in 1..Len(subflows) :
                          /\ subflows[i] \in InTree(schtree.root)
                          /\ \A j \in 1 .. (i - 1) : subflows[j] \notin InTree(schtree.root)]]_dispatchVars
=============================================================================
