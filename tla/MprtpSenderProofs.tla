-------------------------- MODULE MprtpSenderProofs --------------------------
(***************************************************************************)
(* Proofs about the sender's threads, for any number of pads, ids and      *)
(* application threads.                                                    *)
(***************************************************************************)
EXTENDS MprtpSender, SequenceTheorems, TLAPS

\* What an event, a link and a packet make of a subflow is proved in
\* MprtpsSubflowProofs, for any life the subflow may have; one in which
\* nothing happens will do.
One == INSTANCE MprtpsSubflowProofs
       WITH Fired <- {}, Rates <- {}, Lengths <- {}, MaxSent <- 0,
            subflow <- NewSubflow, counters <- NewCounters,
            report <- SenderBlock(NewCounters),
            sent <- 0, reported <- 0, steered <- FALSE

SubflowRecord == [active : BOOLEAN, linked : BOOLEAN, state : States, SR : Nat]

CounterRecord ==
  [seq : 0 .. SeqSpace - 1, cycle_num : 0 .. CycleSpace - 1,
   packet_count : 0 .. CountSpace - 1, octet_count : 0 .. CountSpace - 1]

LEMMA SpacesArePositive == CountSpace \in Nat \ {0}
  BY SubflowAssumption DEF SubflowAssumption

\* Firing an event keeps a subflow record well formed.
LEMMA FireType ==
  ASSUME NEW s \in SubflowRecord, NEW event \in Events, NEW rate \in Nat
  PROVE  Fire(s, event, rate) \in SubflowRecord
<1>1. Fire(s, event, rate) = One!Fire(s, event, rate)
  BY DEF Fire, FireNonCongested, FireCongested, FirePassive, Passive, receive_rate,
         One!Fire, One!FireNonCongested, One!FireCongested, One!FirePassive,
         One!Passive, One!receive_rate
<1>2. SubflowRecord = One!SubflowRecord /\ Events = One!Events
  BY DEF SubflowRecord, States, Events, One!SubflowRecord, One!States, One!Events
<1>3. {} \subseteq One!Events
  OBVIOUS
<1>4. One!Fire(s, event, rate) \in One!SubflowRecord
  BY <1>2, <1>3, One!FireType, SubflowAssumption DEF SubflowAssumption
<1>. QED
  BY <1>1, <1>2, <1>4

\* Linking does too.
LEMMA LinkType ==
  ASSUME NEW s \in SubflowRecord
  PROVE  Link(s) \in SubflowRecord
  BY One!LinkType, SubflowAssumption
     DEF SubflowAssumption, Link, SubflowRecord, States, One!Link, One!SubflowRecord, One!States

\* A packet leaves the counters in their widths.
LEMMA ProcessType ==
  ASSUME NEW c \in CounterRecord, NEW len \in Nat
  PROVE  ProcessRtpOut(c, len) \in CounterRecord
<1>1. ProcessRtpOut(c, len) = One!ProcessRtpOut(c, len)
  BY DEF ProcessRtpOut, One!ProcessRtpOut
<1>. QED
  BY <1>1, One!ProcessType, SubflowAssumption
     DEF SubflowAssumption, CounterRecord, One!CounterRecord

\* The threads of the element are four, and no application thread is one.
LEMMA ThreadNames ==
  /\ {"stream", "rtcp", "sched", "rip"} \subseteq Thread
  /\ \A a \in App : a \in Thread /\ a \notin Task
  /\ None \notin Thread
  BY SenderAssumption DEF Thread, Task, SenderAssumption

\* Moving one thread on keeps pc well formed and leaves the others alone.
LEMMA GotoType ==
  ASSUME NEW t \in Thread, NEW label \in Label,
         pc \in [Thread -> Label], Goto(t, label)
  PROVE  /\ pc' \in [Thread -> Label]
         /\ pc'[t] = label
         /\ \A u \in Thread : u # t => pc'[u] = pc[u]
  BY DEF Goto

\* A fresh subflow and fresh counters are well formed.
LEMMA FreshType == NewSubflow \in SubflowRecord /\ NewCounters \in CounterRecord
<1>1. CountSpace \in Nat \ {0} /\ SeqSpace \in Nat \ {0} /\ CycleSpace \in Nat \ {0}
  BY SpacesArePositive, SubflowAssumption DEF SubflowAssumption
<1>. QED
  BY <1>1 DEF NewSubflow, SubflowRecord, NewCounters, CounterRecord, States

\* Joining keeps a subflow record well formed.
LEMMA JoinedType ==
  ASSUME NEW s \in SubflowRecord
  PROVE  Joined(s) \in SubflowRecord
  BY FireType DEF Joined, JoinRate, Events

ArgInv == \A a \in App : pc[a] = "request" => arg[a] \in Id

\* Type correctness is inductive together with: an application thread about
\* to add a subflow holds an id.
LEMMA TypeStep == TypeOK /\ ArgInv /\ [Next]_vars => TypeOK' /\ ArgInv'
<1>. SUFFICES ASSUME TypeOK, ArgInv, [Next]_vars PROVE TypeOK' /\ ArgInv'
  OBVIOUS
<1>. USE ThreadNames DEF TypeOK, ArgInv, Goto, At, Free, Running, Label,
                        list, states, sched, threads, links
<1>1. ASSUME NEW a \in App, NEW i \in Id, RequestScan(a, i) PROVE TypeOK' /\ ArgInv'
  BY <1>1 DEF RequestScan
<1>2. ASSUME NEW a \in App, NEW p \in Pad, RequestAdd(a, p) PROVE TypeOK' /\ ArgInv'
  <2>1. NewSubflow \in SubflowRecord /\ NewCounters \in CounterRecord
    BY FreshType
  <2>2. subflows' \in Seq(Pad) /\ id' \in [Pad -> Id \cup {None}]
    BY <1>2 DEF RequestAdd
  <2>3. sf' \in [Pad -> SubflowRecord] /\ counters' \in [Pad -> CounterRecord]
    BY <1>2, <2>1 DEF RequestAdd, SubflowRecord, CounterRecord
  <2>. QED
    BY <1>2, <2>2, <2>3 DEF RequestAdd, SubflowRecord, CounterRecord
<1>3. ASSUME NEW a \in App, NEW p \in Pad, LinkPeer(a, p) PROVE TypeOK' /\ ArgInv'
  BY <1>3 DEF LinkPeer
<1>4. ASSUME NEW a \in App, SrcLink(a) PROVE TypeOK' /\ ArgInv'
  <2>1. sf' \in [Pad -> SubflowRecord]
    BY <1>4, LinkType DEF SrcLink, SubflowRecord
  <2>. QED
    BY <1>4, <2>1 DEF SrcLink, SubflowRecord
<1>5. ASSUME NEW a \in App, NEW p \in Pad, UnlinkPeer(a, p) PROVE TypeOK' /\ ArgInv'
  BY <1>5 DEF UnlinkPeer
<1>6. ASSUME NEW a \in App, SrcUnlink(a) PROVE TypeOK' /\ ArgInv'
  <2>1. \A s \in SubflowRecord : Fire(s, "DETACHED", 0) \in SubflowRecord
    BY FireType DEF Events
  <2>2. sf' \in [Pad -> SubflowRecord]
    BY <1>6, <2>1 DEF SrcUnlink, SubflowRecord
  <2>. QED
    BY <1>6, <2>2 DEF SrcUnlink, SubflowRecord
<1>7. ASSUME NEW a \in App, NEW p \in Pad, ReleasePad(a, p) PROVE TypeOK' /\ ArgInv'
  BY <1>7 DEF ReleasePad
<1>8. CASE ToggleRtcpLink
  BY <1>8 DEF ToggleRtcpLink
<1>9. CASE StreamWait
  BY <1>9 DEF StreamWait
<1>10. ASSUME NEW p \in Pad, Draw(p), pc["stream"] \in {"idle", "woken"}
       PROVE  TypeOK' /\ ArgInv'
  <2>1. ProcessRtpOut(counters[p], 1) \in CounterRecord
    BY ProcessType DEF CounterRecord
  <2>2. counters' \in [Pad -> CounterRecord]
    BY <1>10, <2>1 DEF Draw, CounterRecord
  <2>. QED
    BY <1>10, <2>2 DEF Draw, CounterRecord
<1>11. CASE DrawFromEmptyTree
  BY <1>11 DEF DrawFromEmptyTree
<1>12. CASE SpuriousWakeup
  BY <1>12 DEF SpuriousWakeup
<1>13. CASE StreamPush
  BY <1>13 DEF StreamPush
<1>14. ASSUME NEW p \in Pad \cup {RtcpPad}, RtcpTo(p), actual' \in Pad \cup {NoPad, Stale}
       PROVE  TypeOK' /\ ArgInv'
  BY <1>14 DEF RtcpTo
<1>15. CASE RtcpFault
  BY <1>15 DEF RtcpFault
<1>16. CASE RtcpForward
  BY <1>14, <1>16 DEF RtcpForward
<1>17. CASE RtcpFollow
  <2>1. Listed \subseteq Pad
    BY DEF Listed
  <2>. QED
    BY <1>14, <1>15, <1>17, <2>1 DEF RtcpFollow
<1>18. CASE RtcpPush
  BY <1>18 DEF RtcpPush
<1>19. CASE SchedulerRead
  BY <1>19 DEF SchedulerRead
<1>20. CASE SchedulerRun
  <2>1. sf' \in [Pad -> SubflowRecord]
    BY <1>20, JoinedType DEF SchedulerRun, SubflowRecord
  <2>2. no_active' \in BOOLEAN
    <3>1. no_active' = ({p \in Listed : Schedulable(sf'[p])} = {})
      BY <1>20 DEF SchedulerRun
    <3>. QED
      BY <3>1, Zenon
  <2>3. Listed \subseteq Pad
    BY DEF Listed
  <2>4. tree' \subseteq Pad /\ actual' \in Pad \cup {NoPad, Stale}
    BY <1>20, <2>3 DEF SchedulerRun
  <2>5. pc' \in [Thread -> Label] /\ \A a \in App : pc'[a] = pc[a]
    BY <1>20 DEF SchedulerRun, Task
  <2>. QED
    BY <1>20, <2>1, <2>2, <2>4, <2>5 DEF SchedulerRun, SubflowRecord
<1>21. ASSUME NEW due \in SUBSET Pad, RiporterRun(due) PROVE TypeOK' /\ ArgInv'
  <2>1. reports' \subseteq Pad \cup {RtcpPad}
    BY <1>21 DEF RiporterRun
  <2>. QED
    BY <1>21, <2>1 DEF RiporterRun
<1>22. CASE RiporterPush
  BY <1>22 DEF RiporterPush
<1>23. CASE UNCHANGED vars
  BY <1>23 DEF vars
<1>24. CASE StreamDraw
  BY <1>10, <1>11, <1>24 DEF StreamDraw
<1>25. CASE StreamResume
  BY <1>10, <1>11, <1>25 DEF StreamResume
<1>. QED
  BY <1>1, <1>2, <1>3, <1>4, <1>5, <1>6, <1>7, <1>8, <1>9, <1>12, <1>13, <1>16, <1>17,
     <1>18, <1>19, <1>20, <1>21, <1>22, <1>23, <1>24, <1>25
     DEF Next, AppStep, StreamStep, RtcpStep, SchedulerStep, RiporterStep

\* TypeOK of MprtpSender, whatever the interleaving of the threads.
THEOREM TypeCorrect == Spec => []TypeOK
<1>1. ASSUME Init PROVE TypeOK /\ ArgInv
  <2>1. sf \in [Pad -> SubflowRecord] /\ counters \in [Pad -> CounterRecord]
    BY <1>1, FreshType DEF Init
  <2>2. subflows \in Seq(Pad) /\ id \in [Pad -> Id \cup {None}]
    BY <1>1 DEF Init
  <2>3. pc \in [Thread -> Label] /\ arg \in [App -> Pad \cup Id \cup {None}] /\ ArgInv
    BY <1>1, ThreadNames DEF Init, Label, ArgInv
  <2>. QED
    BY <1>1, <2>1, <2>2, <2>3 DEF Init, TypeOK, SubflowRecord, CounterRecord
<1>. QED
  BY <1>1, TypeStep, PTL DEF Spec

-----------------------------------------------------------------------------
(* No lost wakeup.                                                         *)

\* The strengthening of WaitsOnlyWithoutPath and EmptyTreeOnlyAfterWait: the
\* flag and the tree agree, and so do the flag and the copy the scheduler
\* took of it, since no other thread writes the flag.
WakeupInv ==
  /\ no_active <=> tree = {}
  /\ subflows = << >> => tree = {}
  /\ pc["stream"] = "wait" => no_active
  /\ pc["stream"] \in {"wait", "woken"} => waited
  /\ pc["sched"] = "run" => (mem <=> no_active)
  /\ fault = "stream" => waited

\* Every step of every thread preserves it.
LEMMA WakeupStep == TypeOK /\ WakeupInv /\ [Next]_vars => WakeupInv'
<1>. SUFFICES ASSUME TypeOK, WakeupInv, [Next]_vars PROVE WakeupInv'
  OBVIOUS
<1>0. pc \in [Thread -> Label] /\ {"stream", "rtcp", "sched", "rip"} \subseteq Thread
      /\ \A a \in App : a \notin {"stream", "rtcp", "sched", "rip"}
      /\ None \notin {"stream", "rtcp", "sched", "rip"}
  BY ThreadNames, SenderAssumption DEF TypeOK, Task, SenderAssumption
<1>. USE <1>0 DEF WakeupInv, Goto, At, Free, Running, list, states, sched, threads, links
<1>1. ASSUME NEW a \in App, AppStep(a) PROVE WakeupInv'
  <2>1. UNCHANGED <<sched, mem, waited, fault>> /\ pc'["stream"] = pc["stream"]
        /\ pc'["sched"] = pc["sched"]
    BY <1>1 DEF AppStep, RequestScan, RequestAdd, LinkPeer, SrcLink, UnlinkPeer, SrcUnlink, ReleasePad
  <2>2. subflows' = << >> => subflows = << >>
    <3>1. ASSUME NEW p \in Pad, RequestAdd(a, p) PROVE subflows' # << >>
      <4>1. Len(subflows') = 1 + Len(subflows) /\ Len(subflows) \in Nat
        BY <3>1 DEF RequestAdd, TypeOK
      <4>. QED
        BY <4>1
    <3>. QED
      BY <1>1, <3>1 DEF AppStep, RequestScan, LinkPeer, SrcLink, UnlinkPeer, SrcUnlink, ReleasePad
  <2>. QED
    BY <2>1, <2>2
<1>2. CASE ToggleRtcpLink
  BY <1>2 DEF ToggleRtcpLink
<1>3. CASE StreamWait
  BY <1>3 DEF StreamWait
<1>4. CASE StreamDraw
  BY <1>4 DEF StreamDraw, Draw, DrawFromEmptyTree
<1>5. CASE SpuriousWakeup
  BY <1>5 DEF SpuriousWakeup
<1>6. CASE StreamResume
  <2>1. waited
    BY <1>6 DEF StreamResume
  <2>2. UNCHANGED <<subflows, no_active, tree, mem, waited>>
    BY <1>6 DEF StreamResume, Draw, DrawFromEmptyTree
  <2>3. pc'["sched"] = pc["sched"]
    BY <1>6 DEF StreamResume, Draw, DrawFromEmptyTree
  <2>4. pc'["stream"] \in {"push", "woken"}
    BY <1>6 DEF StreamResume, Draw, DrawFromEmptyTree
  <2>. QED
    BY <2>1, <2>2, <2>3, <2>4
<1>7. CASE StreamPush
  <2>1. UNCHANGED <<subflows, no_active, tree, mem>>
    BY <1>7 DEF StreamPush
  <2>2. pc'["sched"] = pc["sched"] /\ pc'["stream"] = "idle"
    BY <1>7 DEF StreamPush
  <2>3. fault' # "stream"
    <3>1. fault' = None
      BY <1>7 DEF StreamPush
    <3>2. None # "stream"
      BY SenderAssumption DEF SenderAssumption
    <3>. QED
      BY <3>1, <3>2
  <2>. QED
    BY <2>1, <2>2, <2>3
<1>8. CASE RtcpStep
  BY <1>8 DEF RtcpStep, RtcpForward, RtcpFollow, RtcpPush, RtcpTo, RtcpFault
<1>9. CASE SchedulerRead
  BY <1>9 DEF SchedulerRead
<1>10. CASE SchedulerRun
  <2>. DEFINE scheduled == {p \in Listed : Schedulable(sf'[p])}
  <2>1. no_active' <=> scheduled = {}
    BY <1>10 DEF SchedulerRun
  <2>2. subflows = << >> => Listed = {}
    BY DEF Listed
  <2>3. IF subflows = << >> THEN tree' = tree ELSE tree' = scheduled
    BY <1>10 DEF SchedulerRun
  <2>4. no_active' <=> tree' = {}
    BY <2>1, <2>2, <2>3
  <2>5. pc'["sched"] = "idle"
        /\ pc'["stream"] = IF ~ no_active' /\ mem /\ pc["stream"] = "wait"
                           THEN "woken" ELSE pc["stream"]
    BY <1>10 DEF SchedulerRun
  <2>6. UNCHANGED <<subflows, waited, fault>> /\ pc["sched"] = "run"
    BY <1>10 DEF SchedulerRun
  <2>. QED
    BY <2>2, <2>3, <2>4, <2>5, <2>6
<1>11. CASE RiporterStep
  BY <1>11 DEF RiporterStep, RiporterRun, RiporterPush
<1>12. CASE UNCHANGED vars
  BY <1>12 DEF vars
<1>. QED
  BY <1>1, <1>2, <1>3, <1>4, <1>5, <1>6, <1>7, <1>8, <1>9, <1>10, <1>11, <1>12
     DEF Next, StreamStep, SchedulerStep

\* So it holds always.
LEMMA WakeupInvariant == Spec => []WakeupInv
<1>1. Init => WakeupInv
  BY ThreadNames DEF Init, WakeupInv, Thread, Task
<1>. QED
  BY <1>1, WakeupStep, TypeCorrect, PTL DEF Spec

\* g_cond_wait in rtp_sink_chain and g_cond_signal in scheduler_run, which
\* compares with a flag read before the mutex was taken: no wakeup is lost.
THEOREM NoLostWakeup == Spec => []WaitsOnlyWithoutPath
<1>1. WakeupInv => WaitsOnlyWithoutPath
  BY DEF WakeupInv, WaitsOnlyWithoutPath
<1>. QED
  BY <1>1, WakeupInvariant, PTL

\* get_next dereferences NULL only for a packet that came back from
\* g_cond_wait: the flag tested before is as good as a test of the tree.
THEOREM DrawsFromTree == Spec => []EmptyTreeOnlyAfterWait
<1>1. WakeupInv => EmptyTreeOnlyAfterWait
  BY DEF WakeupInv, EmptyTreeOnlyAfterWait
<1>. QED
  BY <1>1, WakeupInvariant, PTL

-----------------------------------------------------------------------------
(* The mutex is held over a push.                                          *)

\* A task that is pushing owns the mutex.
HoldsLock == \A t \in {"stream", "rtcp", "rip"} : pc[t] = "push" => lock = t

\* Every step preserves that: the mutex is taken only when free and given
\* back only by the task that pushed.
LEMMA HoldsLockStep == TypeOK /\ HoldsLock /\ [Next]_vars => HoldsLock'
<1>. SUFFICES ASSUME TypeOK, HoldsLock, [Next]_vars PROVE HoldsLock'
  OBVIOUS
<1>0. pc \in [Thread -> Label] /\ {"stream", "rtcp", "sched", "rip"} \subseteq Thread
      /\ None \notin {"stream", "rtcp", "sched", "rip"}
      /\ \A a \in App : a \notin {"stream", "rtcp", "sched", "rip"}
  BY ThreadNames, SenderAssumption DEF TypeOK, Task, SenderAssumption
<1>. USE <1>0 DEF HoldsLock, Goto, At, Free, Running, threads
<1>1. ASSUME NEW a \in App, AppStep(a) PROVE HoldsLock'
  <2>1. lock' = lock /\ \A t \in {"stream", "rtcp", "rip"} : pc'[t] = pc[t]
    BY <1>1 DEF AppStep, RequestScan, RequestAdd, LinkPeer, SrcLink, UnlinkPeer, SrcUnlink, ReleasePad
  <2>. QED
    BY <2>1
<1>2. CASE ToggleRtcpLink
  BY <1>2 DEF ToggleRtcpLink
<1>3. CASE StreamStep
  BY <1>3 DEF StreamStep, StreamWait, StreamDraw, SpuriousWakeup, StreamResume, StreamPush,
              Draw, DrawFromEmptyTree
<1>4. CASE RtcpStep
  BY <1>4 DEF RtcpStep, RtcpForward, RtcpFollow, RtcpPush, RtcpTo, RtcpFault
<1>5. CASE SchedulerRead
  BY <1>5 DEF SchedulerRead
<1>6. CASE SchedulerRun
  BY <1>6 DEF SchedulerRun
<1>7. CASE RiporterStep
  BY <1>7 DEF RiporterStep, RiporterRun, RiporterPush
<1>8. CASE UNCHANGED vars
  BY <1>8 DEF vars
<1>. QED
  BY <1>1, <1>2, <1>3, <1>4, <1>5, <1>6, <1>7, <1>8 DEF Next, SchedulerStep

\* The list of riporter_run: no subflow is detached, replaced or made anew
\* between the choice to report and the last report.
THEOREM ReportsAreOfActive == Spec => []ReportsOnlyOfActive
<1>1. Init => HoldsLock /\ ReportsOnlyOfActive
  BY ThreadNames DEF Init, HoldsLock, ReportsOnlyOfActive, Thread, Task
<1>2. TypeOK /\ HoldsLock /\ ReportsOnlyOfActive /\ [Next]_vars => ReportsOnlyOfActive'
  <2>. SUFFICES ASSUME TypeOK, HoldsLock, ReportsOnlyOfActive, [Next]_vars
                PROVE  ReportsOnlyOfActive'
    OBVIOUS
  <2>0. pc \in [Thread -> Label] /\ {"stream", "rtcp", "sched", "rip"} \subseteq Thread
        /\ None \notin {"stream", "rtcp", "sched", "rip"}
        /\ \A a \in App : a \notin {"stream", "rtcp", "sched", "rip"}
    BY ThreadNames, SenderAssumption DEF TypeOK, Task, SenderAssumption
  <2>. USE <2>0 DEF ReportsOnlyOfActive, HoldsLock, Active, Goto, At, Free, Running, states, threads
  <2>1. ASSUME pc["rip"] = "push", Free PROVE FALSE
    BY <2>1
  <2>2. ASSUME NEW a \in App, AppStep(a) PROVE ReportsOnlyOfActive'
    <3>1. pc'["rip"] = pc["rip"] /\ reports' = reports /\ (Free \/ sf' = sf)
      BY <2>2 DEF AppStep, RequestScan, RequestAdd, LinkPeer, SrcLink, UnlinkPeer, SrcUnlink, ReleasePad
    <3>. QED
      BY <2>1, <3>1
  <2>3. CASE ToggleRtcpLink
    BY <2>3 DEF ToggleRtcpLink
  <2>4. CASE StreamStep
    BY <2>4 DEF StreamStep, StreamWait, StreamDraw, SpuriousWakeup, StreamResume, StreamPush,
                Draw, DrawFromEmptyTree
  <2>5. CASE RtcpStep
    BY <2>5 DEF RtcpStep, RtcpForward, RtcpFollow, RtcpPush, RtcpTo, RtcpFault
  <2>6. CASE SchedulerRead
    BY <2>6 DEF SchedulerRead
  <2>7. CASE SchedulerRun
    <3>1. pc'["rip"] = pc["rip"] /\ Free
      BY <2>7 DEF SchedulerRun
    <3>. QED
      BY <2>1, <3>1
  <2>8. ASSUME NEW due \in SUBSET Pad, RiporterRun(due) PROVE ReportsOnlyOfActive'
    <3>1. sf' = sf /\ \A p \in reports' \ {RtcpPad} : Active(p)
      BY <2>8 DEF RiporterRun
    <3>. QED
      BY <3>1
  <2>9. CASE RiporterPush
    BY <2>9 DEF RiporterPush
  <2>10. CASE UNCHANGED vars
    BY <2>10 DEF vars
  <2>. QED
    BY <2>2, <2>3, <2>4, <2>5, <2>6, <2>7, <2>8, <2>9, <2>10
       DEF Next, SchedulerStep, RiporterStep
<1>. QED
  BY <1>1, <1>2, HoldsLockStep, TypeCorrect, PTL DEF Spec

-----------------------------------------------------------------------------
(* Ids.                                                                    *)

\* What the unlocked scan of request_new_pad established, as long as nobody
\* else changes the list.
IdIsFree == \A a \in App : pc[a] = "request" => \A p \in Listed : id[p] # arg[a]

\* The unlocked scan of request_new_pad is enough when one thread requests
\* all pads.  (With two it is not: see UniqueIds under SenderDuplicate.cfg.)
THEOREM OneRequesterKeepsIdsUnique ==
  ASSUME NEW app, App = {app}
  PROVE  Spec => []UniqueIds
<1>1. Init => UniqueIds /\ IdIsFree
  BY ThreadNames DEF Init, UniqueIds, IdIsFree
<1>2. TypeOK /\ UniqueIds /\ IdIsFree /\ [Next]_vars => UniqueIds' /\ IdIsFree'
  <2>. SUFFICES ASSUME TypeOK, UniqueIds, IdIsFree, [Next]_vars
                PROVE  UniqueIds' /\ IdIsFree'
    OBVIOUS
  <2>0. pc \in [Thread -> Label] /\ {"stream", "rtcp", "sched", "rip", app} \subseteq Thread
        /\ app \notin {"stream", "rtcp", "sched", "rip"}
        /\ subflows \in Seq(Pad) /\ id \in [Pad -> Id \cup {None}]
        /\ arg \in [App -> Pad \cup Id \cup {None}]
    BY ThreadNames DEF TypeOK, Task
  <2>. USE <2>0 DEF UniqueIds, IdIsFree, Listed, Goto, At, Free, Running, list, states, threads
  <2>1. ASSUME NEW i \in Id, RequestScan(app, i) PROVE UniqueIds' /\ IdIsFree'
    BY <2>1 DEF RequestScan
  <2>2. ASSUME NEW p \in Pad, RequestAdd(app, p) PROVE UniqueIds' /\ IdIsFree'
    <3>1. Len(subflows') = Len(subflows) + 1 /\ subflows'[1] = p
          /\ \A i \in 2 .. Len(subflows') : subflows'[i] = subflows[i - 1]
      BY <2>2 DEF RequestAdd
    <3>2. id'[p] = arg[app] /\ \A q \in Listed : id'[q] = id[q] /\ id[q] # arg[app]
      BY <2>2 DEF RequestAdd
    <3>3. UniqueIds'
      <4>. SUFFICES ASSUME NEW i \in 1..Len(subflows'), NEW j \in 1..Len(subflows'),
                           id'[subflows'[i]] = id'[subflows'[j]]
                    PROVE  i = j
        OBVIOUS
      <4>1. \A k \in 2 .. Len(subflows') : k - 1 \in 1 .. Len(subflows) /\ subflows'[k] \in Listed
        BY <3>1
      <4>2. CASE i = 1 \/ j = 1
        BY <3>1, <3>2, <4>1, <4>2
      <4>3. CASE i # 1 /\ j # 1
        <5>1. id[subflows[i - 1]] = id[subflows[j - 1]]
          BY <3>1, <3>2, <4>1, <4>3
        <5>. QED
          BY <4>1, <4>3, <5>1
      <4>. QED
        BY <4>2, <4>3
    <3>4. IdIsFree'
      BY <2>2 DEF RequestAdd
    <3>. QED
      BY <3>3, <3>4
  <2>3. ASSUME NEW p \in Pad, LinkPeer(app, p) \/ UnlinkPeer(app, p) \/ ReleasePad(app, p)
        PROVE  UniqueIds' /\ IdIsFree'
    BY <2>3 DEF LinkPeer, UnlinkPeer, ReleasePad
  <2>4. CASE SrcLink(app) \/ SrcUnlink(app)
    BY <2>4 DEF SrcLink, SrcUnlink
  <2>5. CASE UNCHANGED <<list, arg>> /\ pc'[app] = pc[app]
    BY <2>5
  <2>6. ASSUME ToggleRtcpLink \/ StreamStep \/ RtcpStep \/ SchedulerStep \/ RiporterStep
        PROVE  UNCHANGED <<list, arg>> /\ pc'[app] = pc[app]
    <3>1. CASE ToggleRtcpLink
      BY <3>1 DEF ToggleRtcpLink
    <3>2. CASE StreamStep
      BY <3>2 DEF StreamStep, StreamWait, StreamDraw, SpuriousWakeup, StreamResume, StreamPush,
                  Draw, DrawFromEmptyTree
    <3>3. CASE RtcpStep
      BY <3>3 DEF RtcpStep, RtcpForward, RtcpFollow, RtcpPush, RtcpTo, RtcpFault
    <3>4. CASE SchedulerStep
      BY <3>4 DEF SchedulerStep, SchedulerRead, SchedulerRun
    <3>5. CASE RiporterStep
      BY <3>5 DEF RiporterStep, RiporterRun, RiporterPush
    <3>. QED
      BY <2>6, <3>1, <3>2, <3>3, <3>4, <3>5
  <2>7. CASE UNCHANGED vars
    BY <2>7 DEF vars
  <2>. QED
    BY <2>1, <2>2, <2>3, <2>4, <2>5, <2>6, <2>7 DEF Next, AppStep
<1>. QED
  BY <1>1, <1>2, TypeCorrect, PTL DEF Spec
=============================================================================
