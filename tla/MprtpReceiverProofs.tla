------------------------- MODULE MprtpReceiverProofs -------------------------
(***************************************************************************)
(* MprtpReceiver for any number of pads, ids and threads: its types, who   *)
(* may have the mutex, that ids stay unique, that a subflow whose pad was  *)
(* handed out measures its packets and that RTCP does not stop a path of   *)
(* RTP whose payload types RFC 5761 allows beside RTCP.                    *)
(***************************************************************************)
EXTENDS MprtpReceiver, SequenceTheorems, TLAPS

\* The mutex is free, or lost to the one thread that was refused.
LockInv == refused = IF lock = None THEN {} ELSE {lock}

\* An id is promised to one thread from the scan to the activation of the
\* pad, and it is in the list for as long.
Promised ==
  /\ \A a \in App : pc[a] \in {"request", "activate"} => arg[a] \in Id
  /\ \A a \in App : pc[a] = "activate" =>
       arg[a] \in Listed /\ \A p \in Pad : padId[p] # arg[a]
  /\ \A a, b \in App :
       pc[a] = "activate" /\ pc[b] = "activate" /\ arg[a] = arg[b] => a = b
  /\ \A p \in Pad : Ready(p) => padId[p] \in Listed

\* What a pad's thread carries by the time it is where it is: what the code
\* takes for RTCP is not muxable RTP.
Carries ==
  /\ ~ rtpLinked => cut
  /\ \A p \in Pad : pc[p] = "chain" =>
       packet[p] \in Packet /\ (IsRtcp(packet[p].type) => p \in mixed)
  /\ \A p \in Pad : pc[p] = "pushRtcp" => p \in mixed

IInv == TypeOK /\ LockInv /\ Promised /\ UniqueIds /\ Carries /\ RtpPathSurvivesRtcp

-----------------------------------------------------------------------------
\* The three kinds of thread are apart.
LEMMA ThreadsApart ==
  /\ \A p \in Pad : p \notin App /\ p # "rtcp" /\ p \notin Tasks /\ p \in Thread
  /\ \A a \in App : a \notin Pad /\ a # "rtcp" /\ a \notin Tasks /\ a \in Thread
  /\ "rtcp" \in Thread /\ Tasks \subseteq Thread /\ "rtcp" \notin Tasks
  /\ None \notin Thread /\ None \notin Id
BY ReceiverAssumption DEF Thread, Tasks

\* Prepending an id that is not listed.
LEMMA PrependFacts ==
  ASSUME subflows \in Seq(Id), NEW i \in Id, i \notin Listed,
         subflows' = <<i>> \o subflows
  PROVE  /\ subflows' \in Seq(Id)
         /\ Listed' = Listed \cup {i}
         /\ (\A j, k \in 1..Len(subflows) : subflows[j] = subflows[k] => j = k)
              => \A j, k \in 1..Len(subflows') : subflows'[j] = subflows'[k] => j = k
<1>1. <<i>> \in Seq(Id) /\ Len(<<i>>) = 1 /\ <<i>>[1] = i /\ Len(subflows) \in Nat
  OBVIOUS
<1>2. /\ subflows' \in Seq(Id)
      /\ Len(subflows') = 1 + Len(subflows)
      /\ subflows'[1] = i
      /\ \A k \in 1..Len(subflows) : subflows'[k + 1] = subflows[k]
  BY <1>1, ConcatProperties, Z3
<1>3. \A k \in 1..Len(subflows') :
        k = 1 \/ (k - 1 \in 1..Len(subflows) /\ subflows'[k] = subflows[k - 1])
  <2> SUFFICES ASSUME NEW k \in 1..Len(subflows'), k # 1
               PROVE  k - 1 \in 1..Len(subflows) /\ subflows'[k] = subflows[k - 1]
    OBVIOUS
  <2>1. k - 1 \in 1..Len(subflows)
    BY <1>1, <1>2
  <2>. QED
    BY <1>2, <2>1
<1>4. Listed' \subseteq Listed \cup {i}
  BY <1>2, <1>3 DEF Listed
<1>5. i \in Listed'
  BY <1>1, <1>2 DEF Listed
<1>6. \A k \in 1..Len(subflows) : k + 1 \in 1..Len(subflows')
  BY <1>1, <1>2
<1>7. Listed \subseteq Listed'
  BY <1>2, <1>6 DEF Listed
<1>8. ASSUME \A j, k \in 1..Len(subflows) : subflows[j] = subflows[k] => j = k,
             NEW j \in 1..Len(subflows'), NEW k \in 1..Len(subflows'),
             subflows'[j] = subflows'[k]
      PROVE  j = k
  <2>1. CASE j = 1 \/ k = 1
    BY <1>2, <1>3, <1>8, <2>1 DEF Listed
  <2>2. CASE j # 1 /\ k # 1
    <3>1. j - 1 = k - 1
      BY <1>3, <1>8, <2>2
    <3>. QED
      BY <3>1, <1>2
  <2>. QED
    BY <2>1, <2>2
<1>. QED
  BY <1>2, <1>4, <1>5, <1>7, <1>8

-----------------------------------------------------------------------------
\* The start.
LEMMA InitHolds == Init => IInv
<1> SUFFICES ASSUME Init PROVE IInv
  OBVIOUS
<1>1. TypeOK
  <2>1. subflows \in Seq(Id) /\ refused = {} /\ measured = {} /\ mixed = {}
    BY DEF Init
  <2>2. pc \in [Thread -> Label] /\ lock \in Thread \cup {None}
    BY DEF Init, Label
  <2>3. /\ padId \in [Pad -> Id \cup {None}] /\ arg \in [App -> Id \cup {None}]
        /\ packet \in [Pad -> Packet \cup {None}]
    BY DEF Init
  <2>. QED
    BY <2>1, <2>2, <2>3 DEF Init, TypeOK
<1>2. LockInv /\ Carries /\ RtpPathSurvivesRtcp
  BY ThreadsApart DEF Init, LockInv, Carries, RtpPathSurvivesRtcp, At
<1>3. Promised /\ UniqueIds
  <2>1. Len(subflows) = 0 /\ 1..Len(subflows) = {}
    BY DEF Init
  <2>. QED
    BY <2>1, ThreadsApart DEF Init, Promised, UniqueIds, Ready
<1>. QED
  BY <1>1, <1>2, <1>3 DEF IInv

\* An application thread names the id it wants.
LEMMA RequestHolds ==
  ASSUME IInv, NEW a \in App, NEW i \in Id, Request(a, i)
  PROVE  IInv'
<1>1. TypeOK'
  BY ThreadsApart
     DEF IInv, Request, Goto, At, TypeOK, Label, list, links
<1>2. LockInv'
  BY ThreadsApart
     DEF IInv, Request, Goto, At, TypeOK, LockInv, list, links
<1>3. Promised'
  BY ThreadsApart
     DEF IInv, Request, Goto, At, TypeOK, Promised, Ready, Listed, list, links
<1>4. UniqueIds'
  BY ThreadsApart
     DEF IInv, Request, Goto, At, TypeOK, UniqueIds, Promised, Ready, list, links
<1>5. Carries'
  BY ThreadsApart
     DEF IInv, Request, Goto, At, TypeOK, Carries, list, links
<1>6. RtpPathSurvivesRtcp'
  BY ThreadsApart
     DEF IInv, Request, Goto, At, TypeOK, Carries, RtpPathSurvivesRtcp, list, links
<1>. QED
  BY <1>1, <1>2, <1>3, <1>4, <1>5, <1>6 DEF IInv

\* The scan finds no other holder of the id, listed or promised.
LEMMA RequestAddHolds ==
  ASSUME IInv, NEW a \in App, RequestAdd(a)
  PROVE  IInv'
<1>0. /\ arg[a] \in Id /\ arg[a] \notin Listed
      /\ subflows' \in Seq(Id) /\ Listed' = Listed \cup {arg[a]}
      /\ \A j, k \in 1..Len(subflows') : subflows'[j] = subflows'[k] => j = k
  BY PrependFacts DEF IInv, TypeOK, Promised, UniqueIds, RequestAdd, At, IsUnique, Prepended
<1>1. TypeOK'
  BY ThreadsApart, <1>0
     DEF IInv, RequestAdd, Goto, At, IsUnique, Prepended, TypeOK, Label, list, links
<1>2. LockInv'
  BY ThreadsApart, <1>0
     DEF IInv, RequestAdd, Goto, At, IsUnique, Prepended, TypeOK, LockInv, list, links
<1>3. Promised'
  BY ThreadsApart, <1>0
     DEF IInv, RequestAdd, Goto, At, IsUnique, Prepended, TypeOK, Promised, Ready, Listed, list, links
<1>4. UniqueIds'
  BY ThreadsApart, <1>0
     DEF IInv, RequestAdd, Goto, At, IsUnique, Prepended, TypeOK, UniqueIds, Promised, Ready, list, links
<1>5. Carries'
  BY ThreadsApart, <1>0
     DEF IInv, RequestAdd, Goto, At, IsUnique, Prepended, TypeOK, Carries, list, links
<1>6. RtpPathSurvivesRtcp'
  BY ThreadsApart, <1>0
     DEF IInv, RequestAdd, Goto, At, IsUnique, Prepended, TypeOK, Carries, RtpPathSurvivesRtcp, list, links
<1>. QED
  BY <1>1, <1>2, <1>3, <1>4, <1>5, <1>6 DEF IInv

\* The pad is handed out under the id promised to its thread.
LEMMA RequestActivateHolds ==
  ASSUME IInv, NEW a \in App, NEW p \in Pad, RequestActivate(a, p)
  PROVE  IInv'
<1>1. TypeOK'
  BY ThreadsApart
     DEF IInv, RequestActivate, Goto, At, TypeOK, Label, list, links
<1>2. LockInv'
  BY ThreadsApart
     DEF IInv, RequestActivate, Goto, At, TypeOK, LockInv, list, links
<1>3. Promised'
  BY ThreadsApart
     DEF IInv, RequestActivate, Goto, At, TypeOK, Promised, Ready, Listed, list, links
<1>4. UniqueIds'
  BY ThreadsApart
     DEF IInv, RequestActivate, Goto, At, TypeOK, UniqueIds, Promised, Ready, list, links
<1>5. Carries'
  BY ThreadsApart
     DEF IInv, RequestActivate, Goto, At, TypeOK, Carries, list, links
<1>6. RtpPathSurvivesRtcp'
  BY ThreadsApart
     DEF IInv, RequestActivate, Goto, At, TypeOK, Carries, RtpPathSurvivesRtcp, list, links
<1>. QED
  BY <1>1, <1>2, <1>3, <1>4, <1>5, <1>6 DEF IInv

\* A refused thread keeps the mutex.
LEMMA RequestRefuseHolds ==
  ASSUME IInv, NEW a \in App, RequestRefuse(a)
  PROVE  IInv'
<1>1. TypeOK'
  BY ThreadsApart
     DEF IInv, RequestRefuse, Goto, At, Free, TypeOK, Label, list, links
<1>2. LockInv'
  BY ThreadsApart
     DEF IInv, RequestRefuse, Goto, At, Free, TypeOK, LockInv, list, links
<1>3. Promised'
  BY ThreadsApart
     DEF IInv, RequestRefuse, Goto, At, Free, TypeOK, Promised, Ready, Listed, list, links
<1>4. UniqueIds'
  BY ThreadsApart
     DEF IInv, RequestRefuse, Goto, At, Free, TypeOK, UniqueIds, Promised, Ready, list, links
<1>5. Carries'
  BY ThreadsApart
     DEF IInv, RequestRefuse, Goto, At, Free, TypeOK, Carries, list, links
<1>6. RtpPathSurvivesRtcp'
  BY ThreadsApart
     DEF IInv, RequestRefuse, Goto, At, Free, TypeOK, Carries, RtpPathSurvivesRtcp, list, links
<1>. QED
  BY <1>1, <1>2, <1>3, <1>4, <1>5, <1>6 DEF IInv

\* No RTP of a payload type allowed beside RTCP looks like RTCP.
LEMMA MuxableIsNotRtcp ==
  ASSUME NEW k \in Packet, Muxable(k)
  PROVE  ~ IsRtcp(k.type)
<1>1. k.type \in 0 .. 255
  BY ReceiverAssumption DEF Packet
<1>2. k.type % 128 \notin 64 .. 95
  BY DEF Muxable, PayloadType
<1>3. k.type >= 192 /\ k.type <= 223 => k.type % 128 = k.type - 128
  BY <1>1
<1>. QED
  BY <1>1, <1>2, <1>3 DEF IsRtcp

\* A packet arrives.
LEMMA ArriveHolds ==
  ASSUME IInv, NEW p \in Pad, NEW k \in Packet, Arrive(p, k)
  PROVE  IInv'
<1>0. (\A a \in App : pc'[a] = pc[a]) /\ UNCHANGED <<list, arg>>
  BY ThreadsApart DEF IInv, TypeOK, Arrive, Goto
<1>1. TypeOK'
  BY ThreadsApart
     DEF IInv, Arrive, Goto, At, TypeOK, Label, list, links
<1>2. LockInv'
  BY ThreadsApart
     DEF IInv, Arrive, Goto, At, TypeOK, LockInv, list, links
<1>3. Promised'
  BY <1>0, ThreadsApart
     DEF IInv, TypeOK, Promised, Ready, Listed, list, links
<1>4. UniqueIds'
  BY ThreadsApart
     DEF IInv, Arrive, Goto, At, TypeOK, UniqueIds, Promised, Ready, list, links
<1>5. Carries'
  BY ThreadsApart, MuxableIsNotRtcp
     DEF IInv, Arrive, Goto, At, TypeOK, Carries, list, links
<1>6. RtpPathSurvivesRtcp'
  BY ThreadsApart
     DEF IInv, Arrive, Goto, At, TypeOK, Carries, RtpPathSurvivesRtcp, list, links
<1>. QED
  BY <1>1, <1>2, <1>3, <1>4, <1>5, <1>6 DEF IInv

\* The chain function of a pad.
LEMMA SinkChainHolds ==
  ASSUME IInv, NEW p \in Pad, SinkChain(p)
  PROVE  IInv'
<1>0. /\ \E label \in {"idle", "stopped", "pushRtp", "pushRtcp"} :
           /\ pc' = [pc EXCEPT ![p] = label]
           /\ label \in {"stopped", "pushRtcp"} => p \in mixed'
      /\ mixed \subseteq mixed'
      /\ packet' = [packet EXCEPT ![p] = None]
      /\ UNCHANGED links
  <2>3. IsRtcp(packet[p].type) => p \in mixed
    BY DEF IInv, Carries, SinkChain, At
  <2>4. CASE Unreadable(p)
    BY <2>4 DEF SinkChain, Unreadable, Stop, Goto
  <2>5. CASE ProcessMprtcp(p)
    BY <2>5 DEF SinkChain, ProcessMprtcp, Goto
  <2>6. CASE ProcessMprtp(p)
    BY <2>6 DEF SinkChain, ProcessMprtp, Goto
  <2>7. CASE ProcessRtcp(p)
    BY <2>3, <2>7 DEF SinkChain, ProcessRtcp, Stop, Goto
  <2>. QED
    BY <2>4, <2>5, <2>6, <2>7 DEF SinkChain
<1>1. TypeOK'
  BY ThreadsApart
     DEF IInv, SinkChain, Goto, At, Stop, Unreadable, ProcessMprtcp, ProcessMprtp, ProcessRtcp, IsRtcp, MPRTCP_PACKET_TYPE_IDENTIFIER, Unlocked, TypeOK, Label, list, links
<1>2. LockInv'
  BY ThreadsApart
     DEF IInv, SinkChain, Goto, At, Stop, Unreadable, ProcessMprtcp, ProcessMprtp, ProcessRtcp, IsRtcp, MPRTCP_PACKET_TYPE_IDENTIFIER, Unlocked, TypeOK, LockInv, list, links
<1>3. Promised'
  BY ThreadsApart
     DEF IInv, SinkChain, Goto, At, Stop, Unreadable, ProcessMprtcp, ProcessMprtp, ProcessRtcp, IsRtcp, MPRTCP_PACKET_TYPE_IDENTIFIER, Unlocked, TypeOK, Promised, Ready, Listed, list, links
<1>4. UniqueIds'
  BY ThreadsApart
     DEF IInv, SinkChain, Goto, At, Stop, Unreadable, ProcessMprtcp, ProcessMprtp, ProcessRtcp, IsRtcp, MPRTCP_PACKET_TYPE_IDENTIFIER, Unlocked, TypeOK, UniqueIds, Promised, Ready, list, links
<1>5. Carries'
  BY <1>0, ThreadsApart DEF IInv, TypeOK, Carries, links
<1>6. RtpPathSurvivesRtcp'
  BY <1>0, ThreadsApart DEF IInv, TypeOK, RtpPathSurvivesRtcp, At, links
<1>. QED
  BY <1>1, <1>2, <1>3, <1>4, <1>5, <1>6 DEF IInv

\* A push of a pad's thread.
LEMMA SinkPushHolds ==
  ASSUME IInv, NEW p \in Pad, SinkPush(p)
  PROVE  IInv'
<1>1. TypeOK'
  BY ThreadsApart
     DEF IInv, SinkPush, Push, Goto, At, Stop, TypeOK, Label, list, links
<1>2. LockInv'
  BY ThreadsApart
     DEF IInv, SinkPush, Push, Goto, At, Stop, TypeOK, LockInv, list, links
<1>3. Promised'
  BY ThreadsApart
     DEF IInv, SinkPush, Push, Goto, At, Stop, TypeOK, Promised, Ready, Listed, list, links
<1>4. UniqueIds'
  BY ThreadsApart
     DEF IInv, SinkPush, Push, Goto, At, Stop, TypeOK, UniqueIds, Promised, Ready, list, links
<1>5. Carries'
  BY ThreadsApart
     DEF IInv, SinkPush, Push, Goto, At, Stop, TypeOK, Carries, list, links
<1>6. RtpPathSurvivesRtcp'
  BY ThreadsApart
     DEF IInv, SinkPush, Push, Goto, At, Stop, TypeOK, Carries, RtpPathSurvivesRtcp, list, links
<1>. QED
  BY <1>1, <1>2, <1>3, <1>4, <1>5, <1>6 DEF IInv

\* The thread of rtcp_sink, the tasks and the links.
LEMMA OthersHold ==
  ASSUME IInv, RtcpArrive \/ RtcpSinkChain \/ RtcpPush
         \/ (\E t \in Tasks : TaskRun(t) \/ TaskWait(t))
         \/ ToggleRtpLink \/ ToggleRtcpLink
  PROVE  IInv'
<1>1. TypeOK'
  BY ThreadsApart
     DEF IInv, RtcpArrive, RtcpSinkChain, RtcpPush, TaskRun, TaskWait, ToggleRtpLink, ToggleRtcpLink, Push, Goto, At, Stop, TypeOK, Label, list, links
<1>2. LockInv'
  BY ThreadsApart
     DEF IInv, RtcpArrive, RtcpSinkChain, RtcpPush, TaskRun, TaskWait, ToggleRtpLink, ToggleRtcpLink, Push, Goto, At, Stop, TypeOK, LockInv, list, links
<1>3. Promised'
  BY ThreadsApart
     DEF IInv, RtcpArrive, RtcpSinkChain, RtcpPush, TaskRun, TaskWait, ToggleRtpLink, ToggleRtcpLink, Push, Goto, At, Stop, TypeOK, Promised, Ready, Listed, list, links
<1>4. UniqueIds'
  BY ThreadsApart
     DEF IInv, RtcpArrive, RtcpSinkChain, RtcpPush, TaskRun, TaskWait, ToggleRtpLink, ToggleRtcpLink, Push, Goto, At, Stop, TypeOK, UniqueIds, Promised, Ready, list, links
<1>5. Carries'
  BY ThreadsApart
     DEF IInv, RtcpArrive, RtcpSinkChain, RtcpPush, TaskRun, TaskWait, ToggleRtpLink, ToggleRtcpLink, Push, Goto, At, Stop, TypeOK, Carries, list, links
<1>6. RtpPathSurvivesRtcp'
  BY ThreadsApart
     DEF IInv, RtcpArrive, RtcpSinkChain, RtcpPush, TaskRun, TaskWait, ToggleRtpLink, ToggleRtcpLink, Push, Goto, At, Stop, TypeOK, Carries, RtpPathSurvivesRtcp, list, links
<1>. QED
  BY <1>1, <1>2, <1>3, <1>4, <1>5, <1>6 DEF IInv

-----------------------------------------------------------------------------
\* Every step of the specification keeps the invariant.
LEMMA NextHolds == IInv /\ [Next]_vars => IInv'
<1> SUFFICES ASSUME IInv, [Next]_vars PROVE IInv'
  OBVIOUS
<1>1. ASSUME NEW a \in App, AppStep(a) PROVE IInv'
  BY <1>1, RequestHolds, RequestAddHolds, RequestActivateHolds, RequestRefuseHolds
     DEF AppStep
<1>2. ASSUME NEW p \in Pad, PadStep(p) PROVE IInv'
  BY <1>2, ArriveHolds, SinkChainHolds, SinkPushHolds DEF PadStep
<1>3. CASE UNCHANGED vars
  BY <1>3 DEF vars, list, links, IInv, TypeOK, LockInv, Promised, UniqueIds, Carries,
       RtpPathSurvivesRtcp, Listed, Ready, At
<1>. QED
  BY <1>1, <1>2, <1>3, OthersHold DEF Next

\* The inductive invariant is an invariant.
LEMMA Invariance == Spec => []IInv
BY InitHolds, NextHolds, PTL DEF Spec

\* The types, for any number of pads, ids and threads.
THEOREM TypeCorrect == Spec => []TypeOK
<1>1. IInv => TypeOK
  BY DEF IInv
<1>. QED
  BY <1>1, Invariance, PTL

\* No two requests get one id: the scan and the prepend are under one hold of
\* the mutex.
THEOREM IdsStayUnique == Spec => []UniqueIds
<1>1. IInv => UniqueIds
  BY DEF IInv
<1>. QED
  BY <1>1, Invariance, PTL

\* Only the refusal of a request loses the mutex.
THEOREM MutexLostOnce == Spec => []LockLostOnlyByRefusal
<1>1. IInv => LockLostOnlyByRefusal
  BY DEF IInv, LockInv, LockLostOnlyByRefusal
<1>. QED
  BY <1>1, Invariance, PTL

\* A path that has carried nothing but RTP of payload types other than 64 to 95
\* goes on whatever becomes of rtcp_src.
THEOREM RtpSurvives == Spec => []RtpPathSurvivesRtcp
<1>1. IInv => RtpPathSurvivesRtcp
  BY DEF IInv
<1>. QED
  BY <1>1, Invariance, PTL

\* A packet of a subflow whose pad was handed out is measured by it.
THEOREM ReadyMeasures == Spec => ReadySubflowMeasures
<1>1. ASSUME IInv, [Next]_vars, NEW p \in Pad, At(p, "chain"), pc'[p] = "pushRtp",
             NEW q \in Pad, Ready(q), padId[q] = packet[p].ext
      PROVE  p \in measured'
  <2>1. packet[p].ext \in Listed
    BY <1>1 DEF IInv, Promised
  <2>2. pc \in [Thread -> Label]
    BY <1>1 DEF IInv, TypeOK
  <2>3. SinkChain(p)
    <3>1. \A r \in Thread : \A x : Goto(r, x) => r = p \/ pc'[p] = pc[p]
      BY <2>2, ThreadsApart DEF Goto
    <3>2. pc'[p] # pc[p]
      BY <1>1 DEF At
    <3>3. ASSUME NEW a \in App PROVE ~ AppStep(a)
      BY <3>1, <3>2, ThreadsApart
         DEF AppStep, Request, RequestAdd, RequestActivate, RequestRefuse
    <3>4. ~ RtcpArrive /\ ~ RtcpSinkChain /\ ~ RtcpPush
      BY <3>1, <3>2, ThreadsApart DEF RtcpArrive, RtcpSinkChain, RtcpPush, Push, Stop
    <3>5. ASSUME NEW t \in Tasks PROVE ~ TaskRun(t) /\ ~ TaskWait(t)
      BY <3>1, <3>2, ThreadsApart DEF TaskRun, TaskWait
    <3>6. ~ ToggleRtpLink /\ ~ ToggleRtcpLink /\ ~ UNCHANGED vars
      BY <3>2 DEF ToggleRtpLink, ToggleRtcpLink, vars
    <3>7. PICK r \in Pad : PadStep(r)
      BY <1>1, <3>3, <3>4, <3>5, <3>6 DEF Next
    <3>8. r = p
      BY <3>1, <3>2, <3>7, ThreadsApart
         DEF PadStep, Arrive, SinkChain, Unreadable, ProcessMprtcp, ProcessMprtp,
             ProcessRtcp, SinkPush, Push, Stop
    <3>. QED
      BY <1>1, <3>7, <3>8 DEF PadStep, Arrive, SinkPush, Push, At
  <2>4. ProcessMprtp(p)
    <3>1. \A x : Goto(p, x) => pc'[p] = x
      BY <2>2, ThreadsApart DEF Goto
    <3>. QED
      BY <1>1, <2>3, <3>1
         DEF SinkChain, Unreadable, ProcessMprtcp, ProcessRtcp, Stop
  <2>. QED
    BY <2>1, <2>4 DEF ProcessMprtp
<1>2. IInv /\ [Next]_vars =>
        [\A p \in Pad : At(p, "chain") /\ pc'[p] = "pushRtp" =>
           ((\E q \in Pad : Ready(q) /\ padId[q] = packet[p].ext) => p \in measured')]_vars
  BY <1>1
<1>. QED
  BY <1>2, Invariance, PTL DEF Spec, ReadySubflowMeasures
=============================================================================
