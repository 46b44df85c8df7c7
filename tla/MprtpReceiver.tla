---------------------------- MODULE MprtpReceiver ----------------------------
(***************************************************************************)
(* The MPRTP receiver element (src/plugins/gstmprtpreceiver.c) while it    *)
(* plays.  One streaming thread per sink pad, the thread of rtcp_sink, the *)
(* playouter and the riporter task, and application threads that request   *)
(* pads all take one mutex (MPRTPR_LOCK).  No push happens under it, so    *)
(* what a thread does under it is one step; a thread that returns without  *)
(* giving it back keeps it in "lock".                                      *)
(*                                                                         *)
(* A packet is what its sender made it, RTP or RTCP, its second byte, by   *)
(* which it is demultiplexed, and the subflow id in its header extension.  *)
(* The second byte of RTP is the marker bit and the payload type; that of  *)
(* RTCP is the packet type.                                                *)
(***************************************************************************)
EXTENDS Integers, Sequences, FiniteSets

CONSTANTS
  Pad,       \* sink pads; a pad also names its streaming thread
  Id,        \* subflow ids (the %u of sink_%u)
  App,       \* application threads
  Types,     \* the second bytes that occur
  None       \* no thread, no id, no packet

ASSUME ReceiverAssumption ==
  /\ Types \subseteq 0 .. 255
  /\ None \notin Pad \cup Id \cup App \cup {"rtcp", "playouter", "riporter"}
  /\ Pad \cap App = {}
  /\ (Pad \cup App) \cap {"rtcp", "playouter", "riporter"} = {}

VARIABLES
  subflows,    \* the ids of the list, newest first
  padId,       \* the id each pad was requested with
  lock,        \* owner of the mutex
  pc,          \* what each thread is about to do
  arg,         \* the id an application thread asks for
  packet,      \* the packet in each chain function
  rtpLinked,   \* rtp_src is linked
  rtcpLinked,  \* rtcp_src is linked
  measured,    \* history: pads whose packet about to be pushed reached its subflow
  refused,     \* history: the application threads that were refused a pad
  mixed,       \* history: pads that have taken more than readable, muxable RTP
  cut          \* history: rtp_src has been unlinked

list == <<subflows, padId>>
links == <<rtpLinked, rtcpLinked, cut>>
vars == <<list, lock, pc, arg, packet, links, measured, refused, mixed>>

Tasks == {"playouter", "riporter"}
Thread == Pad \cup App \cup Tasks \cup {"rtcp"}

Packet ==
  {k \in [rtp : BOOLEAN, type : Types, ext : Id \cup {None}] :
     k.rtp \/ k.type \in 192 .. 223}

\* RFC 5761, which the comment of sink_chain names, keeps the payload types 64
\* to 95 from RTP that shares a port with RTCP.
PayloadType(k) == k.type % 128
Muxable(k) == k.rtp /\ PayloadType(k) \notin 64 .. 95

Listed == {subflows[i] : i \in 1..Len(subflows)}
At(t, label) == pc[t] = label
Goto(t, label) == pc' = [pc EXCEPT ![t] = label]
Free == lock = None
Ready(p) == padId[p] # None

Init ==
  /\ subflows = << >> /\ padId = [p \in Pad |-> None]
  /\ lock = None
  /\ pc = [t \in Thread |-> "idle"]
  /\ arg = [a \in App |-> None]
  /\ packet = [t \in Pad |-> None]
  /\ rtpLinked = TRUE /\ rtcpLinked = FALSE
  /\ measured = {} /\ refused = {} /\ mixed = {} /\ cut = FALSE

-----------------------------------------------------------------------------
(* request_new_pad.                                                        *)

Request(a, i) ==
  /\ At(a, "idle")
  /\ Goto(a, "request")
  /\ arg' = [arg EXCEPT ![a] = i]
  /\ UNCHANGED <<list, lock, packet, links, measured, refused, mixed>>

\* Bug: every id is taken for a new one.
AnyIdUnique(i) == TRUE

IsUnique(i) == i \notin Listed

\* Bug: the list is not extended.
NotPrepended(i) == subflows

Prepended(i) == <<i>> \o subflows

\* The scan and the prepend are under one hold of the mutex; the pad is added
\* to the element and activated after it.
RequestAdd(a) ==
  /\ At(a, "request") /\ Free
  /\ IsUnique(arg[a])
  /\ subflows' = Prepended(arg[a])
  /\ Goto(a, "activate")
  /\ UNCHANGED <<padId, lock, arg, packet, links, measured, refused, mixed>>

RequestActivate(a, p) ==
  /\ At(a, "activate")
  /\ ~ Ready(p)
  /\ padId' = [padId EXCEPT ![p] = arg[a]]
  /\ Goto(a, "idle")
  /\ arg' = [arg EXCEPT ![a] = None]
  /\ UNCHANGED <<subflows, lock, packet, links, measured, refused, mixed>>

\* "is not unique": NULL is returned, and the mutex stays with the thread.
RequestRefuse(a) ==
  /\ At(a, "request") /\ Free
  /\ ~ IsUnique(arg[a])
  /\ lock' = a
  /\ refused' = refused \cup {a}
  /\ Goto(a, "idle")
  /\ arg' = [arg EXCEPT ![a] = None]
  /\ UNCHANGED <<list, packet, links, measured, mixed>>

-----------------------------------------------------------------------------
(* sink_chain: one of the sink pads gets a packet.                         *)

Arrive(p, k) ==
  /\ At(p, "idle") /\ Ready(p)
  /\ Goto(p, "chain")
  /\ packet' = [packet EXCEPT ![p] = k]
  /\ mixed' = IF Muxable(k) THEN mixed ELSE mixed \cup {p}
  /\ UNCHANGED <<list, lock, arg, links, measured, refused>>

MPRTCP_PACKET_TYPE_IDENTIFIER == 212

\* Bug: one byte too many on the left.
FromRtcpOn(b) == b >= 191 /\ b <= 223

\* "demultiplexing based on RFC5761".
IsRtcp(b) == ~ (b < 192 \/ b > 223)

\* An error return stops the upstream element.
Stop(t) == Goto(t, "stopped")

\* Bug: a return path forgets the unlock.
ChainKeepsLock(p) == lock' = p

Unlocked(p) == lock' = lock

Unreadable(p) ==
  /\ Stop(p)
  /\ mixed' = mixed \cup {p}
  /\ UNCHANGED measured

\* The blocks of the report are walked and nothing is done with them.
ProcessMprtcp(p) ==
  /\ packet[p].type = MPRTCP_PACKET_TYPE_IDENTIFIER
  /\ Goto(p, "idle")
  /\ UNCHANGED <<measured, mixed>>

\* _processing_mprtp_packet and _select_subflow: the subflow is looked up by
\* the id in the packet.  The packet goes on whether or not one was found.
ProcessMprtp(p) ==
  /\ ~ IsRtcp(packet[p].type)
  /\ measured' = IF packet[p].ext \in Listed THEN measured \cup {p} ELSE measured
  /\ Goto(p, "pushRtp")
  /\ UNCHANGED mixed

ProcessRtcp(p) ==
  /\ IsRtcp(packet[p].type) /\ packet[p].type # MPRTCP_PACKET_TYPE_IDENTIFIER
  /\ IF rtcpLinked THEN Goto(p, "pushRtcp") ELSE Stop(p)
  /\ UNCHANGED <<measured, mixed>>

SinkChain(p) ==
  /\ At(p, "chain") /\ Free
  /\ Unreadable(p) \/ ProcessMprtcp(p) \/ ProcessMprtp(p) \/ ProcessRtcp(p)
  /\ Unlocked(p)
  /\ packet' = [packet EXCEPT ![p] = None]
  /\ UNCHANGED <<list, arg, links, refused>>

\* The push happens after the unlock; a pad that is not linked (any more)
\* answers with an error.
Push(t, label, linked) ==
  /\ At(t, label)
  /\ IF linked THEN Goto(t, "idle") ELSE Stop(t)
  /\ measured' = measured \ {t}
  /\ UNCHANGED <<list, lock, arg, packet, links, refused, mixed>>

SinkPush(p) == Push(p, "pushRtp", rtpLinked) \/ Push(p, "pushRtcp", rtcpLinked)

-----------------------------------------------------------------------------
(* rtcp_sink_chain.                                                        *)

RtcpArrive ==
  /\ At("rtcp", "idle")
  /\ Goto("rtcp", "chain")
  /\ UNCHANGED <<list, lock, arg, packet, links, measured, refused, mixed>>

RtcpSinkChain ==
  /\ At("rtcp", "chain") /\ Free
  /\ IF rtcpLinked THEN Goto("rtcp", "pushRtcp") ELSE Stop("rtcp")
  /\ UNCHANGED <<list, lock, arg, packet, links, measured, refused, mixed>>

RtcpPush == Push("rtcp", "pushRtcp", rtcpLinked)

-----------------------------------------------------------------------------
(* The tasks: one run under the mutex, then a wait for the clock.          *)

TaskRun(t) ==
  /\ At(t, "idle") /\ Free
  /\ Goto(t, "wait")
  /\ UNCHANGED <<list, lock, arg, packet, links, measured, refused, mixed>>

TaskWait(t) ==
  /\ At(t, "wait")
  /\ Goto(t, "idle")
  /\ UNCHANGED <<list, lock, arg, packet, links, measured, refused, mixed>>

\* The link functions of the pads do nothing.
ToggleRtpLink ==
  /\ rtpLinked' = ~ rtpLinked
  /\ cut' = TRUE
  /\ UNCHANGED <<list, lock, pc, arg, packet, rtcpLinked, measured, refused, mixed>>

ToggleRtcpLink ==
  /\ rtcpLinked' = ~ rtcpLinked
  /\ UNCHANGED <<list, lock, pc, arg, packet, rtpLinked, cut, measured, refused, mixed>>

-----------------------------------------------------------------------------
AppStep(a) ==
  \/ \E i \in Id : Request(a, i)
  \/ RequestAdd(a)
  \/ \E p \in Pad : RequestActivate(a, p)
  \/ RequestRefuse(a)

PadStep(p) ==
  \/ \E k \in Packet : Arrive(p, k)
  \/ SinkChain(p)
  \/ SinkPush(p)

Next ==
  \/ \E a \in App : AppStep(a)
  \/ \E p \in Pad : PadStep(p)
  \/ RtcpArrive \/ RtcpSinkChain \/ RtcpPush
  \/ \E t \in Tasks : TaskRun(t) \/ TaskWait(t)
  \/ ToggleRtpLink \/ ToggleRtcpLink

Spec == Init /\ [][Next]_vars

\* Every thread goes on when it can: pushes return, clocks go on, and a mutex
\* that is given back within each step is not kept from anyone for ever.
\* Nothing is asked of the application but that its calls go on.
Fairness ==
  /\ \A a \in App : WF_vars(RequestAdd(a) \/ RequestRefuse(a))
  /\ \A p \in Pad : WF_vars(SinkChain(p)) /\ WF_vars(SinkPush(p))
  /\ WF_vars(RtcpSinkChain) /\ WF_vars(RtcpPush)
  /\ \A t \in Tasks : WF_vars(TaskRun(t)) /\ WF_vars(TaskWait(t))

FairSpec == Spec /\ Fairness

-----------------------------------------------------------------------------
(* Properties.                                                             *)

Label == {"idle", "request", "activate", "chain", "pushRtp", "pushRtcp", "wait", "stopped"}

\* The variables stay in their domains.
TypeOK ==
  /\ subflows \in Seq(Id) /\ padId \in [Pad -> Id \cup {None}]
  /\ lock \in Thread \cup {None} /\ pc \in [Thread -> Label]
  /\ arg \in [App -> Id \cup {None}] /\ packet \in [Pad -> Packet \cup {None}]
  /\ rtpLinked \in BOOLEAN /\ rtcpLinked \in BOOLEAN /\ cut \in BOOLEAN
  /\ measured \subseteq Pad /\ refused \subseteq App /\ mixed \subseteq Pad

\* Two threads that ask for one id at a time do not both get it: unlike the
\* sender's, the receiver's scan is under the mutex.
UniqueIds ==
  /\ \A i, j \in 1..Len(subflows) : subflows[i] = subflows[j] => i = j
  /\ \A p, q \in Pad : Ready(p) /\ padId[p] = padId[q] => p = q

\* The mutex is lost in one place only: whoever has it at rest was refused a
\* pad.  No way out of the chain functions or the tasks keeps it.
LockLostOnlyByRefusal ==
  lock # None => lock \in refused /\ refused = {lock}

\* A packet of a subflow whose pad has been handed out is measured by that
\* subflow, on whatever pad it comes in and whoever else changes the list.
ReadySubflowMeasures ==
  [][\A p \in Pad : At(p, "chain") /\ pc'[p] = "pushRtp" =>
       ((\E q \in Pad : Ready(q) /\ padId[q] = packet[p].ext) => p \in measured')]_vars

\* A path that has carried nothing but RTP of the payload types RFC 5761 lets
\* it have beside RTCP is not stopped by what becomes of rtcp_src, with the
\* marker bit or without.  (RTP of the types 64 to 95 with the marker bit is
\* taken for RTCP by the code, and may stop its path.)
RtpPathSurvivesRtcp ==
  \A p \in Pad : At(p, "stopped") => cut \/ p \in mixed

NoRefusal == [](refused = {})

\* As long as no request was refused, every packet leaves the element or
\* stops its path, every request returns, and the playouter keeps running.
EveryCallReturns ==
  NoRefusal =>
    /\ \A p \in Pad : pc[p] # "idle" ~> pc[p] \in {"idle", "stopped"}
    /\ \A a \in App : pc[a] = "request" ~> pc[a] # "request"
    /\ []<>(pc["playouter"] = "wait") /\ []<>(pc["playouter"] = "idle")

\* request_new_pad: "Requested Pad subflow id(%d) is not unique" refuses a
\* pad; the mutex the function takes is given back at its other end.
RequestGivesMutexBack ==
  [][\A a \in App : pc[a] = "request" /\ pc'[a] # "request" => lock' # a]_vars
=============================================================================
