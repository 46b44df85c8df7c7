----------------------------- MODULE MprtpSender -----------------------------
(***************************************************************************)
(* The MPRTP sender element (src/plugins/gstmprtpsender.c) while it plays: *)
(* its threads, the list of subflows they share, the mutex that guards it  *)
(* (SUBFLOW_LOCK) and the condition on which a packet waits for a path.    *)
(*                                                                         *)
(*   stream  the thread that pushes RTP into rtp_sink                      *)
(*   rtcp    the thread that pushes RTCP into rtcp_sink                    *)
(*   sched   the scheduler task: joins subflows and builds the tree        *)
(*   rip     the riporter task: sends sender reports                       *)
(*   App     application threads: request, link, unlink and release pads   *)
(*                                                                         *)
(* What a thread does under one hold of the mutex is one step, except that *)
(* a push to the next element is a step of its own: it may take long, and  *)
(* the mutex is held all the while.  The scheduling tree is the set of the *)
(* subflows in it, and a draw picks any of them; SchTree tells which.      *)
(* A subflow is named by its pad (subflow->outpad).                        *)
(***************************************************************************)
EXTENDS MprtpsSubflow, Sequences, FiniteSets

CONSTANTS
  Pad,       \* the source pads that may be requested
  Id,        \* subflow ids (the %u of src_%u)
  App,       \* application threads
  RtcpPad,   \* the rtcp_src pad
  NoPad,     \* NULL
  Stale,     \* an "actual" that points into a freed tree
  None       \* no thread, no argument

ASSUME SenderAssumption ==
  /\ RtcpPad \notin Pad /\ NoPad \notin Pad /\ Stale \notin Pad
  /\ NoPad # Stale /\ NoPad # RtcpPad
  /\ None \notin Pad \cup Id \cup App
  /\ App \cap {"stream", "rtcp", "sched", "rip"} = {}
  /\ None \notin {"stream", "rtcp", "sched", "rip"}

VARIABLES
  subflows,    \* the list, newest subflow first
  id,          \* id of each subflow
  sf,          \* state record of each subflow
  counters,    \* packet counters of each subflow
  no_active,   \* no_active_subflows
  tree,        \* the subflows in the scheduling tree
  actual,      \* tree->actual: the subflow of the last draw
  lock,        \* owner of subflows_mutex
  pc,          \* what each thread is about to do
  arg,         \* the id or pad an application thread works on
  out,         \* the pad the holder of the mutex pushes on
  mem,         \* the scheduler's mem_no_active_subflows
  reports,     \* the pads the riporter still has to push a report on
  peer,        \* the source pads linked to a peer
  rtcpLinked,  \* rtcp_src is linked
  released,    \* pads given back with release_pad
  waited,      \* history: the packet in the chain function has waited
  fault        \* the thread that dereferenced NULL or freed memory

list == <<subflows, id>>
states == <<sf, counters>>
sched == <<no_active, tree, actual>>
threads == <<lock, pc, arg, out, mem, reports>>
links == <<peer, rtcpLinked, released>>
vars == <<list, states, sched, threads, links, waited, fault>>

Task == {"stream", "rtcp", "sched", "rip"}
Thread == Task \cup App

Listed == {subflows[i] : i \in 1..Len(subflows)}
Running == fault = None
At(t, label) == Running /\ pc[t] = label
Goto(t, label) == pc' = [pc EXCEPT ![t] = label]
Free == lock = None

\* gst_pad_push takes the pad's object lock, which gst_pad_unlink holds while
\* it runs the unlink function of the pad.
PadBusy(p) == \E a \in App : pc[a] = "unlink" /\ arg[a] = p

Init ==
  /\ subflows = << >> /\ id = [p \in Pad |-> None]
  /\ sf = [p \in Pad |-> NewSubflow]
  /\ counters = [p \in Pad |-> NewCounters]
  /\ no_active = TRUE /\ tree = {} /\ actual = NoPad
  /\ lock = None
  /\ pc = [t \in Thread |-> "idle"]
  /\ arg = [a \in App |-> None]
  /\ out = NoPad /\ mem = TRUE /\ reports = {}
  /\ peer = {} /\ rtcpLinked = FALSE /\ released = {}
  /\ waited = FALSE /\ fault = None

-----------------------------------------------------------------------------
(* Application threads.                                                    *)

\* Bug: no scan.
RequestUnscanned(a, i) ==
  /\ At(a, "idle")
  /\ Listed # Pad
  /\ Goto(a, "request")
  /\ arg' = [arg EXCEPT ![a] = i]
  /\ UNCHANGED <<list, states, sched, lock, out, mem, reports, links, waited, fault>>

\* request_new_pad: the uniqueness scan reads the list without the mutex ...
RequestScan(a, i) ==
  /\ At(a, "idle")
  /\ Listed # Pad
  /\ \A p \in Listed : id[p] # i
  /\ Goto(a, "request")
  /\ arg' = [arg EXCEPT ![a] = i]
  /\ UNCHANGED <<list, states, sched, lock, out, mem, reports, links, waited, fault>>

\* ... and the subflow is made and prepended under it.
RequestAdd(a, p) ==
  /\ At(a, "request") /\ Free
  /\ p \notin Listed
  /\ subflows' = <<p>> \o subflows
  /\ id' = [id EXCEPT ![p] = arg[a]]
  /\ sf' = [sf EXCEPT ![p] = NewSubflow]
  /\ counters' = [counters EXCEPT ![p] = NewCounters]
  /\ Goto(a, "idle")
  /\ arg' = [arg EXCEPT ![a] = None]
  /\ UNCHANGED <<sched, lock, out, mem, reports, links, waited, fault>>

\* gst_pad_link sets the peer and then calls src_link.
LinkPeer(a, p) ==
  /\ At(a, "idle")
  /\ p \in Listed \ (peer \cup released)
  /\ peer' = peer \cup {p}
  /\ Goto(a, "link")
  /\ arg' = [arg EXCEPT ![a] = p]
  /\ UNCHANGED <<list, states, sched, lock, out, mem, reports, rtcpLinked, released, waited, fault>>

SrcLink(a) ==
  /\ At(a, "link") /\ Free
  /\ sf' = [sf EXCEPT ![arg[a]] = Link(@)]
  /\ Goto(a, "idle")
  /\ arg' = [arg EXCEPT ![a] = None]
  /\ UNCHANGED <<list, counters, sched, lock, out, mem, reports, links, waited, fault>>

\* gst_pad_unlink calls src_unlink and then clears the peer.
UnlinkPeer(a, p) ==
  /\ At(a, "idle")
  /\ p \in peer
  /\ \A b \in App : arg[b] # p
  /\ Goto(a, "unlink")
  /\ arg' = [arg EXCEPT ![a] = p]
  /\ UNCHANGED <<list, states, sched, lock, out, mem, reports, links, waited, fault>>

\* DETACHED is fired at "subflow", which the loop that looked for the pad has
\* left at the last, that is the oldest, subflow of the list.
Detached == subflows[Len(subflows)]

\* Bug: src_unlink without the mutex.
SrcUnlinkUnlocked(a) ==
  /\ At(a, "unlink")
  /\ sf' = [sf EXCEPT ![Detached] = Fire(@, "DETACHED", 0)]
  /\ peer' = peer \ {arg[a]}
  /\ Goto(a, "idle")
  /\ arg' = [arg EXCEPT ![a] = None]
  /\ UNCHANGED <<list, counters, sched, lock, out, mem, reports, rtcpLinked, released, waited, fault>>

SrcUnlink(a) ==
  /\ At(a, "unlink") /\ Free
  /\ sf' = [sf EXCEPT ![Detached] = Fire(@, "DETACHED", 0)]
  /\ peer' = peer \ {arg[a]}
  /\ Goto(a, "idle")
  /\ arg' = [arg EXCEPT ![a] = None]
  /\ UNCHANGED <<list, counters, sched, lock, out, mem, reports, rtcpLinked, released, waited, fault>>

\* release_pad deactivates the pad and looks its subflow up, no more.
ReleasePad(a, p) ==
  /\ At(a, "idle") /\ Free
  /\ p \in Listed \ released
  /\ \A b \in App : arg[b] # p
  /\ released' = released \cup {p}
  /\ UNCHANGED <<list, states, sched, threads, peer, rtcpLinked, waited, fault>>

\* rtcp_src_link and rtcp_src_unlink do nothing.
ToggleRtcpLink ==
  /\ Running
  /\ rtcpLinked' = ~ rtcpLinked
  /\ UNCHANGED <<list, states, sched, threads, peer, released, waited, fault>>

-----------------------------------------------------------------------------
(* rtp_sink_chain.                                                         *)

\* get_next, process_rtpbuf_out, and the mutex is kept for the push.
\* With an empty tree get_next reads through NULL.
Draw(p) ==
  /\ p \in tree
  /\ actual' = p
  /\ counters' = [counters EXCEPT ![p] = ProcessRtpOut(@, 1)]
  /\ lock' = "stream" /\ out' = p
  /\ Goto("stream", "push")
  /\ UNCHANGED <<list, sf, no_active, tree, arg, mem, reports, links, waited, fault>>

DrawFromEmptyTree ==
  /\ tree = {}
  /\ fault' = "stream"
  /\ UNCHANGED <<list, states, sched, threads, links, waited>>

StreamWait ==
  /\ At("stream", "idle") /\ Free
  /\ no_active
  /\ waited' = TRUE
  /\ Goto("stream", "wait")
  /\ UNCHANGED <<list, states, sched, lock, arg, out, mem, reports, links, fault>>

\* Bug: the flag is not looked at.
StreamDrawUnguarded ==
  /\ At("stream", "idle") /\ Free
  /\ DrawFromEmptyTree \/ \E p \in Pad : Draw(p)

StreamDraw ==
  /\ At("stream", "idle") /\ Free
  /\ ~ no_active
  /\ DrawFromEmptyTree \/ \E p \in Pad : Draw(p)

\* g_cond_wait may return without a signal.
SpuriousWakeup ==
  /\ At("stream", "wait")
  /\ Goto("stream", "woken")
  /\ UNCHANGED <<list, states, sched, lock, arg, out, mem, reports, links, waited, fault>>

\* Back from g_cond_wait: no_active_subflows is not looked at again.
StreamResume ==
  /\ At("stream", "woken") /\ Free
  /\ DrawFromEmptyTree \/ \E p \in Pad : Draw(p)

\* The push returns and the mutex is released.
StreamPush ==
  /\ At("stream", "push") /\ ~ PadBusy(out)
  /\ lock' = None /\ out' = NoPad
  /\ Goto("stream", "idle")
  /\ waited' = FALSE
  /\ UNCHANGED <<list, states, sched, arg, mem, reports, links, fault>>

-----------------------------------------------------------------------------
(* rtcp_sink_chain.                                                        *)

RtcpTo(p) ==
  /\ lock' = "rtcp" /\ out' = p
  /\ Goto("rtcp", "push")
  /\ UNCHANGED <<list, states, no_active, tree, arg, mem, reports, links, waited, fault>>

RtcpFault ==
  /\ fault' = "rtcp"
  /\ UNCHANGED <<list, states, sched, threads, links, waited>>

RtcpForward ==
  /\ At("rtcp", "idle") /\ Free
  /\ rtcpLinked
  /\ RtcpTo(RtcpPad)
  /\ UNCHANGED actual

\* get_actual: the subflow of the last RTP packet, or a draw if there was none.
RtcpFollow ==
  /\ At("rtcp", "idle") /\ Free
  /\ ~ rtcpLinked
  /\ \/ actual \in Pad /\ RtcpTo(actual) /\ UNCHANGED actual
     \/ actual = NoPad /\ \E p \in tree : RtcpTo(p) /\ actual' = p
     \/ actual = NoPad /\ tree = {} /\ RtcpFault
     \/ actual = Stale /\ \E p \in Listed : RtcpTo(p) /\ UNCHANGED actual
     \/ actual = Stale /\ RtcpFault

RtcpPush ==
  /\ At("rtcp", "push") /\ ~ PadBusy(out)
  /\ lock' = None /\ out' = NoPad
  /\ Goto("rtcp", "idle")
  /\ UNCHANGED <<list, states, sched, arg, mem, reports, links, waited, fault>>

-----------------------------------------------------------------------------
(* scheduler_run.                                                          *)

\* A rate above 0: UB is never assigned, so it is 1 / subflow_num.
JoinRate == 1

\* Bug: the copy of the flag starts as FALSE.
SchedulerReadsNothing ==
  /\ At("sched", "idle")
  /\ mem' = FALSE
  /\ Goto("sched", "run")
  /\ UNCHANGED <<list, states, sched, lock, arg, out, reports, links, waited, fault>>

\* no_active_subflows is read before the mutex is taken ...
SchedulerRead ==
  /\ At("sched", "idle")
  /\ mem' = no_active
  /\ Goto("sched", "run")
  /\ UNCHANGED <<list, states, sched, lock, arg, out, reports, links, waited, fault>>

\* ... the linked subflows join ...
Joined(s) == IF ~ s.active /\ s.linked THEN Fire(s, "JOINED", JoinRate) ELSE s

\* ... and the tree is built again from the active ones, if there is a list.
SchedulerRun ==
  /\ At("sched", "run") /\ Free
  /\ sf' = [p \in Pad |-> IF p \in Listed THEN Joined(sf[p]) ELSE sf[p]]
  /\ LET scheduled == {p \in Listed : Schedulable(sf'[p])}
     IN  /\ no_active' = (scheduled = {})
         /\ IF subflows = << >> THEN UNCHANGED <<tree, actual>>
            ELSE /\ tree' = scheduled
                 /\ actual' = IF actual = NoPad THEN NoPad ELSE Stale
  /\ pc' = [pc EXCEPT !["sched"] = "idle",
                      !["stream"] = IF ~ no_active' /\ mem /\ @ = "wait" THEN "woken" ELSE @]
  /\ UNCHANGED <<list, counters, lock, arg, out, mem, reports, links, waited, fault>>

-----------------------------------------------------------------------------
(* riporter_run.                                                           *)

Active(p) == sf[p].active

\* Reports go out in the order of the list.
First(p, pads) ==
  \A i \in 1..Len(subflows) : subflows[i] = p => \A j \in 1 .. (i - 1) : subflows[j] \notin pads

\* The subflows whose report time has come; the others get none this time.
\* With rtcp_src linked one compound packet goes there, even if it is empty.
RiporterRun(due) ==
  /\ At("rip", "idle") /\ Free
  /\ due \subseteq {p \in Listed : Active(p)}
  /\ reports' = IF rtcpLinked THEN {RtcpPad} ELSE due
  /\ IF reports' = {} THEN UNCHANGED <<lock, pc, out>>
     ELSE /\ lock' = "rip"
          /\ \E p \in reports' : First(p, reports') /\ out' = p
          /\ Goto("rip", "push")
  /\ UNCHANGED <<list, states, sched, arg, mem, links, waited, fault>>

RiporterPush ==
  /\ At("rip", "push") /\ ~ PadBusy(out)
  /\ reports' = reports \ {out}
  /\ IF reports' = {}
     THEN lock' = None /\ out' = NoPad /\ Goto("rip", "idle")
     ELSE (\E p \in reports' : First(p, reports') /\ out' = p) /\ UNCHANGED <<lock, pc>>
  /\ UNCHANGED <<list, states, sched, arg, mem, links, waited, fault>>

-----------------------------------------------------------------------------
AppStep(a) ==
  \/ \E i \in Id : RequestScan(a, i)
  \/ \E p \in Pad : RequestAdd(a, p) \/ LinkPeer(a, p) \/ UnlinkPeer(a, p) \/ ReleasePad(a, p)
  \/ SrcLink(a)
  \/ SrcUnlink(a)

StreamStep == StreamWait \/ StreamDraw \/ SpuriousWakeup \/ StreamResume \/ StreamPush
RtcpStep == RtcpForward \/ RtcpFollow \/ RtcpPush
SchedulerStep == SchedulerRead \/ SchedulerRun
RiporterStep == (\E due \in SUBSET Pad : RiporterRun(due)) \/ RiporterPush

Next ==
  \/ \E a \in App : AppStep(a)
  \/ ToggleRtcpLink
  \/ StreamStep \/ RtcpStep \/ SchedulerStep \/ RiporterStep

Spec == Init /\ [][Next]_vars

\* The mutex is handed on, the next element takes what is pushed, and the
\* tasks run again after their clock waits.  The application owes nothing.
Fairness ==
  /\ WF_vars(SchedulerRead) /\ SF_vars(SchedulerRun)
  /\ SF_vars(StreamResume) /\ WF_vars(StreamPush)
  /\ WF_vars(RtcpPush) /\ WF_vars(RiporterPush)
  /\ \A a \in App : SF_vars(SrcLink(a))

FairSpec == Spec /\ Fairness

-----------------------------------------------------------------------------
(* Properties.                                                             *)

Label == {"idle", "request", "link", "unlink", "wait", "woken", "push", "run"}

\* The variables stay in their domains.
TypeOK ==
  /\ subflows \in Seq(Pad) /\ id \in [Pad -> Id \cup {None}]
  /\ sf \in [Pad -> [active : BOOLEAN, linked : BOOLEAN, state : States, SR : Nat]]
  /\ counters \in [Pad -> [seq : 0 .. SeqSpace - 1, cycle_num : 0 .. CycleSpace - 1,
                           packet_count : 0 .. CountSpace - 1, octet_count : 0 .. CountSpace - 1]]
  /\ no_active \in BOOLEAN /\ tree \subseteq Pad /\ actual \in Pad \cup {NoPad, Stale}
  /\ lock \in Thread \cup {None} /\ pc \in [Thread -> Label]
  /\ arg \in [App -> Pad \cup Id \cup {None}]
  /\ out \in Pad \cup {RtcpPad, NoPad} /\ mem \in BOOLEAN
  /\ reports \subseteq Pad \cup {RtcpPad}
  /\ peer \subseteq Pad /\ rtcpLinked \in BOOLEAN /\ released \subseteq Pad
  /\ waited \in BOOLEAN /\ fault \in Thread \cup {None}

\* No wakeup is lost: while a packet waits there is no path to send it on,
\* and the copy of the flag that the scheduler read before it took the mutex
\* says so too, so the run that finds the first path is bound to signal.
WaitsOnlyWithoutPath ==
  pc["stream"] = "wait" => no_active /\ tree = {} /\ (pc["sched"] = "run" => mem)

\* A packet that did not have to wait never meets an empty tree, although
\* the flag it looks at and the tree it draws from are separate.  (One that
\* waited can: after a spurious wakeup, or if its path was detached between
\* the signal and the wakeup.)
EmptyTreeOnlyAfterWait == fault = "stream" => waited

\* The list holds every subflow once, under an id of its own.
UniqueIds ==
  \A i, j \in 1..Len(subflows) : id[subflows[i]] = id[subflows[j]] => i = j

\* The riporter works through its list without letting the mutex go, so no
\* subflow is detached between the choice to report and the report.
ReportsOnlyOfActive ==
  pc["rip"] = "push" => \A p \in reports \ {RtcpPad} : Active(p)

\* Some application thread may be inside gst_pad_unlink for ever, when the
\* thread that holds the mutex pushes on that very pad.
UnlinksReturn == \A a \in App : []<>(pc[a] # "unlink")
NeverFaults == []Running

\* A packet waiting for a path is sent on once some subflow stays linked.
WaitingPacketLeaves ==
  /\ NeverFaults /\ UnlinksReturn
  /\ <>[](\E p \in Listed : sf[p].linked)
  => []<>(pc["stream"] \notin {"wait", "woken"})

\* A subflow that stays linked joins and is in the tree from then on.
LinkedSubflowJoins ==
  NeverFaults /\ UnlinksReturn =>
    \A p \in Pad : <>[](p \in Listed /\ sf[p].linked) => <>[](p \in tree)

\* gst_mprtpsender_src_unlink: "Can not find subflow for the recently unlinked
\* pad" says which subflow it is after, the one of the pad.
UnlinkDetachesItsSubflow ==
  [][\A a \in App : pc[a] = "unlink" /\ pc'[a] = "idle" => ~ sf'[arg[a]].linked]_vars
=============================================================================
