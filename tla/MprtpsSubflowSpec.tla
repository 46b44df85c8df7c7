-------------------------- MODULE MprtpsSubflowSpec --------------------------
(***************************************************************************)
(* The life of one sender subflow: its pad is linked, events are fired at  *)
(* it, packets go out on it and sender reports are made of it.  All of     *)
(* this happens under the sender's subflows_mutex, so each is one step.    *)
(***************************************************************************)
EXTENDS MprtpsSubflow

CONSTANTS
  Fired,      \* the events that are fired
  Rates,      \* the rates (SR) they carry
  Lengths,    \* the payload lengths of packets
  MaxSent     \* bound: packets sent in a behaviour

ASSUME SubflowSpecAssumption ==
  /\ Fired \subseteq Events
  /\ Rates \subseteq Nat \ {0}
  /\ Lengths \subseteq Nat
  /\ MaxSent \in Nat

VARIABLES
  subflow,    \* active, linked, state, SR
  counters,   \* seq, cycle_num, packet_count, octet_count
  report,     \* the sender block of the last SR
  sent,       \* history: packets sent
  reported,   \* history: packets sent when that SR was made
  steered     \* history: an event has been fired that the code never fires

vars == <<subflow, counters, report, sent, reported, steered>>

\* The events of gst_mprtp_sender_scheduler_run and gst_mprtpsender_src_unlink.
LiveEvents == {"JOINED", "DETACHED"}

Init ==
  /\ subflow = NewSubflow
  /\ counters = NewCounters
  /\ report = SenderBlock(NewCounters)
  /\ sent = 0
  /\ reported = 0
  /\ steered = FALSE

\* The scheduler fires JOINED at subflows that are linked but not active.
FireEvent(event, rate) ==
  /\ event = "JOINED" => subflow.linked /\ ~ subflow.active
  /\ subflow' = Fire(subflow, event, rate)
  /\ steered' = (steered \/ event \notin LiveEvents)
  /\ UNCHANGED <<counters, report, sent, reported>>

LinkPad ==
  /\ subflow' = Link(subflow)
  /\ UNCHANGED <<counters, report, sent, reported, steered>>

SendPacket(len) ==
  /\ sent < MaxSent
  /\ counters' = ProcessRtpOut(counters, len)
  /\ sent' = sent + 1
  /\ UNCHANGED <<subflow, report, reported, steered>>

SetupSrRiport ==
  /\ report' = SenderBlock(counters)
  /\ reported' = sent
  /\ UNCHANGED <<subflow, counters, sent, steered>>

Next ==
  \/ \E event \in Fired, rate \in Rates : FireEvent(event, rate)
  \/ LinkPad
  \/ \E len \in Lengths : SendPacket(len)
  \/ SetupSrRiport

Spec == Init /\ [][Next]_vars

-----------------------------------------------------------------------------
(* Properties.                                                             *)

\* The variables stay in their domains; the counters in their widths.
TypeOK ==
  /\ subflow \in [active : BOOLEAN, linked : BOOLEAN, state : States, SR : Nat]
  /\ counters \in [seq : 0 .. SeqSpace - 1, cycle_num : 0 .. CycleSpace - 1,
                   packet_count : 0 .. CountSpace - 1, octet_count : 0 .. CountSpace - 1]
  /\ report \in [packet_count : 0 .. CountSpace - 1, octet_count : 0 .. CountSpace - 1]
  /\ sent \in 0 .. MaxSent
  /\ reported \in 0 .. sent
  /\ steered \in BOOLEAN

\* The sequence number in the header extension, with its cycles, and the
\* packet count of the sender reports tell the same number of packets, also
\* after seq, cycle_num and packet_count wrapped.
CountIsExtendedSequence ==
  counters.packet_count = counters.cycle_num * SeqSpace + counters.seq

\* Two sender reports in a row differ by the packets sent in between, modulo
\* the width of the field, so a receiver can tell how many those were.
ReportsDifferByWhatWasSent ==
  [][reported' # reported =>
       (report'.packet_count - report.packet_count) % CountSpace = (reported' - reported) % CountSpace]_vars

\* However the events fall, no subflow is active once it has been detached:
\* it needs a new link before it can join.
ActiveOnlyWhileLinked == subflow.active => subflow.linked

\* A passive subflow claims no rate, so it takes no share of SR_sum.
PassiveHasNoRate == subflow.state = "PASSIVE" => subflow.SR = 0

\* A subflow that the scheduler gives a path to has a rate above 0, as long
\* as only the events of the present scheduler have been fired.
ScheduledHasRate == ~ steered /\ Schedulable(subflow) => subflow.SR > 0
=============================================================================
