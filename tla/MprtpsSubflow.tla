---------------------------- MODULE MprtpsSubflow ----------------------------
(***************************************************************************)
(* A sender subflow (src/plugins/mprtpssubflow.c): the numbering and       *)
(* counting of the packets sent on one path, and the state machine that    *)
(* says whether the path takes part in the scheduling.  Records and        *)
(* operators, so that the sender element can keep many subflows.           *)
(***************************************************************************)
EXTENDS Integers

CONSTANTS
  SeqSpace,    \* 2^16: seq is a guint16
  CycleSpace,  \* 2^16: cycle_num is a guint16
  CountSpace   \* 2^32: packet_count and octet_count, as an SR carries them

ASSUME SubflowAssumption ==
  /\ SeqSpace \in Nat \ {0}
  /\ CycleSpace \in Nat \ {0}
  /\ CountSpace = SeqSpace * CycleSpace

-----------------------------------------------------------------------------
(* The state machine.  A subflow starts in no state at all: the object is  *)
(* zeroed and the first link sets the state.                               *)

States == {"none", "NON_CONGESTED", "CONGESTED", "PASSIVE"}

Events == {"JOINED", "KEEP", "DISTORTION", "DETACHED", "LATE", "BID",
           "CONGESTION", "SETTLED", "DEAD"}

NewSubflow == [active |-> FALSE, linked |-> FALSE, state |-> "none", SR |-> 0]

\* receive_rate is never assigned, so it keeps the 0 of the zeroed object.
receive_rate == 0

Passive(s) == [s EXCEPT !.SR = 0, !.state = "PASSIVE"]

FireNonCongested(s, event, rate) ==
  CASE event = "JOINED"                   -> [s EXCEPT !.active = TRUE, !.SR = rate]
    [] event = "KEEP"                     -> [s EXCEPT !.SR = receive_rate]
    [] event \in {"DISTORTION", "BID"}    -> [s EXCEPT !.SR = rate]
    [] event = "DETACHED"                 -> Passive([s EXCEPT !.active = FALSE, !.linked = FALSE])
    [] event = "LATE"                     -> Passive(s)
    [] event = "CONGESTION"               -> [s EXCEPT !.SR = rate, !.state = "CONGESTED"]
    [] OTHER                              -> s

FireCongested(s, event) ==
  CASE event = "KEEP"     -> [s EXCEPT !.SR = receive_rate]
    [] event = "DETACHED" -> Passive([s EXCEPT !.active = FALSE, !.linked = FALSE])
    [] event = "LATE"     -> Passive(s)
    [] event = "SETTLED"  -> [s EXCEPT !.SR = receive_rate, !.state = "NON_CONGESTED"]
    [] OTHER              -> s

\* Bug: the case of DETACHED does not fall through to that of DEAD.
FirePassiveBreaks(s, event) ==
  CASE event = "DETACHED" -> [s EXCEPT !.linked = FALSE]
    [] event = "DEAD"     -> [s EXCEPT !.active = FALSE, !.SR = 0]
    [] event = "SETTLED"  -> [s EXCEPT !.state = "NON_CONGESTED"]
    [] OTHER              -> s

FirePassive(s, event) ==
  CASE event = "DETACHED" -> [s EXCEPT !.linked = FALSE, !.active = FALSE, !.SR = 0]
    [] event = "DEAD"     -> [s EXCEPT !.active = FALSE, !.SR = 0]
    [] event = "SETTLED"  -> [s EXCEPT !.state = "NON_CONGESTED"]
    [] OTHER              -> s

\* mprtps_subflow_FSM_fire
Fire(s, event, rate) ==
  CASE s.state = "NON_CONGESTED" -> FireNonCongested(s, event, rate)
    [] s.state = "CONGESTED"     -> FireCongested(s, event)
    [] s.state = "PASSIVE"       -> FirePassive(s, event)
    [] OTHER                     -> s

\* Bugs: the subflow joins without its event, or the state is forgotten.
LinkJoins(s) == [s EXCEPT !.linked = TRUE, !.active = TRUE, !.state = "NON_CONGESTED"]
LinkWithoutState(s) == [s EXCEPT !.linked = TRUE]

\* What gst_mprtpsender_src_link assigns, whatever the state was.
Link(s) == [s EXCEPT !.linked = TRUE, !.state = "NON_CONGESTED"]

\* What the scheduler asks of a subflow before it gives it a path.
Schedulable(s) == s.active /\ s.state # "PASSIVE"

-----------------------------------------------------------------------------
(* Numbering.                                                              *)

NewCounters == [seq |-> 0, cycle_num |-> 0, packet_count |-> 0, octet_count |-> 0]

\* Bug: the wrap of seq is not noticed.
ProcessNoCycle(c, len) ==
  [c EXCEPT !.seq = (@ + 1) % SeqSpace, !.packet_count = (@ + 1) % CountSpace,
            !.octet_count = (@ + len) % CountSpace]

\* mprtps_subflow_process_rtpbuffer_out: the packet carries the new seq.
ProcessRtpOut(c, len) ==
  LET seq == (c.seq + 1) % SeqSpace
  IN  [seq          |-> seq,
       cycle_num    |-> IF seq = 0 THEN (c.cycle_num + 1) % CycleSpace ELSE c.cycle_num,
       packet_count |-> (c.packet_count + 1) % CountSpace,
       octet_count  |-> (c.octet_count + len) % CountSpace]

\* Bug: the two counts are swapped.
SwappedBlock(c) == [packet_count |-> c.octet_count, octet_count |-> c.packet_count]

\* mprtps_subflow_setup_sr_riport: the sender block of the SR.
SenderBlock(c) == [packet_count |-> c.packet_count, octet_count |-> c.octet_count]
=============================================================================
