------------------------- MODULE MprtpsSubflowProofs -------------------------
(***************************************************************************)
(* Proofs about one sender subflow, for every width of the counters and    *)
(* every number of packets: first what the operators of MprtpsSubflow      *)
(* return for one event, one link and one packet, then what that makes of  *)
(* a behaviour.                                                            *)
(***************************************************************************)
EXTENDS MprtpsSubflowSpec, TLAPS

SubflowRecord == [active : BOOLEAN, linked : BOOLEAN, state : States, SR : Nat]

\* The space of packet_count is not empty and holds every extended sequence
\* number.
LEMMA SpacesArePositive == CountSpace \in Nat \ {0}
  BY SubflowAssumption DEF SubflowAssumption

\* Firing an event keeps a subflow record well formed.
LEMMA FireType ==
  ASSUME NEW s \in SubflowRecord, NEW event \in Events, NEW rate \in Nat
  PROVE  Fire(s, event, rate) \in SubflowRecord
<1>1. Passive(s) \in SubflowRecord
  BY DEF Passive, SubflowRecord, States
<1>2. Passive([s EXCEPT !.active = FALSE, !.linked = FALSE]) \in SubflowRecord
  BY DEF Passive, SubflowRecord, States
<1>3. FireNonCongested(s, event, rate) \in SubflowRecord
  BY <1>1, <1>2 DEF FireNonCongested, SubflowRecord, States, receive_rate, Events
<1>4. FireCongested(s, event) \in SubflowRecord
  BY <1>1, <1>2 DEF FireCongested, SubflowRecord, States, receive_rate, Events
<1>5. FirePassive(s, event) \in SubflowRecord
  BY DEF FirePassive, SubflowRecord, States
<1>. QED
  BY <1>3, <1>4, <1>5 DEF Fire, SubflowRecord, States

\* Linking does too.
LEMMA LinkType ==
  ASSUME NEW s \in SubflowRecord
  PROVE  Link(s) \in SubflowRecord
  BY DEF Link, SubflowRecord, States

CounterRecord ==
  [seq : 0 .. SeqSpace - 1, cycle_num : 0 .. CycleSpace - 1,
   packet_count : 0 .. CountSpace - 1, octet_count : 0 .. CountSpace - 1]

\* A number reduced to a space lies in it.
LEMMA InSpace ==
  ASSUME NEW n \in Nat, NEW space \in Nat \ {0}
  PROVE  n % space \in 0 .. space - 1
  OBVIOUS

\* Adding one to a number of a space wraps at its end and nowhere else.
LEMMA StepInSpace ==
  ASSUME NEW space \in Nat \ {0}, NEW n \in 0 .. space - 1
  PROVE  (n + 1) % space = IF n = space - 1 THEN 0 ELSE n + 1
<1>1. CASE n = space - 1
  BY <1>1
<1>2. CASE n # space - 1
  BY <1>2
<1>. QED
  BY <1>1, <1>2

\* A packet leaves the counters in their widths.
LEMMA ProcessType ==
  ASSUME NEW c \in CounterRecord, NEW len \in Nat
  PROVE  ProcessRtpOut(c, len) \in CounterRecord
<1>. DEFINE seq == (c.seq + 1) % SeqSpace
            cycle == IF seq = 0 THEN (c.cycle_num + 1) % CycleSpace ELSE c.cycle_num
<1>1. SeqSpace \in Nat \ {0} /\ CycleSpace \in Nat \ {0} /\ CountSpace \in Nat \ {0}
  BY SpacesArePositive, SubflowAssumption DEF SubflowAssumption
<1>2. c.seq \in Nat /\ c.cycle_num \in Nat /\ c.packet_count \in Nat /\ c.octet_count \in Nat
  BY <1>1 DEF CounterRecord
<1>. DEFINE nextSeq == c.seq + 1
            nextCycle == c.cycle_num + 1
            nextCount == c.packet_count + 1
            nextOctets == c.octet_count + len
<1>0. nextSeq \in Nat /\ nextCycle \in Nat /\ nextCount \in Nat /\ nextOctets \in Nat
  BY <1>2
<1>. HIDE DEF nextSeq, nextCycle, nextCount, nextOctets
<1>3. nextSeq % SeqSpace \in 0 .. SeqSpace - 1
  BY <1>0, <1>1, InSpace
<1>4. nextCycle % CycleSpace \in 0 .. CycleSpace - 1
  BY <1>0, <1>1, InSpace
<1>5. cycle \in 0 .. CycleSpace - 1
  BY <1>4 DEF CounterRecord, nextCycle
<1>6. nextCount % CountSpace \in 0 .. CountSpace - 1
  BY <1>0, <1>1, InSpace
<1>7. nextOctets % CountSpace \in 0 .. CountSpace - 1
  BY <1>0, <1>1, InSpace
<1>. QED
  BY <1>3, <1>5, <1>6, <1>7 DEF ProcessRtpOut, CounterRecord, nextSeq, nextCycle, nextCount, nextOctets

Agree(c) == c.packet_count = c.cycle_num * SeqSpace + c.seq

\* The heart of the numbering: seq, cycle_num and packet_count step
\* together, through the wrap of seq and through that of all three.
LEMMA ProcessAgrees ==
  ASSUME NEW c \in CounterRecord, NEW len \in Nat, Agree(c)
  PROVE  Agree(ProcessRtpOut(c, len))
<1>. DEFINE d == ProcessRtpOut(c, len)
<1>1. SeqSpace \in Nat \ {0} /\ CycleSpace \in Nat \ {0} /\ CountSpace \in Nat \ {0}
  BY SpacesArePositive, SubflowAssumption DEF SubflowAssumption
<1>0. CountSpace = SeqSpace * CycleSpace
  BY SubflowAssumption DEF SubflowAssumption
<1>. DEFINE base == c.cycle_num * SeqSpace
<1>2. c.seq \in 0 .. SeqSpace - 1 /\ c.cycle_num \in 0 .. CycleSpace - 1
      /\ c.packet_count \in 0 .. CountSpace - 1
  BY DEF CounterRecord
<1>3. d.seq = IF c.seq = SeqSpace - 1 THEN 0 ELSE c.seq + 1
  BY <1>1, <1>2, StepInSpace DEF ProcessRtpOut
<1>4. d.cycle_num = IF d.seq = 0 THEN (c.cycle_num + 1) % CycleSpace ELSE c.cycle_num
  BY DEF ProcessRtpOut
<1>5. (c.cycle_num + 1) % CycleSpace = IF c.cycle_num = CycleSpace - 1 THEN 0 ELSE c.cycle_num + 1
  BY <1>1, <1>2, StepInSpace
<1>6. d.packet_count = IF c.packet_count = CountSpace - 1 THEN 0 ELSE c.packet_count + 1
  BY <1>1, <1>2, StepInSpace DEF ProcessRtpOut
<1>. base \in Nat
  BY <1>1, <1>2
<1>7. CASE c.seq # SeqSpace - 1
  <2>1. d.seq = c.seq + 1 /\ d.cycle_num = c.cycle_num
    BY <1>1, <1>2, <1>3, <1>4, <1>7
  <2>2. base <= (CycleSpace - 1) * SeqSpace
    BY <1>1, <1>2
  <2>3. (CycleSpace - 1) * SeqSpace = CountSpace - SeqSpace
    BY <1>0, <1>1
  <2>. HIDE DEF base
  <2>4. c.packet_count = base + c.seq
    BY DEF Agree, base
  <2>5. c.packet_count # CountSpace - 1
    BY <1>1, <1>2, <1>7, <2>2, <2>3, <2>4
  <2>6. d.packet_count = base + d.seq
    BY <1>1, <1>2, <1>6, <2>1, <2>4, <2>5
  <2>. QED
    BY <2>1, <2>6 DEF Agree, base
<1>8. CASE c.seq = SeqSpace - 1 /\ c.cycle_num # CycleSpace - 1
  <2>1. d.seq = 0 /\ d.cycle_num = c.cycle_num + 1
    BY <1>3, <1>4, <1>5, <1>8
  <2>2. base <= (CycleSpace - 2) * SeqSpace
    BY <1>1, <1>2, <1>8
  <2>3. (CycleSpace - 2) * SeqSpace = CountSpace - 2 * SeqSpace
    BY <1>0, <1>1
  <2>4. (c.cycle_num + 1) * SeqSpace = base + SeqSpace
    BY <1>1, <1>2
  <2>. HIDE DEF base
  <2>5. c.packet_count = base + SeqSpace - 1
    BY <1>1, <1>8 DEF Agree, base
  <2>6. c.packet_count # CountSpace - 1
    BY <1>1, <2>2, <2>3, <2>5
  <2>7. d.packet_count = base + SeqSpace
    BY <1>1, <1>2, <1>6, <2>5, <2>6
  <2>. QED
    BY <1>1, <2>1, <2>4, <2>7 DEF Agree
<1>9. CASE c.seq = SeqSpace - 1 /\ c.cycle_num = CycleSpace - 1
  <2>1. d.seq = 0 /\ d.cycle_num = 0
    BY <1>3, <1>4, <1>5, <1>9
  <2>2. (CycleSpace - 1) * SeqSpace = CountSpace - SeqSpace
    BY <1>0, <1>1
  <2>3. c.packet_count = (CycleSpace - 1) * SeqSpace + (SeqSpace - 1)
    BY <1>9 DEF Agree
  <2>4. c.packet_count = CountSpace - 1
    BY <1>1, <2>2, <2>3
  <2>5. d.packet_count = 0
    BY <1>6, <2>4
  <2>. QED
    BY <1>1, <2>1, <2>5 DEF Agree
<1>. QED
  BY <1>7, <1>8, <1>9
-----------------------------------------------------------------------------

\* A number has one remainder.
LEMMA ModUnique ==
  ASSUME NEW space \in Nat \ {0}, NEW n \in Int, NEW q \in Int, NEW r \in 0 .. space - 1,
         n = q * space + r
  PROVE  n % space = r
<1>. DEFINE p == n \div space
            s == n % space
<1>1. p \in Int /\ s \in 0 .. space - 1 /\ n = p * space + s
  OBVIOUS
<1>. HIDE DEF p, s
<1>2. (q - p) * space = s - r
  BY <1>1
<1>3. s - r < space /\ r - s < space
  BY <1>1
<1>4. CASE q > p
  <2>1. (q - p) * space >= space
    BY <1>1, <1>4
  <2>. QED
    BY <1>1, <1>2, <1>3, <2>1
<1>5. CASE q < p
  <2>1. (p - q) * space >= space
    BY <1>1, <1>5
  <2>2. (p - q) * space = r - s
    BY <1>1, <1>2
  <2>. QED
    BY <1>1, <1>3, <2>1, <2>2
<1>6. CASE q = p
  <2>1. q * space = p * space
    BY <1>6
  <2>2. r = s
    BY <1>1, <2>1
  <2>. QED
    BY <2>2 DEF s
<1>. QED
  BY <1>1, <1>4, <1>5, <1>6

\* Whole spaces do not count.
LEMMA ModShift ==
  ASSUME NEW space \in Nat \ {0}, NEW n \in Int, NEW k \in Int
  PROVE  (n + k * space) % space = n % space
<1>. DEFINE p == n \div space
            s == n % space
<1>1. p \in Int /\ s \in 0 .. space - 1 /\ n = p * space + s
  OBVIOUS
<1>. HIDE DEF p, s
<1>2. n + k * space = (p + k) * space + s /\ p + k \in Int /\ n + k * space \in Int
  BY <1>1
<1>3. (n + k * space) % space = s
  BY <1>1, <1>2, ModUnique
<1>. QED
  BY <1>3 DEF s

\* A counter that is cut to a space goes on like one that is not.
LEMMA ModStep ==
  ASSUME NEW space \in Nat \ {0}, NEW n \in Nat
  PROVE  ((n % space) + 1) % space = (n + 1) % space
<1>. DEFINE p == n \div space
            s == n % space
<1>1. p \in Int /\ s \in Int /\ n = p * space + s
  OBVIOUS
<1>. HIDE DEF p, s
<1>2. n + 1 = (s + 1) + p * space /\ s + 1 \in Int
  BY <1>1
<1>3. (n + 1) % space = (s + 1) % space
  BY <1>1, <1>2, ModShift
<1>. QED
  BY <1>3 DEF s

\* The difference of two numbers is that of their remainders.
LEMMA ModDifference ==
  ASSUME NEW space \in Nat \ {0}, NEW a \in Nat, NEW b \in Nat
  PROVE  ((a % space) - (b % space)) % space = (a - b) % space
<1>. DEFINE p == a \div space
            q == b \div space
            x == a % space
            y == b % space
<1>1. /\ p \in Int /\ q \in Int /\ x \in Int /\ y \in Int
      /\ a = p * space + x /\ b = q * space + y
  OBVIOUS
<1>. HIDE DEF p, q, x, y
<1>2. a - b = (x - y) + (p - q) * space /\ x - y \in Int /\ p - q \in Int
  BY <1>1
<1>3. (a - b) % space = (x - y) % space
  BY <1>2, ModShift
<1>. QED
  BY <1>3 DEF x, y

-----------------------------------------------------------------------------
\* TypeOK of MprtpsSubflowSpec: the counters of the C structure never leave
\* their widths and the state is one the switch of FSM_fire knows.
THEOREM TypeCorrect == Spec => []TypeOK
<1>. USE DEF SubflowRecord, CounterRecord
<1>0. CountSpace \in Nat \ {0} /\ SeqSpace \in Nat \ {0} /\ CycleSpace \in Nat \ {0}
  BY SpacesArePositive, SubflowAssumption DEF SubflowAssumption
<1>1. ASSUME Init PROVE TypeOK
  <2>1. subflow \in SubflowRecord
    BY <1>1 DEF Init, NewSubflow, States
  <2>2. /\ counters \in CounterRecord
        /\ report \in [packet_count : 0 .. CountSpace - 1, octet_count : 0 .. CountSpace - 1]
    BY <1>0, <1>1 DEF Init, NewCounters, SenderBlock
  <2>3. sent \in 0 .. MaxSent /\ reported \in 0 .. sent
    BY <1>1, SubflowSpecAssumption DEF Init, SubflowSpecAssumption
  <2>4. steered \in BOOLEAN
    BY <1>1 DEF Init
  <2>. QED
    BY <2>1, <2>2, <2>3, <2>4 DEF TypeOK
<1>2. TypeOK /\ [Next]_vars => TypeOK'
  <2>. SUFFICES ASSUME TypeOK, [Next]_vars PROVE TypeOK'
    OBVIOUS
  <2>1. ASSUME NEW event \in Fired, NEW rate \in Rates, FireEvent(event, rate)
        PROVE  TypeOK'
    <3>1. event \in Events /\ rate \in Nat
      BY SubflowSpecAssumption DEF SubflowSpecAssumption
    <3>2. Fire(subflow, event, rate) \in SubflowRecord
      BY <3>1, FireType DEF TypeOK
    <3>. QED
      BY <2>1, <3>2 DEF FireEvent, TypeOK
  <2>2. CASE LinkPad
    BY <2>2, LinkType DEF LinkPad, TypeOK
  <2>3. ASSUME NEW len \in Lengths, SendPacket(len)
        PROVE  TypeOK'
    <3>1. ProcessRtpOut(counters, len) \in CounterRecord
      BY SubflowSpecAssumption, ProcessType DEF SubflowSpecAssumption, TypeOK
    <3>2. sent' \in 0 .. MaxSent /\ reported' \in 0 .. sent'
      BY <2>3, SubflowSpecAssumption DEF SubflowSpecAssumption, SendPacket, TypeOK
    <3>. QED
      BY <2>3, <3>1, <3>2 DEF SendPacket, TypeOK
  <2>4. CASE SetupSrRiport
    BY <2>4, SubflowSpecAssumption DEF SetupSrRiport, SenderBlock, TypeOK, SubflowSpecAssumption
  <2>5. CASE UNCHANGED vars
    BY <2>5 DEF vars, TypeOK
  <2>. QED
    BY <2>1, <2>2, <2>3, <2>4, <2>5 DEF Next
<1>. QED
  BY <1>1, <1>2, PTL DEF Spec

\* The sequence number that process_rtpbuffer_out writes into the header
\* extension and the packet count that setup_sr_riport reports always tell
\* the same number of packets, through every wrap of the three counters.
THEOREM NumberingAgrees == Spec => []CountIsExtendedSequence
<1>0. CountIsExtendedSequence <=> Agree(counters)
  BY DEF CountIsExtendedSequence, Agree
<1>1. Init => CountIsExtendedSequence
  BY SubflowAssumption DEF Init, NewCounters, CountIsExtendedSequence, SubflowAssumption
<1>2. TypeOK /\ CountIsExtendedSequence /\ [Next]_vars => CountIsExtendedSequence'
  <2>. SUFFICES ASSUME TypeOK, CountIsExtendedSequence, [Next]_vars
                PROVE  CountIsExtendedSequence'
    OBVIOUS
  <2>1. ASSUME NEW len \in Lengths, SendPacket(len)
        PROVE  CountIsExtendedSequence'
    <3>1. counters \in CounterRecord /\ len \in Nat
      BY SubflowSpecAssumption DEF TypeOK, CounterRecord, SubflowSpecAssumption
    <3>2. Agree(ProcessRtpOut(counters, len))
      BY <1>0, <3>1, ProcessAgrees
    <3>. QED
      BY <2>1, <3>2 DEF SendPacket, Agree, CountIsExtendedSequence
  <2>2. CASE UNCHANGED counters
    BY <2>2 DEF CountIsExtendedSequence
  <2>. QED
    BY <2>1, <2>2 DEF Next, vars, FireEvent, LinkPad, SetupSrRiport
<1>. QED
  BY <1>1, <1>2, TypeCorrect, PTL DEF Spec

\* Whatever events FSM_fire gets, in any order, a subflow is active only
\* while it is linked: DETACHED clears both flags in every state.
THEOREM DetachedIsInactive == Spec => []ActiveOnlyWhileLinked
<1>1. Init => ActiveOnlyWhileLinked
  BY DEF Init, NewSubflow, ActiveOnlyWhileLinked
<1>2. TypeOK /\ ActiveOnlyWhileLinked /\ [Next]_vars => ActiveOnlyWhileLinked'
  <2>. SUFFICES ASSUME TypeOK, ActiveOnlyWhileLinked, [Next]_vars
                PROVE  ActiveOnlyWhileLinked'
    OBVIOUS
  <2>. USE DEF TypeOK, ActiveOnlyWhileLinked
  <2>1. ASSUME NEW event \in Fired, NEW rate \in Rates, FireEvent(event, rate)
        PROVE  ActiveOnlyWhileLinked'
    <3>1. CASE subflow.state = "NON_CONGESTED"
      BY <2>1, <3>1 DEF FireEvent, Fire, FireNonCongested, Passive, receive_rate
    <3>2. CASE subflow.state = "CONGESTED"
      BY <2>1, <3>2 DEF FireEvent, Fire, FireCongested, Passive, receive_rate
    <3>3. CASE subflow.state = "PASSIVE"
      BY <2>1, <3>3 DEF FireEvent, Fire, FirePassive
    <3>4. CASE subflow.state = "none"
      BY <2>1, <3>4 DEF FireEvent, Fire
    <3>. QED
      BY <3>1, <3>2, <3>3, <3>4 DEF States
  <2>2. CASE LinkPad
    BY <2>2 DEF LinkPad, Link
  <2>3. CASE UNCHANGED subflow
    BY <2>3
  <2>. QED
    BY <2>1, <2>2, <2>3 DEF Next, vars, SendPacket, SetupSrRiport
<1>. QED
  BY <1>1, <1>2, TypeCorrect, PTL DEF Spec

\* Whatever events FSM_fire gets, a passive subflow has given up its rate: all
\* ways into PASSIVE clear it, and no event of that state brings a new one.
THEOREM PassiveIsRateless == Spec => []PassiveHasNoRate
<1>1. Init => PassiveHasNoRate
  BY DEF Init, NewSubflow, PassiveHasNoRate
<1>2. TypeOK /\ PassiveHasNoRate /\ [Next]_vars => PassiveHasNoRate'
  <2>. SUFFICES ASSUME TypeOK, PassiveHasNoRate, [Next]_vars
                PROVE  PassiveHasNoRate'
    OBVIOUS
  <2>. USE DEF TypeOK, PassiveHasNoRate
  <2>1. ASSUME NEW event \in Fired, NEW rate \in Rates, FireEvent(event, rate)
        PROVE  PassiveHasNoRate'
    <3>1. CASE subflow.state = "NON_CONGESTED"
      BY <2>1, <3>1 DEF FireEvent, Fire, FireNonCongested, Passive
    <3>2. CASE subflow.state = "CONGESTED"
      BY <2>1, <3>2 DEF FireEvent, Fire, FireCongested, Passive
    <3>3. CASE subflow.state = "PASSIVE"
      BY <2>1, <3>3 DEF FireEvent, Fire, FirePassive
    <3>4. CASE subflow.state = "none"
      BY <2>1, <3>4 DEF FireEvent, Fire
    <3>. QED
      BY <3>1, <3>2, <3>3, <3>4 DEF States
  <2>2. CASE LinkPad
    BY <2>2 DEF LinkPad, Link
  <2>3. CASE UNCHANGED subflow
    BY <2>3
  <2>. QED
    BY <2>1, <2>2, <2>3 DEF Next, vars, SendPacket, SetupSrRiport
<1>. QED
  BY <1>1, <1>2, TypeCorrect, PTL DEF Spec

\* With the two events of the present scheduler, a subflow that gets a path
\* has a rate above 0: JOINED brings one, and only DETACHED takes it away.
THEOREM ScheduledIsRated == Spec => []ScheduledHasRate
<1>. DEFINE Inv == /\ ScheduledHasRate
                   /\ ~ steered /\ subflow.active => subflow.state # "PASSIVE"
<1>1. Init => Inv
  BY DEF Init, NewSubflow, ScheduledHasRate, Schedulable
<1>2. TypeOK /\ Inv /\ [Next]_vars => Inv'
  <2>. SUFFICES ASSUME TypeOK, Inv, [Next]_vars PROVE Inv'
    OBVIOUS
  <2>. USE DEF TypeOK, ScheduledHasRate, Schedulable
  <2>1. ASSUME NEW event \in Fired, NEW rate \in Rates, FireEvent(event, rate)
        PROVE  Inv'
    <3>0. rate \in Nat /\ rate > 0
      BY SubflowSpecAssumption DEF SubflowSpecAssumption
    <3>1. CASE event \notin LiveEvents
      <4>1. steered' = TRUE
        BY <2>1, <3>1 DEF FireEvent
      <4>. QED
        BY <4>1
    <3>2. CASE event = "JOINED"
      BY <2>1, <3>0, <3>2 DEF FireEvent, LiveEvents, Fire, FireNonCongested, FireCongested, FirePassive
    <3>3. CASE event = "DETACHED"
      BY <2>1, <3>3 DEF FireEvent, Fire, FireNonCongested, FireCongested, FirePassive, Passive, LiveEvents
    <3>. QED
      BY <3>1, <3>2, <3>3 DEF LiveEvents
  <2>2. CASE LinkPad
    BY <2>2 DEF LinkPad, Link
  <2>3. CASE UNCHANGED <<subflow, steered>>
    BY <2>3
  <2>. QED
    BY <2>1, <2>2, <2>3 DEF Next, vars, SendPacket, SetupSrRiport
<1>. QED
  BY <1>1, <1>2, TypeCorrect, PTL DEF Spec

\* The packet count of a sender subflow and that of its last sender report are
\* the packets sent and those sent when it was made, cut to a word.
CountsAreSent ==
  /\ counters.packet_count = sent % CountSpace
  /\ report.packet_count = reported % CountSpace

LEMMA CountsKept == Spec => []CountsAreSent
<1>0. CountSpace \in Nat \ {0}
  BY SpacesArePositive
<1>1. Init => CountsAreSent
  <2>1. 0 % CountSpace = 0
    BY <1>0
  <2>. QED
    BY <2>1 DEF Init, NewCounters, SenderBlock, CountsAreSent
<1>2. TypeOK /\ CountsAreSent /\ [Next]_vars => CountsAreSent'
  <2>. SUFFICES ASSUME TypeOK, CountsAreSent, [Next]_vars
                PROVE  CountsAreSent'
    OBVIOUS
  <2>1. ASSUME NEW len \in Lengths, SendPacket(len)
        PROVE  CountsAreSent'
    <3>1. sent \in Nat
      BY SubflowSpecAssumption DEF TypeOK, SubflowSpecAssumption
    <3>2. counters'.packet_count = (counters.packet_count + 1) % CountSpace
      BY <2>1 DEF SendPacket, ProcessRtpOut
    <3>3. counters'.packet_count = (sent + 1) % CountSpace
      BY <1>0, <3>1, <3>2, ModStep DEF CountsAreSent
    <3>. QED
      BY <2>1, <3>3 DEF SendPacket, CountsAreSent
  <2>2. CASE SetupSrRiport
    BY <2>2 DEF SetupSrRiport, SenderBlock, CountsAreSent
  <2>3. CASE UNCHANGED <<counters, report, sent, reported>>
    BY <2>3 DEF CountsAreSent
  <2>. QED
    BY <2>1, <2>2, <2>3 DEF Next, vars, FireEvent, LinkPad
<1>. QED
  BY <1>1, <1>2, TypeCorrect, PTL DEF Spec

\* The packet counts that setup_sr_riport writes into two reports in a row
\* differ by the packets that process_rtpbuffer_out saw in between, modulo the
\* width of the field, however often the count has wrapped.
THEOREM ReportsTellPackets == Spec => ReportsDifferByWhatWasSent
<1>. DEFINE Differ == reported' # reported =>
              (report'.packet_count - report.packet_count) % CountSpace
                = (reported' - reported) % CountSpace
<1>1. TypeOK /\ CountsAreSent /\ CountsAreSent' /\ TypeOK' => Differ
  <2>. SUFFICES ASSUME TypeOK, CountsAreSent, CountsAreSent', TypeOK'
                PROVE  (report'.packet_count - report.packet_count) % CountSpace
                         = (reported' - reported) % CountSpace
    OBVIOUS
  <2>1. reported \in Nat /\ reported' \in Nat
    BY SubflowSpecAssumption DEF TypeOK, SubflowSpecAssumption
  <2>2. /\ report.packet_count = reported % CountSpace
        /\ report'.packet_count = reported' % CountSpace
    BY DEF CountsAreSent
  <2>. QED
    BY <2>1, <2>2, SpacesArePositive, ModDifference
<1>. QED
  BY <1>1, TypeCorrect, CountsKept, PTL DEF ReportsDifferByWhatWasSent
=============================================================================
