---------------------------- MODULE SkewRingProofs ----------------------------
(***************************************************************************)
(* SkewRing for a ring of any size and words of any width: what lies       *)
(* between the indices arrived since the last report, in that order; a     *)
(* report is the median of what is young; so the ring implements the       *)
(* window of the latest skews, step by step.                               *)
(***************************************************************************)
EXTENDS SkewRing, FiniteSetTheorems, SequenceTheorems, TLAPS

IInv ==
  /\ TypeOK
  /\ last_reception_time <= now
  /\ ~ seq_initialized => ~ arrived /\ last_reception_time = 0
  /\ last_RTP_timestamp = sent % Word
  /\ HeldInOrderOfArrival
  /\ FullIsNotEmpty

-----------------------------------------------------------------------------
\* Differences of words are words.
LEMMA WordTyped ==
  ASSUME NEW x \in Int
  PROVE  x % Word \in Skew
BY SkewRingAssumption DEF Skew

\* A number has one remainder.
LEMMA ModUnique ==
  ASSUME NEW space \in Nat \ {0}, NEW n \in Int, NEW q \in Int, NEW r \in 0 .. space - 1,
         n = q * space + r
  PROVE  n % space = r
<1>. DEFINE p == n \div space
            s == n % space
<1>1. p \in Int /\ s \in 0 .. space - 1 /\ n = p * space + s
  OBVIOUS
<1>. HIDE DEF p, s
<1>2. (q - p) * space = s - r
  BY <1>1
<1>3. s - r < space /\ r - s < space
  BY <1>1
<1>4. CASE q > p
  <2>1. (q - p) * space >= space
    BY <1>1, <1>4
  <2>. QED
    BY <1>1, <1>2, <1>3, <2>1
<1>5. CASE q < p
  <2>1. (p - q) * space >= space
    BY <1>1, <1>5
  <2>2. (p - q) * space = r - s
    BY <1>1, <1>2
  <2>. QED
    BY <1>1, <1>3, <2>1, <2>2
<1>6. CASE q = p
  <2>1. q * space = p * space
    BY <1>6
  <2>2. r = s
    BY <1>1, <2>1
  <2>. QED
    BY <2>2 DEF s
<1>. QED
  BY <1>1, <1>4, <1>5, <1>6

\* Whole spaces do not count.
LEMMA ModShift ==
  ASSUME NEW space \in Nat \ {0}, NEW n \in Int, NEW k \in Int
  PROVE  (n + k * space) % space = n % space
<1>. DEFINE p == n \div space
            s == n % space
<1>1. p \in Int /\ s \in 0 .. space - 1 /\ n = p * space + s
  OBVIOUS
<1>. HIDE DEF p, s
<1>2. n + k * space = (p + k) * space + s /\ p + k \in Int /\ n + k * space \in Int
  BY <1>1
<1>3. (n + k * space) % space = s
  BY <1>1, <1>2, ModUnique
<1>. QED
  BY <1>3 DEF s

\* The difference of two numbers is that of their remainders.
LEMMA ModDifference ==
  ASSUME NEW space \in Nat \ {0}, NEW a \in Int, NEW b \in Int
  PROVE  ((a % space) - (b % space)) % space = (a - b) % space
<1>. DEFINE p == a \div space
            q == b \div space
            x == a % space
            y == b % space
<1>1. /\ p \in Int /\ q \in Int /\ x \in Int /\ y \in Int
      /\ a = p * space + x /\ b = q * space + y
  OBVIOUS
<1>. HIDE DEF p, q, x, y
<1>2. a - b = (x - y) + (p - q) * space /\ x - y \in Int /\ p - q \in Int
  BY <1>1
<1>3. (a - b) % space = (x - y) % space
  BY <1>2, ModShift
<1>. QED
  BY <1>3 DEF x, y

\* The next slot is a slot, and never the slot itself.
LEMMA AdvanceTyped ==
  ASSUME NEW i \in Slot
  PROVE  Advance(i) \in Slot /\ Advance(i) # i
BY SkewRingAssumption DEF Slot, Advance

\* Held counts slots, and SlotOf finds them.
LEMMA HeldTyped ==
  ASSUME TypeOK
  PROVE  /\ Held \in Slot
         /\ Held = 0 <=> skews_read_index = skews_write_index
         /\ \A k \in 1..Held : SlotOf(k) \in Slot /\ SlotOf(k) # skews_write_index
<1>1. /\ skews_read_index \in Int /\ skews_write_index \in Int /\ Slots \in Int
      /\ 0 <= skews_read_index /\ skews_read_index < Slots
      /\ 0 <= skews_write_index /\ skews_write_index < Slots
  BY SkewRingAssumption DEF TypeOK, Slot
<1>2. CASE skews_write_index - skews_read_index >= 0
  <2>1. Held = skews_write_index - skews_read_index
    BY <1>2 DEF Held
  <2>. QED
    BY <1>1, <1>2, <2>1 DEF SlotOf, Slot
<1>3. CASE ~ (skews_write_index - skews_read_index >= 0)
  <2>1. Held = skews_write_index - skews_read_index + Slots
    BY <1>3 DEF Held
  <2>. QED
    BY <1>1, <1>3, <2>1 DEF SlotOf, Slot
<1>. QED
  BY <1>2, <1>3

\* The arithmetic of a write that does not meet the oldest skew: the indices
\* are r and w, n is the size, w1 the new write index.
LEMMA WriteApart ==
  ASSUME NEW n \in Nat, n > 1, NEW r \in 0 .. n - 1, NEW w \in 0 .. n - 1,
         NEW w1 \in Int, w1 = (IF w + 1 = n THEN 0 ELSE w + 1), w1 # r,
         NEW h \in Int, h = (IF w - r >= 0 THEN w - r ELSE w - r + n),
         NEW h1 \in Int, h1 = (IF w1 - r >= 0 THEN w1 - r ELSE w1 - r + n)
  PROVE  /\ h1 = h + 1
         /\ w = (IF r + h1 - 1 < n THEN r + h1 - 1 ELSE r + h1 - 1 - n)
<1>1. CASE w + 1 = n
  BY <1>1
<1>2. CASE w + 1 # n
  BY <1>2
<1>. QED
  BY <1>1, <1>2

\* ... and of one that does: the read index r1 is pushed on.
LEMMA WriteOver ==
  ASSUME NEW n \in Nat, n > 1, NEW r \in 0 .. n - 1, NEW w \in 0 .. n - 1,
         r = (IF w + 1 = n THEN 0 ELSE w + 1),
         NEW r1 \in Int, r1 = (IF r + 1 = n THEN 0 ELSE r + 1),
         NEW h \in Int, h = (IF w - r >= 0 THEN w - r ELSE w - r + n),
         NEW h1 \in Int, h1 = (IF r - r1 >= 0 THEN r - r1 ELSE r - r1 + n)
  PROVE  /\ h1 = h /\ h = n - 1
         /\ w = (IF r1 + h1 - 1 < n THEN r1 + h1 - 1 ELSE r1 + h1 - 1 - n)
         /\ \A k \in 1 .. h - 1 :
              (IF r1 + k - 1 < n THEN r1 + k - 1 ELSE r1 + k - 1 - n)
                = (IF r + (k + 1) - 1 < n THEN r + (k + 1) - 1 ELSE r + (k + 1) - 1 - n)
<1>1. CASE w + 1 = n
  BY <1>1
<1>2. CASE w + 1 # n
  BY <1>2
<1>. QED
  BY <1>1, <1>2

\* Writing one slot keeps the others where they are, or moves them up by one
\* when the oldest is given up; the last one held is the one just written.
LEMMA WriteMoves ==
  ASSUME TypeOK,
         skews_write_index' = Advance(skews_write_index),
         skews_read_index' = PushedReadIndex(skews_write_index')
  PROVE  /\ Held' \in Nat /\ Held' > 0 /\ Held' < Slots
         /\ SlotOf(Held)' = skews_write_index
         /\ \/ /\ Held' = Held + 1
               /\ \A k \in 1..Held : SlotOf(k)' = SlotOf(k)
            \/ /\ Held' = Held /\ Held = Slots - 1
               /\ \A k \in 1 .. Held - 1 : SlotOf(k)' = SlotOf(k + 1)
<1>1. /\ Slots \in Nat /\ Slots > 1
      /\ skews_read_index \in 0 .. Slots - 1 /\ skews_write_index \in 0 .. Slots - 1
  BY SkewRingAssumption DEF TypeOK, Slot
<1>2. Held \in Nat
  BY <1>1 DEF Held
<1> DEFINE r == skews_read_index
           w == skews_write_index
           h == Held
           w1 == skews_write_index'
           r1 == skews_read_index'
           h1 == Held'
<1>3. /\ h = (IF w - r >= 0 THEN w - r ELSE w - r + Slots)
      /\ h1 = (IF w1 - r1 >= 0 THEN w1 - r1 ELSE w1 - r1 + Slots)
      /\ w1 = (IF w + 1 = Slots THEN 0 ELSE w + 1)
      /\ r1 = (IF w1 = r THEN (IF r + 1 = Slots THEN 0 ELSE r + 1) ELSE r)
  BY DEF Held, Advance, PushedReadIndex
<1>4. w1 \in Int /\ r1 \in Int
  BY <1>1, <1>3
<1>5. h1 \in Int
  BY <1>3, <1>4, <1>1
<1>5a. h1 < Slots
  BY <1>1, <1>3
<1>6. \A k \in Int : SlotOf(k) = (IF r + k - 1 < Slots THEN r + k - 1 ELSE r + k - 1 - Slots)
  BY <1>1 DEF SlotOf
<1>7. \A k \in Int : SlotOf(k)' = (IF r1 + k - 1 < Slots THEN r1 + k - 1 ELSE r1 + k - 1 - Slots)
  <2>. TAKE k \in Int
  <2>. QED
    BY <1>1, <1>4 DEF SlotOf
<1>8. SlotOf(Held)' = (IF r1 + h1 - 1 < Slots THEN r1 + h1 - 1 ELSE r1 + h1 - 1 - Slots)
  BY <1>1, <1>4, <1>5 DEF SlotOf
<1>9. CASE w1 # r
  <2>1. r1 = r
    BY <1>3, <1>9
  <2>. HIDE DEF r, w, h, w1, r1, h1
  <2>2. /\ h1 = h + 1
        /\ w = (IF r + h1 - 1 < Slots THEN r + h1 - 1 ELSE r + h1 - 1 - Slots)
    BY <1>1, <1>2, <1>3, <1>4, <1>5, <1>9, <2>1, WriteApart DEF r, w, h
  <2>3. SlotOf(Held)' = w
    BY <1>8, <2>1, <2>2
  <2>4. \A k \in 1..Held : SlotOf(k)' = SlotOf(k)
    BY <1>2, <1>6, <1>7, <2>1 DEF h
  <2>. QED
    BY <1>2, <1>5a, <2>2, <2>3, <2>4 DEF h, h1, w
<1>10. CASE w1 = r
  <2>1. r1 = (IF r + 1 = Slots THEN 0 ELSE r + 1)
    BY <1>3, <1>10
  <2>. HIDE DEF r, w, h, w1, r1, h1
  <2>2. /\ h1 = h /\ h = Slots - 1
        /\ w = (IF r1 + h1 - 1 < Slots THEN r1 + h1 - 1 ELSE r1 + h1 - 1 - Slots)
        /\ \A k \in 1 .. h - 1 :
             (IF r1 + k - 1 < Slots THEN r1 + k - 1 ELSE r1 + k - 1 - Slots)
               = (IF r + (k + 1) - 1 < Slots THEN r + (k + 1) - 1 ELSE r + (k + 1) - 1 - Slots)
    BY <1>1, <1>2, <1>3, <1>4, <1>5, <1>10, <2>1, WriteOver DEF r, w, h
  <2>3. SlotOf(Held)' = w
    BY <1>8, <2>2
  <2>4. \A k \in 1 .. Held - 1 : SlotOf(k)' = SlotOf(k + 1)
    BY <1>2, <1>6, <1>7, <2>2 DEF h
  <2>. QED
    BY <1>1, <1>2, <1>5a, <2>2, <2>3, <2>4 DEF h, h1, w
<1>. QED
  BY <1>9, <1>10

-----------------------------------------------------------------------------
\* The start.
LEMMA InitHolds == Init => IInv
<1> SUFFICES ASSUME Init PROVE IInv
  OBVIOUS
<1>1. 0 \in Slot /\ 0 \in Skew /\ 0 \in Nat /\ now \in Nat
  BY SkewRingAssumption DEF Init, Slot, Skew
<1>2. TypeOK
  BY <1>1 DEF Init, TypeOK
<1>3. Held = 0
  BY DEF Init, Held
<1>4. HeldInOrderOfArrival /\ FullIsNotEmpty
  <2>1. 1..Held = {} /\ (Held > 0) = FALSE
    BY <1>3
  <2>2. HeldInOrderOfArrival
    BY <2>1 DEF HeldInOrderOfArrival
  <2>3. FullIsNotEmpty
    BY <2>1 DEF Init, FullIsNotEmpty
  <2>. QED
    BY <2>2, <2>3
<1>5. last_reception_time <= now
  BY SkewRingAssumption DEF Init
<1>6. last_RTP_timestamp = sent % Word
  BY SkewRingAssumption DEF Init
<1>. QED
  BY <1>2, <1>4, <1>5, <1>6 DEF IInv, Init

LEMMA SkewTyped ==
  ASSUME TypeOK, NEW s \in 0 .. MaxSent
  PROVE  SkewOf(s % Word) \in Skew /\ s % Word \in Skew
<1>1. s \in Int /\ s % Word \in Int
  BY SkewRingAssumption, WordTyped DEF Skew
<1>2. /\ (now - last_reception_time) % Word \in Int
      /\ ((s % Word) - last_RTP_timestamp) % Word \in Int
  BY <1>1, SkewRingAssumption, WordTyped DEF TypeOK, Skew
<1>. QED
  BY <1>1, <1>2, WordTyped DEF SkewOf

\* A packet's skew is the last one held, and the others keep their order.
LEMMA NextPacketHolds ==
  ASSUME IInv, NEW s \in 0 .. MaxSent, NextPacket(s)
  PROVE  IInv'
<1>1. TypeOK /\ last_reception_time <= now /\ HeldInOrderOfArrival
  BY DEF IInv
<1>2. TypeOK' /\ now' = now /\ last_reception_time' = now /\ arrived' = TRUE
  <2>1. SkewOf(s % Word) \in Skew /\ s % Word \in Skew
    BY <1>1, SkewTyped
  <2>2. skews_write_index' \in Slot /\ skews_read_index' \in Slot
    BY <1>1, AdvanceTyped DEF NextPacket, PushedReadIndex, TypeOK
  <2>. QED
    BY <1>1, <2>1, <2>2 DEF NextPacket, TypeOK
<1>3. /\ Held' \in Nat /\ Held' > 0
      /\ SlotOf(Held)' = skews_write_index
      /\ \/ /\ Held' = Held + 1
            /\ \A k \in 1..Held : SlotOf(k)' = SlotOf(k)
         \/ /\ Held' = Held
            /\ \A k \in 1 .. Held - 1 : SlotOf(k)' = SlotOf(k + 1)
  BY <1>1, WriteMoves DEF NextPacket
<1>4. FullIsNotEmpty'
  BY <1>2, <1>3 DEF FullIsNotEmpty
<1>5. /\ reception_times'[SlotOf(Held)'] = now
      /\ \A k \in Nat : k = Held' => reception_times'[SlotOf(k)'] = now
  <2>1. reception_times'[skews_write_index] = now
    BY <1>1 DEF NextPacket, TypeOK
  <2>2. \A k \in Nat : k = Held' => SlotOf(k)' = SlotOf(Held)'
    BY DEF SlotOf
  <2>. QED
    BY <1>3, <2>1, <2>2
<1>6. \A k \in 1..Held : reception_times'[SlotOf(k)] = reception_times[SlotOf(k)]
  BY <1>1, HeldTyped DEF NextPacket, TypeOK
<1>7. \A k \in 1..Held : reception_times[SlotOf(k)] \in Nat
  BY <1>1, HeldTyped DEF TypeOK
<1>8. Held \in Nat /\ now \in Nat /\ last_reception_time \in Nat
  BY <1>1, HeldTyped, SkewRingAssumption DEF Slot, TypeOK
<1> DEFINE time(k) == reception_times[SlotOf(k)]
           time1(k) == reception_times'[SlotOf(k)']
<1>9. \A k \in 1..Held : time(k) <= now
  BY <1>1, <1>7, <1>8 DEF HeldInOrderOfArrival
<1>10. (\A k \in 1..Held' : time1(k) <= now)
       /\ (\A j, k \in 1..Held' : j <= k => time1(j) <= time1(k))
  <2>1. CASE /\ Held' = Held + 1
             /\ \A k \in 1..Held : SlotOf(k)' = SlotOf(k)
    <3>1. \A k \in 1..Held : time1(k) = time(k)
      BY <1>6, <2>1
    <3>2. \A k \in Nat : k = Held' => time1(k) = now
      BY <1>5
    <3>3. \A j, k \in 1..Held : j <= k => time(j) <= time(k)
      BY <1>1 DEF HeldInOrderOfArrival
    <3>. HIDE DEF time, time1
    <3>. QED
      BY <1>8, <1>9, <2>1, <3>1, <3>2, <3>3
  <2>2. CASE /\ Held' = Held
             /\ \A k \in 1 .. Held - 1 : SlotOf(k)' = SlotOf(k + 1)
    <3>1. \A k \in 1 .. Held - 1 : time1(k) = time(k + 1)
      BY <1>6, <1>8, <2>2
    <3>2. \A k \in Nat : k = Held' => time1(k) = now
      BY <1>5
    <3>3. \A j, k \in 1..Held : j <= k => time(j) <= time(k)
      BY <1>1 DEF HeldInOrderOfArrival
    <3>. HIDE DEF time, time1
    <3>. QED
      BY <1>8, <1>9, <2>2, <3>1, <3>2, <3>3
  <2>. QED
    BY <1>3, <2>1, <2>2
<1>11. HeldInOrderOfArrival'
  BY <1>2, <1>5, <1>10 DEF HeldInOrderOfArrival
<1>. QED
  BY <1>1, <1>2, <1>4, <1>8, <1>11 DEF IInv, NextPacket

\* The clock and the first packet leave the ring alone.
LEMMA RingAlone ==
  ASSUME IInv, TypeOK', UNCHANGED <<ring, arrived>>,
         last_reception_time' \in Nat, last_reception_time' <= now',
         \/ last_reception_time' = last_reception_time
         \/ Held = 0,
         ~ seq_initialized' => ~ arrived /\ last_reception_time' = 0,
         last_RTP_timestamp' = sent' % Word
  PROVE  IInv'
<1>1. Held' = Held /\ \A k \in 1..Held : SlotOf(k)' = SlotOf(k)
  BY DEF ring, Held, SlotOf
<1>2. SlotOf(Held)' = SlotOf(Held)
  BY <1>1 DEF ring, SlotOf
<1>3. FullIsNotEmpty'
  BY <1>1 DEF IInv, FullIsNotEmpty
<1>4. HeldInOrderOfArrival'
  <2>1. CASE last_reception_time' = last_reception_time
    BY <1>1, <1>2, <2>1 DEF IInv, HeldInOrderOfArrival, ring
  <2>2. CASE Held = 0
    <3>1. 1..Held' = {} /\ ~ (Held' > 0)
      BY <1>1, <2>2
    <3>. QED
      BY <3>1 DEF HeldInOrderOfArrival
  <2>. QED
    BY <2>1, <2>2
<1>. QED
  BY <1>3, <1>4 DEF IInv, TypeOK

\* A report leaves an empty ring.
LEMMA GetSkewHolds ==
  ASSUME IInv, GetSkew
  PROVE  IInv'
<1>1. skews_write_index' = 0 /\ skews_read_index' = 0 /\ arrived' = FALSE
  BY DEF GetSkew, ResetIndices
<1>2. Held' = 0
  BY <1>1 DEF Held
<1>3. 1..Held' = {} /\ (Held' > 0) = FALSE
  BY <1>2
<1>4. HeldInOrderOfArrival' /\ FullIsNotEmpty'
  BY <1>1, <1>3 DEF HeldInOrderOfArrival, FullIsNotEmpty
<1>5. TypeOK'
  <2>1. 0 \in Slot
    BY SkewRingAssumption DEF Slot
  <2>. QED
    BY <1>1, <2>1 DEF IInv, TypeOK, GetSkew, last
<1>. QED
  BY <1>1, <1>4, <1>5 DEF IInv, GetSkew, last

-----------------------------------------------------------------------------
\* Every step keeps the invariant.
LEMMA NextHolds == IInv /\ [Next]_vars => IInv'
<1> SUFFICES ASSUME IInv, [Next]_vars PROVE IInv'
  OBVIOUS
<1>1. ASSUME Tick PROVE IInv'
  <2>1. TypeOK' /\ last_reception_time' = last_reception_time
    BY <1>1 DEF Tick, IInv, TypeOK, last, ring
  <2>. QED
    BY <1>1, <2>1, RingAlone DEF Tick, IInv, TypeOK, last
<1>2. ASSUME NEW s \in 0 .. MaxSent, FirstPacket(s) PROVE IInv'
  <2>1. s \in Nat /\ s % Word \in Skew
    BY SkewRingAssumption, WordTyped
  <2>2. TypeOK'
    BY <1>2, <2>1 DEF FirstPacket, IInv, TypeOK, ring
  <2>3. Held = 0
    <3>1. ~ arrived /\ Held \in Nat
      BY <1>2, HeldTyped, SkewRingAssumption DEF FirstPacket, IInv, Slot
    <3>2. ~ (Held > 0)
      BY <3>1 DEF IInv, FullIsNotEmpty, TypeOK
    <3>. QED
      BY <3>1, <3>2
  <2>. QED
    BY <1>2, <2>2, <2>3, RingAlone DEF FirstPacket, IInv, TypeOK
<1>3. ASSUME NEW s \in 0 .. MaxSent, NextPacket(s) PROVE IInv'
  BY <1>3, NextPacketHolds
<1>4. ASSUME GetSkew PROVE IInv'
  BY <1>4, GetSkewHolds
<1>5. ASSUME UNCHANGED vars PROVE IInv'
  <2>1. TypeOK' /\ UNCHANGED <<ring, arrived, now, last_reception_time, seq_initialized>>
    BY <1>5 DEF vars, IInv, TypeOK, last, ring
  <2>2. UNCHANGED <<last_RTP_timestamp, sent>>
    BY <1>5 DEF vars, last
  <2>. QED
    BY <2>1, <2>2, RingAlone DEF IInv, TypeOK
<1>. QED
  BY <1>1, <1>2, <1>3, <1>4, <1>5 DEF Next

\* The invariant holds throughout.
LEMMA Invariance == Spec => []IInv
BY InitHolds, NextHolds, PTL DEF Spec

\* Between its indices the ring holds skews in the order of their arrival, the
\* last packet's at the end, for a ring of any size.
THEOREM OrderKept == Spec => []HeldInOrderOfArrival
<1>1. IInv => HeldInOrderOfArrival
  BY DEF IInv
<1>. QED
  BY <1>1, Invariance, PTL

\* The ring never looks empty when a skew was taken since the last report, and
\* never looks filled when none was.
THEOREM FullNeverLooksEmpty == Spec => []FullIsNotEmpty
<1>1. IInv => FullIsNotEmpty
  BY DEF IInv
<1>. QED
  BY <1>1, Invariance, PTL

-----------------------------------------------------------------------------
(* The median.                                                             *)

\* Induction: a set of naturals that is not empty has a least element.
LEMMA LeastNat ==
  ASSUME NEW T, T \subseteq Nat, T # {}
  PROVE  \E n \in T : \A m \in T : n <= m
<1>1. PICK n \in T : \A m \in T : ~ (<<m, n>> \in OpToRel(<, Nat))
  BY NatLessThanWellFounded, WFMin
<1>2. \A m \in T : ~ (m < n)
  BY <1>1 DEF OpToRel
<1>. QED
  BY <1>2

\* The orders q of S that ascend in f.
Ascending(S, f) ==
  {q \in Bijection(1 .. Cardinality(S), S) :
     \A i, j \in 1 .. Cardinality(S) : i <= j => f[q[i]] <= f[q[j]]}

LEMMA CountTo ==
  ASSUME NEW n \in Nat
  PROVE  IsFiniteSet(1 .. n) /\ Cardinality(1 .. n) = n
<1>1. 1 \in Int /\ n \in Int
  OBVIOUS
<1>2. IsFiniteSet(1 .. n) /\ Cardinality(1 .. n) = IF 1 > n THEN 0 ELSE n - 1 + 1
  BY <1>1, FS_Interval, Zenon
<1>. QED
  BY <1>2

\* The element in the middle of an ascending order is a median.
LEMMA MiddleIsMedian ==
  ASSUME NEW S, IsFiniteSet(S), S # {}, NEW f \in [S -> Int], NEW q \in Ascending(S, f),
         NEW v, v = f[q[(Cardinality(S) \div 2) + 1]]
  PROVE  /\ v \in {f[i] : i \in S}
         /\ Cardinality({i \in S : f[i] < v}) <= Cardinality(S) \div 2
         /\ Cardinality({i \in S : f[i] <= v}) > Cardinality(S) \div 2
<1> DEFINE c == Cardinality(S)
           n == c \div 2
           below == {i \in S : f[i] < v}
           upto == {i \in S : f[i] <= v}
<1>1. c \in Nat /\ c # 0 /\ n \in Nat /\ n + 1 \in 1 .. c
  <2>1. c \in Nat /\ c # 0
    BY FS_CardinalityType, FS_EmptySet
  <2> HIDE DEF c
  <2>. QED
    BY <2>1
<1>2. /\ q \in [1 .. c -> S]
      /\ \A i, j \in 1 .. c : q[i] = q[j] => i = j
      /\ \A x \in S : \E i \in 1 .. c : q[i] = x
      /\ \A i, j \in 1 .. c : i <= j => f[q[i]] <= f[q[j]]
      /\ v = f[q[n + 1]]
  BY DEF Ascending, Bijection, Injection, Surjection, IsInjective
<1> HIDE DEF c, n
<1>3. v \in {f[i] : i \in S} /\ v \in Int
  BY <1>1, <1>2
<1>4. IsFiniteSet(below) /\ IsFiniteSet(upto)
  BY FS_Subset
<1>5. Cardinality(below) <= n
  <2> DEFINE L == {q[j] : j \in 1 .. n}
             h == [j \in 1 .. n |-> q[j]]
  <2>1. h \in Surjection(1 .. n, L)
    BY DEF Surjection
  <2>2. IsFiniteSet(1 .. n) /\ Cardinality(1 .. n) = n
    BY <1>1, CountTo
  <2>3. below \subseteq L
    <3>1. SUFFICES ASSUME NEW x \in S, f[x] < v PROVE x \in L
      OBVIOUS
    <3>2. PICK i \in 1 .. c : q[i] = x
      BY <1>2
    <3>3. CASE i <= n
      BY <1>1, <3>2, <3>3
    <3>4. CASE n + 1 <= i
      <4>1. v <= f[x]
        BY <1>1, <1>2, <3>2, <3>4
      <4>. QED
        BY <1>3, <3>1, <4>1
    <3>. QED
      BY <1>1, <3>3, <3>4
  <2> HIDE DEF L, h, below
  <2>4. IsFiniteSet(L) /\ Cardinality(L) <= n
    BY <2>1, <2>2, FS_Surjection
  <2>5. Cardinality(below) <= Cardinality(L)
    BY <2>3, <2>4, FS_Subset
  <2>. QED
    BY <1>1, <1>4, <2>4, <2>5, FS_CardinalityType
<1>6. Cardinality(upto) > n
  <2> DEFINE H == {q[j] : j \in 1 .. n + 1}
             h == [j \in 1 .. n + 1 |-> q[j]]
  <2>1. h \in Surjection(1 .. n + 1, H) /\ h \in Injection(1 .. n + 1, H)
    <3>1. \A i \in 1 .. n + 1 : i \in 1 .. c
      BY <1>1
    <3>. QED
      BY <1>2, <3>1 DEF Surjection, Injection, IsInjective
  <2>2. IsFiniteSet(1 .. n + 1) /\ Cardinality(1 .. n + 1) = n + 1
    <3>1. n + 1 \in Nat
      BY <1>1
    <3>. QED
      BY <3>1, CountTo
  <2>3. H \subseteq upto
    <3>1. SUFFICES ASSUME NEW j \in 1 .. n + 1 PROVE q[j] \in S /\ f[q[j]] <= v
      OBVIOUS
    <3>. QED
      BY <1>1, <1>2
  <2> HIDE DEF H, h, upto
  <2>4. IsFiniteSet(H) /\ Cardinality(H) = n + 1
    BY <2>1, <2>2, FS_Surjection
  <2>5. Cardinality(H) <= Cardinality(upto)
    BY <1>4, <2>3, FS_Subset
  <2>. QED
    BY <1>1, <1>4, <2>4, <2>5, FS_CardinalityType
<1>. QED
  BY <1>3, <1>5, <1>6 DEF n, c

\* Whatever order the sort chooses among equals, the middle is the same.
LEMMA MedianIsOne ==
  ASSUME NEW S, IsFiniteSet(S), NEW f \in [S -> Int], NEW n, NEW v \in Int, NEW w \in Int,
         Cardinality({i \in S : f[i] < v}) <= n, Cardinality({i \in S : f[i] <= v}) > n,
         Cardinality({i \in S : f[i] < w}) <= n, Cardinality({i \in S : f[i] <= w}) > n,
         n \in Nat
  PROVE  v = w
<1>1. ASSUME NEW a \in Int, NEW b \in Int, a < b,
             Cardinality({i \in S : f[i] <= a}) > n, Cardinality({i \in S : f[i] < b}) <= n
      PROVE  FALSE
  <2> DEFINE A == {i \in S : f[i] <= a}
             B == {i \in S : f[i] < b}
  <2>1. A \subseteq B
    BY <1>1
  <2>2. IsFiniteSet(A) /\ IsFiniteSet(B)
    BY FS_Subset
  <2>3. Cardinality(A) > n /\ Cardinality(B) <= n
    BY <1>1
  <2> HIDE DEF A, B
  <2>4. Cardinality(A) <= Cardinality(B)
    BY <2>1, <2>2, FS_Subset
  <2>. QED
    BY <2>2, <2>3, <2>4, FS_CardinalityType
<1>2. ~ (v < w) /\ ~ (w < v)
  BY <1>1
<1>. QED
  BY <1>2

\* A finite set of naturals that is not empty has an element where f is largest.
LEMMA SortedLast ==
  ASSUME NEW S, IsFiniteSet(S), S # {}, NEW f \in [S -> Nat]
  PROVE  \E x \in S : \A y \in S : f[y] <= f[x]
<1> DEFINE above(x) == {y \in S : f[x] < f[y]}
           T == {Cardinality(above(x)) : x \in S}
<1>1. \A x \in S : IsFiniteSet(above(x)) /\ Cardinality(above(x)) \in Nat
  BY FS_Subset, FS_CardinalityType
<1>2. T \subseteq Nat /\ T # {}
  BY <1>1
<1>3. PICK n \in T : \A m \in T : n <= m
  <2> HIDE DEF T
  <2>. QED
    BY <1>2, LeastNat
<1>4. PICK x \in S : n = Cardinality(above(x))
  BY <1>3
<1>5. ASSUME NEW y \in above(x) PROVE FALSE
  <2>1. y \in S /\ above(y) \subseteq above(x) /\ y \notin above(y)
    BY <1>5
  <2>2. Cardinality(above(y)) >= n /\ Cardinality(above(x)) = n
    BY <1>3, <1>4, <2>1
  <2> HIDE DEF above
  <2>3. Cardinality(above(y)) <= Cardinality(above(x))
    BY <1>1, <2>1, FS_Subset
  <2>4. above(y) = above(x)
    BY <1>1, <2>1, <2>2, <2>3, FS_Subset
  <2>. QED
    BY <1>5, <2>1, <2>4
<1>. QED
  BY <1>5

\* Every finite set can be sorted.
LEMMA CanBeSorted ==
  ASSUME NEW S, IsFiniteSet(S), NEW f \in [S -> Nat]
  PROVE  Ascending(S, f) # {}
<1> DEFINE Bad == {n \in Nat : \E U \in SUBSET S : Cardinality(U) = n /\ Ascending(U, f) = {}}
<1>1. SUFFICES ASSUME Ascending(S, f) = {} PROVE FALSE
  OBVIOUS
<1>2. Cardinality(S) \in Bad
  BY <1>1, FS_CardinalityType
<1>3. PICK n \in Bad : \A m \in Bad : n <= m
  <2>1. Bad \subseteq Nat /\ Bad # {}
    BY <1>2
  <2> HIDE DEF Bad
  <2>. QED
    BY <2>1, LeastNat
<1>4. PICK U \in SUBSET S : Cardinality(U) = n /\ Ascending(U, f) = {}
  BY <1>3
<1>5. IsFiniteSet(U) /\ n \in Nat
  BY <1>3, FS_Subset
<1>6. CASE U = {}
  <2>1. n = 0 /\ 1 .. n = {}
    BY <1>4, <1>6, FS_EmptySet
  <2>2. [i \in 1 .. n |-> 0] \in Ascending(U, f)
    BY <1>4, <1>6, <2>1 DEF Ascending, Bijection, Injection, Surjection, IsInjective
  <2>. QED
    BY <1>4, <2>2
<1>7. CASE U # {}
  <2>1. PICK x \in U : \A y \in U : f[y] <= f[x]
    <3> DEFINE g == [y \in U |-> f[y]]
    <3>1. g \in [U -> Nat]
      OBVIOUS
    <3>2. \E x \in U : \A y \in U : g[y] <= g[x]
      <4> HIDE DEF g
      <4>. QED
        BY <1>5, <1>7, <3>1, SortedLast
    <3>. QED
      BY <3>2
  <2> DEFINE V == U \ {x}
  <2>2. IsFiniteSet(V) /\ Cardinality(V) = n - 1 /\ V \in SUBSET S /\ n - 1 \in Nat
    <3>1. IsFiniteSet(V) /\ Cardinality(V) = n - 1
      BY <1>4, <1>5, <2>1, FS_RemoveElement
    <3>2. V \in SUBSET S
      OBVIOUS
    <3>3. Cardinality(V) \in Nat
      <4> HIDE DEF V
      <4>. QED
        BY <3>1, FS_CardinalityType
    <3>. QED
      BY <3>1, <3>2, <3>3
  <2>3. Ascending(V, f) # {}
    <3>1. n - 1 \notin Bad
      BY <1>3, <1>5
    <3>. QED
      BY <2>2, <3>1
  <2>4. PICK r : r \in Ascending(V, f)
    BY <2>3
  <2>5. /\ r \in [1 .. n - 1 -> V]
        /\ \A i, j \in 1 .. n - 1 : r[i] = r[j] => i = j
        /\ \A y \in V : \E i \in 1 .. n - 1 : r[i] = y
        /\ \A i, j \in 1 .. n - 1 : i <= j => f[r[i]] <= f[r[j]]
    BY <2>2, <2>4 DEF Ascending, Bijection, Injection, Surjection, IsInjective
  <2> DEFINE q == [i \in 1 .. n |-> IF i = n THEN x ELSE r[i]]
  <2>6. n \in 1 .. n /\ \A i \in 1 .. n : i # n => i \in 1 .. n - 1
    BY <1>5, <2>2
  <2>7. q[n] = x /\ \A i \in 1 .. n - 1 : i \in 1 .. n /\ i # n /\ q[i] = r[i]
    BY <1>5, <2>6
  <2>8. q \in [1 .. n -> U]
    BY <2>5, <2>6
  <2> HIDE DEF q
  <2>9. \A i, j \in 1 .. n : q[i] = q[j] => i = j
    BY <2>5, <2>6, <2>7
  <2>10. \A y \in U : \E i \in 1 .. n : q[i] = y
    BY <2>5, <2>6, <2>7
  <2>11. \A i, j \in 1 .. n : i <= j => f[q[i]] <= f[q[j]]
    <3>1. SUFFICES ASSUME NEW i \in 1 .. n, NEW j \in 1 .. n, i <= j
                   PROVE  f[q[i]] <= f[q[j]]
      OBVIOUS
    <3>2. CASE j = n
      BY <2>1, <2>7, <2>8, <3>2
    <3>3. CASE j # n
      <4>1. i \in 1 .. n - 1 /\ j \in 1 .. n - 1
        BY <1>5, <3>1, <3>3
      <4>. QED
        BY <2>5, <2>7, <3>1, <4>1
    <3>. QED
      BY <3>2, <3>3
  <2>12. q \in Ascending(U, f)
    BY <1>4, <2>8, <2>9, <2>10, <2>11
       DEF Ascending, Bijection, Injection, Surjection, IsInjective
  <2>. QED
    BY <1>4, <2>12
<1>. QED
  BY <1>6, <1>7

-----------------------------------------------------------------------------
(* Reports.                                                                *)

\* The instance counts as the library does.
LEMMA SameCount == ASSUME NEW S PROVE Window!Cardinality(S) = Cardinality(S)
BY Zenon DEF Cardinality, Window!Cardinality

\* The skews a report takes, by the places they are held at.
Taken == [k \in YoungSkews |-> skews[SlotOf(k)]]

LEMMA TakenTyped ==
  ASSUME TypeOK
  PROVE  /\ IsFiniteSet(YoungSkews) /\ YoungSkews \subseteq 1..Held
         /\ Taken \in [YoungSkews -> Nat] /\ Taken \in [YoungSkews -> Int]
         /\ \A k \in YoungSkews : Taken[k] \in Skew /\ Taken[k] = skews[SlotOf(k)]
<1>1. YoungSkews \subseteq 1..Held
  BY DEF YoungSkews
<1>2. IsFiniteSet(YoungSkews)
  <2>1. Held \in Nat
    BY HeldTyped, SkewRingAssumption DEF Slot
  <2>. QED
    BY <1>1, <2>1, CountTo, FS_Subset
<1>3. \A k \in YoungSkews : skews[SlotOf(k)] \in Skew
  BY <1>1, HeldTyped DEF TypeOK
<1>4. \A k \in YoungSkews : skews[SlotOf(k)] \in Nat /\ skews[SlotOf(k)] \in Int
  BY <1>3, SkewRingAssumption DEF Skew
<1>5. Taken \in [YoungSkews -> Nat] /\ Taken \in [YoungSkews -> Int]
  BY <1>4 DEF Taken
<1>6. \A k \in YoungSkews : Taken[k] \in Skew /\ Taken[k] = skews[SlotOf(k)]
  BY <1>3 DEF Taken
<1>. QED
  BY <1>1, <1>2, <1>5, <1>6

LEMMA SortedAscends == ASSUME TypeOK PROVE Sorted(YoungSkews) = Ascending(YoungSkews, Taken)
<1> DEFINE c == Cardinality(YoungSkews)
<1>1. ASSUME NEW q \in Bijection(1 .. c, YoungSkews)
      PROVE  (\A i, j \in DOMAIN q : i <= j => skews[SlotOf(q[i])] <= skews[SlotOf(q[j])])
               <=> (\A i, j \in 1 .. c : i <= j => Taken[q[i]] <= Taken[q[j]])
  <2>1. q \in [1 .. c -> YoungSkews]
    BY DEF Bijection, Injection
  <2>2. DOMAIN q = 1 .. c /\ \A i \in 1 .. c : Taken[q[i]] = skews[SlotOf(q[i])]
    BY <2>1, TakenTyped
  <2>. QED
    BY <2>2
<1>2. /\ Sorted(YoungSkews) \subseteq Bijection(1 .. c, YoungSkews)
      /\ Ascending(YoungSkews, Taken) \subseteq Bijection(1 .. c, YoungSkews)
  BY DEF Sorted, Ascending
<1>3. ASSUME NEW q \in Bijection(1 .. c, YoungSkews)
      PROVE  q \in Sorted(YoungSkews) <=> q \in Ascending(YoungSkews, Taken)
  BY <1>1 DEF Sorted, Ascending
<1>. QED
  BY <1>2, <1>3

\* The middle of what was sorted is one skew, and it is a median.
LEMMA MiddleHolds ==
  ASSUME TypeOK, YoungSkews # {}
  PROVE  \E v \in Skew :
           /\ Middle(YoungSkews) = {v}
           /\ Cardinality({k \in YoungSkews : Taken[k] < v}) <= Cardinality(YoungSkews) \div 2
           /\ Cardinality({k \in YoungSkews : Taken[k] <= v}) > Cardinality(YoungSkews) \div 2
<1> DEFINE S == YoungSkews
           n == Cardinality(S) \div 2
           Median(v) == /\ Cardinality({k \in S : Taken[k] < v}) <= n
                        /\ Cardinality({k \in S : Taken[k] <= v}) > n
<1>1. IsFiniteSet(S) /\ S # {} /\ Taken \in [S -> Int] /\ Taken \in [S -> Nat]
  BY TakenTyped
<1>2. Cardinality(S) \in Nat /\ Cardinality(S) # 0 /\ n \in Nat /\ n + 1 \in 1 .. Cardinality(S)
  <2>1. Cardinality(S) \in Nat /\ Cardinality(S) # 0
    BY <1>1, FS_CardinalityType, FS_EmptySet
  <2> HIDE DEF S
  <2>. QED
    BY <2>1
<1>3. ASSUME NEW q \in Ascending(S, Taken)
      PROVE  /\ Taken[q[n + 1]] \in Skew /\ Median(Taken[q[n + 1]])
             /\ skews[SlotOf(q[n + 1])] = Taken[q[n + 1]]
  <2>1. q \in [1 .. Cardinality(S) -> S]
    BY DEF Ascending, Bijection, Injection
  <2>2. q[n + 1] \in S
    BY <1>2, <2>1
  <2>3. Taken[q[n + 1]] \in Skew /\ skews[SlotOf(q[n + 1])] = Taken[q[n + 1]]
    BY <2>2, TakenTyped
  <2> HIDE DEF S
  <2>4. Median(Taken[q[n + 1]])
    BY <1>1, MiddleIsMedian
  <2>. QED
    BY <2>3, <2>4
<1>4. Middle(S) = {skews[SlotOf(q[n + 1])] : q \in Ascending(S, Taken)}
  BY SortedAscends DEF Middle
<1>5. PICK r : r \in Ascending(S, Taken)
  <2> HIDE DEF S
  <2>. QED
    BY <1>1, CanBeSorted
<1> DEFINE v == Taken[r[n + 1]]
<1>6. v \in Skew /\ Median(v) /\ v \in Middle(S)
  BY <1>3, <1>4, <1>5
<1>7. ASSUME NEW w \in Middle(S) PROVE w = v
  <2>1. PICK q \in Ascending(S, Taken) : w = Taken[q[n + 1]]
    BY <1>3, <1>4
  <2>2. w \in Skew /\ Median(w)
    BY <1>3, <2>1
  <2>3. v \in Int /\ w \in Int
    BY <1>6, <2>2, SkewRingAssumption DEF Skew
  <2>4. /\ Cardinality({k \in S : Taken[k] < v}) <= n
        /\ Cardinality({k \in S : Taken[k] <= v}) > n
        /\ Cardinality({k \in S : Taken[k] < w}) <= n
        /\ Cardinality({k \in S : Taken[k] <= w}) > n
    BY <1>6, <2>2
  <2> HIDE DEF S, n, v, Median
  <2>. QED
    BY <1>1, <1>2, <2>3, <2>4, MedianIsOne
<1>8. Middle(S) = {v}
  BY <1>6, <1>7
<1>. QED
  BY <1>6, <1>8

-----------------------------------------------------------------------------
(* The window.                                                             *)

\* What the ring holds, as the window sees it.
Samples ==
  [k \in 1..Held |-> [skew |-> skews[SlotOf(k)], time |-> reception_times[SlotOf(k)]]]

Sample == [skew : Skew, time : Nat]

LEMMA SamplesTyped ==
  ASSUME TypeOK
  PROVE  /\ Samples \in Seq(Sample) /\ Len(Samples) = Held /\ Held \in Nat
         /\ DOMAIN Samples = 1..Held
         /\ \A k \in 1..Held : /\ Samples[k].skew = skews[SlotOf(k)]
                               /\ Samples[k].time = reception_times[SlotOf(k)]
<1>1. Held \in Nat
  BY HeldTyped, SkewRingAssumption DEF Slot
<1>2. \A k \in 1..Held : skews[SlotOf(k)] \in Skew /\ reception_times[SlotOf(k)] \in Nat
  BY HeldTyped DEF TypeOK
<1>. QED
  BY <1>1, <1>2 DEF Samples, Sample

\* The ring's differences of words measure real times.
LEMMA SkewIsLateness ==
  ASSUME IInv, NEW s \in Nat
  PROVE  SkewOf(s % Word) = Window!Lateness(s) % Word
<1> DEFINE a == now - last_reception_time
           b == s - sent
<1>1. a \in Int /\ b \in Int /\ s \in Int /\ sent \in Int /\ Word \in Nat \ {0}
  BY SkewRingAssumption DEF IInv, TypeOK
<1>2. ((s % Word) - last_RTP_timestamp) % Word = b % Word
  BY <1>1, ModDifference DEF IInv
<1>3. SkewOf(s % Word) = ((a % Word) - (b % Word)) % Word
  BY <1>2 DEF SkewOf
<1> HIDE DEF a, b
<1>4. ((a % Word) - (b % Word)) % Word = (a - b) % Word
  BY <1>1, ModDifference
<1>5. Window!Lateness(s) = a - b
  BY DEF Window!Lateness, a, b
<1>. QED
  BY <1>3, <1>4, <1>5

\* A packet's skew joins the samples, and the oldest makes room if there is none.
LEMMA PacketSamples ==
  ASSUME IInv, NEW s \in 0 .. MaxSent, NextPacket(s)
  PROVE  Samples' = Window!Latest(Append(Samples, [skew |-> SkewOf(s % Word), time |-> now]))
<1> DEFINE x == [skew |-> SkewOf(s % Word), time |-> now]
           A == Append(Samples, x)
<1>1. TypeOK /\ skews_write_index \in Slot
  BY DEF IInv, TypeOK
<1>2. /\ Held' \in Nat /\ Held' > 0 /\ Held' < Slots
      /\ SlotOf(Held)' = skews_write_index
      /\ \/ /\ Held' = Held + 1
            /\ \A k \in 1..Held : SlotOf(k)' = SlotOf(k)
         \/ /\ Held' = Held /\ Held = Slots - 1
            /\ \A k \in 1 .. Held - 1 : SlotOf(k)' = SlotOf(k + 1)
  BY <1>1, WriteMoves DEF NextPacket
<1>3. /\ skews' = [skews EXCEPT ![skews_write_index] = SkewOf(s % Word)]
      /\ reception_times' = [reception_times EXCEPT ![skews_write_index] = now]
  BY DEF NextPacket
<1> DEFINE new(k) == [skew |-> skews'[SlotOf(k)'], time |-> reception_times'[SlotOf(k)']]
<1>4. Samples' = [k \in 1 .. Held' |-> new(k)]
  BY DEF Samples
<1>5. \A k \in Nat : k = Held' => new(k) = x
  <2>1. \A k \in Nat : k = Held' => SlotOf(k)' = skews_write_index
    BY <1>2 DEF SlotOf
  <2>. QED
    BY <1>1, <1>3, <2>1 DEF TypeOK
<1>6. \A k \in 1..Held : /\ skews'[SlotOf(k)] = skews[SlotOf(k)]
                         /\ reception_times'[SlotOf(k)] = reception_times[SlotOf(k)]
  BY <1>1, <1>3, HeldTyped DEF TypeOK
<1>7. /\ Samples \in Seq(Sample) /\ Len(Samples) = Held /\ Held \in Nat
      /\ \A k \in 1..Held : Samples[k] = [skew |-> skews[SlotOf(k)], time |-> reception_times[SlotOf(k)]]
  BY <1>1, SamplesTyped DEF Samples
<1>8. x \in Sample
  <2>1. SkewOf(s % Word) \in Skew /\ now \in Nat
    BY SkewTyped, <1>1 DEF TypeOK
  <2>. QED
    BY <2>1 DEF Sample
<1>9. /\ A \in Seq(Sample) /\ Len(A) = Held + 1 /\ A[Held + 1] = x
      /\ \A k \in 1..Held : A[k] = Samples[k]
  <2> HIDE DEF x
  <2>. QED
    BY <1>7, <1>8
<1> HIDE DEF x, A, new
<1>10. CASE /\ Held' = Held + 1
            /\ \A k \in 1..Held : SlotOf(k)' = SlotOf(k)
  <2>1. ASSUME NEW k \in 1..Held PROVE new(k) = A[k]
    <3>1. SlotOf(k)' = SlotOf(k)
      BY <1>10
    <3>2. skews'[SlotOf(k)'] = skews[SlotOf(k)]
      BY <1>6, <3>1
    <3>3. reception_times'[SlotOf(k)'] = reception_times[SlotOf(k)]
      BY <1>6, <3>1
    <3>. QED
      BY <1>7, <1>9, <3>2, <3>3 DEF new
  <2>2. \A k \in 1..Held' : new(k) = A[k]
    BY <1>2, <1>5, <1>7, <1>9, <1>10, <2>1
  <2>3. A = [k \in 1 .. Held' |-> A[k]]
    BY <1>9, <1>10
  <2>4. Samples' = A
    BY <1>4, <2>2, <2>3
  <2>5. Window!Latest(A) = A
    BY <1>2, <1>7, <1>9, <1>10, SkewRingAssumption DEF Window!Latest
  <2>. QED
    BY <2>4, <2>5 DEF A, x
<1>11. CASE /\ Held' = Held /\ Held = Slots - 1
            /\ \A k \in 1 .. Held - 1 : SlotOf(k)' = SlotOf(k + 1)
  <2>1. \A k \in 1 .. Held - 1 : k + 1 \in 1..Held /\ new(k) = A[k + 1]
    BY <1>6, <1>7, <1>9, <1>11 DEF new
  <2>2. \A k \in 1..Held' : new(k) = A[k + 1]
    BY <1>2, <1>5, <1>7, <1>9, <1>11, <2>1
  <2>3. Tail(A) = [k \in 1 .. Held' |-> A[k + 1]]
    <3>1. A # << >>
      BY <1>7, <1>9
    <3>2. Tail(A) \in Seq(Sample) /\ Len(Tail(A)) = Held /\ \A k \in 1..Held : Tail(A)[k] = A[k + 1]
      BY <1>7, <1>9, <3>1, HeadTailProperties
    <3> DEFINE T == Tail(A)
    <3>3. T \in Seq(Sample) /\ Len(T) = Held /\ \A k \in 1..Held : T[k] = A[k + 1]
      BY <3>2
    <3> HIDE DEF T
    <3>4. T = [k \in 1..Held |-> T[k]]
      BY <3>3
    <3>5. T = [k \in 1 .. Held' |-> A[k + 1]]
      BY <1>11, <3>3, <3>4
    <3>. QED
      BY <3>5 DEF T
  <2>4. Samples' = Tail(A)
    BY <1>4, <2>2, <2>3
  <2>5. Window!Latest(A) = Tail(A)
    BY <1>7, <1>9, <1>11, SkewRingAssumption DEF Window!Latest
  <2>. QED
    BY <2>4, <2>5 DEF A, x
<1>. QED
  BY <1>2, <1>10, <1>11

\* The first state of the ring is a first state of the window.
LEMMA InitMaps == ASSUME Init PROVE Window!Init
<1>1. TypeOK /\ Held = 0
  BY InitHolds DEF Init, IInv, Held
<1>2. Samples = << >>
  BY <1>1, SamplesTyped
<1>3. now \in Nat
  BY SkewRingAssumption DEF Init
<1>. QED
  BY <1>2, <1>3 DEF Init, Window!Init, Samples

\* A report of the ring is a report of the window.
LEMMA ReportMaps == ASSUME IInv, GetSkew PROVE Window!Report
<1>1. TypeOK
  BY DEF IInv
<1>2. Window!YoungSamples = YoungSkews
  <2>1. Window!YoungSamples = {i \in DOMAIN Samples : Samples[i].time >= now - Young}
    BY DEF Window!YoungSamples, Samples
  <2>. QED
    BY <1>1, <2>1, SamplesTyped DEF YoungSkews
<1>3. ASSUME YoungSkews # {}
      PROVE  reported' \in Skew /\ Window!IsMedian(reported', YoungSkews)
  <2>1. PICK v \in Skew :
          /\ Middle(YoungSkews) = {v}
          /\ Cardinality({k \in YoungSkews : Taken[k] < v}) <= Cardinality(YoungSkews) \div 2
          /\ Cardinality({k \in YoungSkews : Taken[k] <= v}) > Cardinality(YoungSkews) \div 2
    BY <1>1, <1>3, MiddleHolds
  <2>2. reported' = v
    BY <1>3, <2>1 DEF GetSkew
  <2>3. \A k \in YoungSkews : Samples[k].skew = Taken[k]
    BY <1>1, SamplesTyped, TakenTyped
  <2>4. /\ {k \in YoungSkews : Samples[k].skew < v} = {k \in YoungSkews : Taken[k] < v}
        /\ {k \in YoungSkews : Samples[k].skew <= v} = {k \in YoungSkews : Taken[k] <= v}
    BY <2>3
  <2>5. Window!IsMedian(v, YoungSkews) <=>
          /\ Cardinality({k \in YoungSkews : Samples[k].skew < v})
               <= Cardinality(YoungSkews) \div 2
          /\ Cardinality({k \in YoungSkews : Samples[k].skew <= v})
               > Cardinality(YoungSkews) \div 2
    BY SameCount DEF Window!IsMedian, Samples
  <2>. QED
    BY <2>1, <2>2, <2>4, <2>5
<1>4. reported' \in Skew
  BY <1>3 DEF GetSkew
<1>5. Samples' = << >>
  <2>1. Held' = 0
    BY DEF GetSkew, ResetIndices, Held
  <2>. QED
    BY <2>1 DEF Samples
<1>. QED
  BY <1>2, <1>3, <1>4, <1>5
     DEF GetSkew, Window!Report, Window!Skew, Skew, Samples, last

\* Every step of the ring is one of the window, or none.
LEMMA StepMaps == ASSUME IInv, [Next]_vars PROVE [Window!Next]_(Window!vars)
<1>1. ASSUME UNCHANGED ring PROVE Samples' = Samples
  BY <1>1 DEF ring, Samples, Held, SlotOf
<1>2. CASE Tick
  <2>1. Samples' = Samples
    BY <1>1, <1>2 DEF Tick
  <2>2. now' > now
    BY <1>2 DEF Tick, IInv, TypeOK
  <2>3. Window!Tick
    BY <1>2, <2>1, <2>2 DEF Tick, Window!Tick, last, Samples
  <2>. QED
    BY <2>3 DEF Window!Next
<1>3. ASSUME NEW s \in 0 .. MaxSent, FirstPacket(s) PROVE Window!Next
  <2>1. Samples' = Samples
    BY <1>1, <1>3 DEF FirstPacket
  <2>2. s \in Nat
    BY SkewRingAssumption
  <2>3. Window!First
    BY <1>3, <2>1, <2>2 DEF FirstPacket, Window!First, Samples, IInv
  <2>. QED
    BY <2>3 DEF Window!Next
<1>4. ASSUME NEW s \in 0 .. MaxSent, NextPacket(s) PROVE Window!Next
  <2>1. s \in Nat
    BY SkewRingAssumption
  <2>2. Samples' = Window!Latest(Append(Samples, [skew |-> Window!Lateness(s) % Word, time |-> now]))
    BY <1>4, <2>1, PacketSamples, SkewIsLateness
  <2>3. sent' = s
    BY <1>4 DEF NextPacket
  <2>4. Window!Packet
    BY <1>4, <2>1, <2>2, <2>3 DEF NextPacket, Window!Packet, Samples
  <2>. QED
    BY <2>4 DEF Window!Next
<1>5. CASE GetSkew
  BY <1>5, ReportMaps DEF Window!Next
<1>6. CASE UNCHANGED vars
  <2>1. Samples' = Samples
    BY <1>1, <1>6 DEF vars
  <2>. QED
    BY <1>6, <2>1 DEF vars, last, Window!vars, Samples
<1>. QED
  BY <1>2, <1>3, <1>4, <1>5, <1>6 DEF Next

\* The path skew a subflow reports is the median of its latest skews that are
\* young, each in one report only: a ring of any size, with words of any width,
\* implements the window of SkewWindow step by step.
THEOREM RingImplementsWindow == Spec => ImplementsWindow
<1>1. Init => Window!Init
  BY InitMaps
<1>2. IInv /\ [Next]_vars => [Window!Next]_(Window!vars)
  BY StepMaps
<1>. QED
  BY <1>1, <1>2, Invariance, PTL DEF Spec, ImplementsWindow, Window!Spec

\* get_skew finds no young skew, and returns what is on its stack, only when no
\* packet came for Young or none since the last report.
THEOREM SilenceBeforeGarbage == Spec => GarbageOnlyWhenSilent
<1>1. ASSUME IInv, YoungSkews = {} PROVE ~ arrived \/ last_reception_time < now - Young
  <2>1. SUFFICES ASSUME arrived PROVE last_reception_time < now - Young
    OBVIOUS
  <2>2. Held > 0 /\ Held \in Nat
    <3>1. (Held > 0) = arrived
      BY <1>1 DEF IInv, FullIsNotEmpty
    <3>2. Held > 0
      BY <2>1, <3>1, Zenon
    <3>. QED
      BY <1>1, <3>2, HeldTyped, SkewRingAssumption DEF IInv, Slot
  <2>3. Held \in 1..Held /\ reception_times[SlotOf(Held)] = last_reception_time
    BY <1>1, <2>2 DEF IInv, HeldInOrderOfArrival
  <2>4. ~ (last_reception_time >= now - Young)
    BY <1>1, <2>3 DEF YoungSkews
  <2>. QED
    BY <1>1, <2>4, SkewRingAssumption DEF IInv, TypeOK
<1>2. IInv /\ [Next]_vars =>
        [GetSkew /\ YoungSkews = {} => ~ arrived \/ last_reception_time < now - Young]_vars
  BY <1>1
<1>. QED
  BY <1>2, Invariance, PTL DEF Spec, GarbageOnlyWhenSilent

\* The sort is not stable, but what a report returns does not depend on it, and
\* there always is something in the middle.
THEOREM MiddleIsOne ==
  Spec => [](YoungSkews # {} => \E v \in Skew : Middle(YoungSkews) = {v})
<1>1. IInv => (YoungSkews # {} => \E v \in Skew : Middle(YoungSkews) = {v})
  BY MiddleHolds DEF IInv
<1>. QED
  BY <1>1, Invariance, PTL
=============================================================================
