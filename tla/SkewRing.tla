------------------------------- MODULE SkewRing -------------------------------
(***************************************************************************)
(* The skews of a receiver subflow (src/plugins/mprtprsubflow.c): a ring   *)
(* of Slots words with a read and a write index of which one slot stays    *)
(* free.  process_rtpbuffer writes a skew for every packet but the first,  *)
(* get_skew drains the ring.  Both run under the subflow's mutex, so each  *)
(* is one step.  Times are in the receiver's clock; the RTP timestamp is   *)
(* the sender's clock cut to a word.                                       *)
(***************************************************************************)
EXTENDS Integers, FiniteSets, Functions

CONSTANTS
  Slots,      \* 100 in the code
  Young,      \* two seconds
  Word,       \* 2^32
  MaxTime,    \* bounds of the clock ...
  MaxSent     \* ... and of the sender's clock

ASSUME SkewRingAssumption ==
  /\ Slots \in Nat /\ Slots > 1
  /\ Young \in Nat
  /\ Word \in Nat /\ Word > 0
  /\ MaxTime \in Nat /\ MaxTime >= Young
  /\ MaxSent \in Nat

VARIABLES
  now,                  \* the system clock
  seq_initialized,      \* a packet has been received
  last_reception_time,
  last_RTP_timestamp,
  skews,                \* the ring: skews ...
  reception_times,      \* ... and when they were taken
  skews_read_index,
  skews_write_index,
  reported,             \* what get_skew returned last
  sent,                 \* history: the last packet's timestamp, not cut
  arrived               \* history: a skew has been taken since the last report

ring == <<skews, reception_times, skews_read_index, skews_write_index>>
last == <<seq_initialized, last_reception_time, last_RTP_timestamp>>
vars == <<now, last, ring, reported, sent, arrived>>

Slot == 0 .. Slots - 1
Skew == 0 .. Word - 1

Init ==
  /\ now = Young                      \* the clock has been running before
  /\ seq_initialized = FALSE /\ last_reception_time = 0 /\ last_RTP_timestamp = 0
  /\ skews = [i \in Slot |-> 0] /\ reception_times = [i \in Slot |-> 0]
  /\ skews_read_index = 0 /\ skews_write_index = 0
  /\ reported = 0 /\ sent = 0 /\ arrived = FALSE

Tick ==
  /\ now < MaxTime
  /\ now' = now + 1
  /\ UNCHANGED <<last, ring, reported, sent, arrived>>

-----------------------------------------------------------------------------
(* mprtpr_subflow_process_rtpbuffer, up to the goto that ends it.          *)

Advance(i) == IF i + 1 = Slots THEN 0 ELSE i + 1

\* Differences of words are words.
SkewOf(rtptime) ==
  (((now - last_reception_time) % Word) - ((rtptime - last_RTP_timestamp) % Word)) % Word

FirstPacket(s) ==
  /\ ~ seq_initialized
  /\ seq_initialized' = TRUE
  /\ last_reception_time' = now /\ last_RTP_timestamp' = s % Word
  /\ sent' = s
  /\ UNCHANGED <<now, ring, reported, arrived>>

\* Bug: a full ring looks empty.
ReadIndexStays(write) == skews_read_index

\* The read index is pushed on when the write index has come round to it.
PushedReadIndex(write) ==
  IF write = skews_read_index THEN Advance(skews_read_index) ELSE skews_read_index

NextPacket(s) ==
  /\ seq_initialized
  /\ skews' = [skews EXCEPT ![skews_write_index] = SkewOf(s % Word)]
  /\ reception_times' = [reception_times EXCEPT ![skews_write_index] = now]
  /\ skews_write_index' = Advance(skews_write_index)
  /\ skews_read_index' = PushedReadIndex(skews_write_index')
  /\ last_reception_time' = now /\ last_RTP_timestamp' = s % Word
  /\ sent' = s /\ arrived' = TRUE
  /\ UNCHANGED <<now, seq_initialized, reported>>

-----------------------------------------------------------------------------
(* mprtpr_subflow_get_skew.                                                *)

\* How many skews are held, and the slot of the k-th oldest.
Held ==
  LET ahead == skews_write_index - skews_read_index
  IN  IF ahead >= 0 THEN ahead ELSE ahead + Slots
SlotOf(k) ==
  LET slot == skews_read_index + k - 1
  IN  IF slot < Slots THEN slot ELSE slot - Slots

\* The loop from the read index to the write index, and what it takes.
YoungSkews == {k \in 1..Held : reception_times[SlotOf(k)] >= now - Young}

\* Bug: the array is not sorted.
Unsorted(taken) == Bijection(1 .. Cardinality(taken), taken)

\* How g_qsort_with_data may order it, which is not stable.
Sorted(taken) ==
  {q \in Bijection(1 .. Cardinality(taken), taken) :
     \A i, j \in DOMAIN q : i <= j => skews[SlotOf(q[i])] <= skews[SlotOf(q[j])]}

\* skews[c>>1] after the sort; the array's index starts at 0.
Middle(taken) ==
  {skews[SlotOf(q[(Cardinality(taken) \div 2) + 1])] : q \in Sorted(taken)}

ResetIndices ==
  skews_write_index' = 0 /\ skews_read_index' = 0

\* Without young skews the element is not initialised: any word.
GetSkew ==
  /\ reported' \in IF YoungSkews = {} THEN Skew ELSE Middle(YoungSkews)
  /\ ResetIndices
  /\ arrived' = FALSE
  /\ UNCHANGED <<now, last, skews, reception_times, sent>>

-----------------------------------------------------------------------------
Next ==
  \/ Tick
  \/ \E s \in 0 .. MaxSent : FirstPacket(s) \/ NextPacket(s)
  \/ GetSkew

Spec == Init /\ [][Next]_vars

-----------------------------------------------------------------------------
(* Properties.                                                             *)

\* The variables but the report stay in their domains.  (The report does, as
\* it is one of the window's reports.)
TypeOK ==
  /\ now \in Nat /\ last_reception_time \in Nat
  /\ seq_initialized \in BOOLEAN /\ arrived \in BOOLEAN
  /\ last_RTP_timestamp \in Skew /\ sent \in Nat
  /\ skews \in [Slot -> Skew] /\ reception_times \in [Slot -> Nat]
  /\ skews_read_index \in Slot /\ skews_write_index \in Slot

\* The ring's order is the order of arrival, across the wrap of the indices
\* and after slots have been overwritten: nothing left over from before the
\* last drain or the last round is between the indices.
HeldInOrderOfArrival ==
  /\ \A k \in 1..Held : reception_times[SlotOf(k)] <= last_reception_time
  /\ \A j, k \in 1..Held : j <= k => reception_times[SlotOf(j)] <= reception_times[SlotOf(k)]
  /\ Held > 0 => reception_times[SlotOf(Held)] = last_reception_time

\* The ring holds something exactly if a skew was taken since the last report:
\* it neither looks empty when it is full nor repeats what was reported.
FullIsNotEmpty == (Held > 0) = arrived

\* get_skew returns an uninitialised value only for a path that has been
\* silent for Young or since the last report.
GarbageOnlyWhenSilent ==
  [][GetSkew /\ YoungSkews = {} => ~ arrived \/ last_reception_time < now - Young]_vars

\* The ring implements the window of the latest skews, though it has one slot
\* less than Slots, wraps both indices, and measures with timestamps that wrap.
Window == INSTANCE SkewWindow WITH
  Capacity <- Slots - 1,
  heard <- last_reception_time,
  samples <- [k \in 1..Held |->
                [skew |-> skews[SlotOf(k)], time |-> reception_times[SlotOf(k)]]]

ImplementsWindow == Window!Spec
=============================================================================
