------------------------------- MODULE Playouter -------------------------------
(***************************************************************************)
(* playouter_run (src/plugins/gstmprtpreceiver.c): every run records one   *)
(* path skew per active subflow in a ring and moves the playout delay a    *)
(* little towards the largest skew in it.  The counter of the recorded     *)
(* skews is a gint that nothing resets.                                    *)
(*                                                                         *)
(* The delay is a gfloat.  Here it is a multiple of 1 / Scale, and a run   *)
(* may round either way.                                                   *)
(***************************************************************************)
EXTENDS Integers, Sequences, FiniteSetsExt, Functions

CONSTANTS
  Slots,     \* 256 in the code
  Skews,     \* the path skews that occur, words
  Paths,     \* at most so many active subflows
  Weight,    \* 125: the old delay counts Weight - 1 times
  Scale,     \* precision of the delay
  IntSpace   \* 2^32 values of a gint; half of them are more than Slots

VARIABLES
  path_skews,
  path_skew_index,
  path_skew_counter,
  playout_delay,     \* times Scale
  recent,            \* history: the last Slots skews
  wrapped            \* history: the counter has overflowed

vars == <<path_skews, path_skew_index, path_skew_counter, playout_delay, recent, wrapped>>

Slot == 0 .. Slots - 1

Init ==
  /\ path_skews = [i \in Slot |-> 0] /\ path_skew_index = 0 /\ path_skew_counter = 0
  /\ playout_delay = 0
  /\ recent = << >> /\ wrapped = FALSE

\* The n-th skew of a run goes n slots on, round the ring.
SlotAfter(n) == (path_skew_index + n) % Slots

\* Bug: one slot too few is used.
RecordedShort(reports) ==
  [i \in Slot |->
     LET later == {n \in 1..Len(reports) : (path_skew_index + n - 1) % (Slots - 1) = i}
     IN  IF later = {} THEN path_skews[i] ELSE reports[Max(later)]]

\* A later skew of the run overwrites an earlier one in the same slot.
Recorded(reports) ==
  [i \in Slot |->
     LET later == {n \in 1..Len(reports) : SlotAfter(n - 1) = i}
     IN  IF later = {} THEN path_skews[i] ELSE reports[Max(later)]]

\* A gint goes from its largest value to its smallest.
Counted(c, n) == ((c + n + (IntSpace \div 2)) % IntSpace) - (IntSpace \div 2)

\* The slots the loop looks at; none while the counter is negative.
Used(counter) == {i \in Slot : i < counter}

MaxPathSkew(skews, counter) == Max({0} \cup {skews[i] : i \in Used(counter)})

WeightedSum(max) == Scale * max + (Weight - 1) * playout_delay

\* Both roundings of a quotient.
Rounded(n, d) == {n \div d, (n + d - 1) \div d}

PlayouterRun(reports) ==
  LET max == MaxPathSkew(path_skews', path_skew_counter')
  IN  /\ path_skews' = Recorded(reports)
      /\ path_skew_index' = SlotAfter(Len(reports))
      /\ path_skew_counter' = Counted(path_skew_counter, Len(reports))
      /\ playout_delay' \in Rounded(WeightedSum(max), Weight)
      /\ recent' = LET all == recent \o reports
                   IN  SubSeq(all, 1 + Max({0, Len(all) - Slots}), Len(all))
      /\ wrapped' = (wrapped \/ path_skew_counter' < path_skew_counter)

Reports == UNION {[1..n -> Skews] : n \in 0 .. Paths}

Next == \E reports \in Reports : PlayouterRun(reports)

Spec == Init /\ [][Next]_vars

-----------------------------------------------------------------------------
(* Properties.                                                             *)

\* The variables stay in their domains; however it is weighted and rounded,
\* the delay does not exceed the largest skew.
TypeOK ==
  /\ path_skews \in [Slot -> Skews \cup {0}]
  /\ path_skew_index \in Slot
  /\ path_skew_counter \in -(IntSpace \div 2) .. (IntSpace \div 2) - 1
  /\ playout_delay \in 0 .. Scale * Max(Skews \cup {0})
  /\ Len(recent) <= Slots /\ wrapped \in BOOLEAN

\* The maximum is taken over the last Slots path skews, with fewer while there
\* are fewer, until the counter overflows, and again once it has come back to
\* Slots.  In between it forgets some or all of them.
MaxOfRecent ==
  ~ wrapped \/ path_skew_counter >= Slots =>
    MaxPathSkew(path_skews, path_skew_counter) = Max({0} \cup Range(recent))

=============================================================================
