----------------------------- MODULE ReportClock -----------------------------
(***************************************************************************)
(* When the sender makes its reports: riporter_run                         *)
(* (src/plugins/gstmprtpsender.c) reads the clock, waits for               *)
(* subflows_mutex, and reports of each active subflow whose sr_riport_time *)
(* has come (src/plugins/mprtpssubflow.c).  Time passes while it waits for *)
(* the mutex and while it pushes, so the time it works with is an old one. *)
(* What the reports hold is the matter of Riporter.                        *)
(***************************************************************************)
EXTENDS Integers

CONSTANTS
  N,         \* subflows, in the order of the list
  Interval,  \* GST_SECOND * 3, the time between two reports of a subflow
  Period,    \* GST_MSECOND * 100, the time between two runs
  MaxHold,   \* the longest a run takes, from the reading of the clock on
  MaxTime    \* bound: the length of a behaviour

ASSUME ClockAssumption ==
  /\ N \in Nat \ {0}
  /\ Interval \in Nat \ {0} /\ Period \in Nat /\ MaxHold \in Nat /\ MaxTime \in Nat

VARIABLES
  now,      \* the clock
  pc,       \* where the task is
  read,     \* the local variable now of the run
  at,       \* the loop's place in the list
  compound, \* compound_sending
  active, sr_riport_time,  \* of each subflow
  last,     \* history: when a subflow's last report was made, or Never
  since     \* history: the later of that and of its last start

vars == <<now, pc, read, at, compound, active, sr_riport_time, last, since>>

Subflow == 1 .. N
Never == -1

Init ==
  /\ now = 0 /\ pc = "top" /\ read = 0 /\ at = 1 /\ compound = FALSE
  /\ active = [s \in Subflow |-> FALSE]
  /\ sr_riport_time = [s \in Subflow |-> 0]
  /\ last = [s \in Subflow |-> Never]
  /\ since = [s \in Subflow |-> 0]

ReadClock ==
  /\ pc = "top" /\ pc' = "lock"
  /\ read' = now
  /\ UNCHANGED <<now, at, compound, active, sr_riport_time, last, since>>

TakeMutex ==
  /\ pc = "lock" /\ pc' = "loop"
  /\ compound' \in BOOLEAN
  /\ UNCHANGED <<now, read, at, active, sr_riport_time, last, since>>

\* Bugs: the next report is counted from the time this one was due, or has
\* to wait for twice the interval.
NextFromDue == sr_riport_time[at] + Interval
NextAfterTwo == read + 2 * Interval

NextRiportTime == read + Interval

IsDue(s) == active[s] /\ read >= sr_riport_time[s]

Report ==
  /\ pc = "loop" /\ at <= N /\ IsDue(at)
  /\ sr_riport_time' = [sr_riport_time EXCEPT ![at] = NextRiportTime]
  /\ last' = [last EXCEPT ![at] = now] /\ since' = [since EXCEPT ![at] = now]
  /\ at' = at + 1
  /\ pc' = IF compound THEN "loop" ELSE "push"
  /\ UNCHANGED <<now, read, compound, active>>

Pass ==
  /\ pc = "loop" /\ at <= N /\ ~ IsDue(at)
  /\ at' = at + 1
  /\ UNCHANGED <<now, pc, read, compound, active, sr_riport_time, last, since>>

\* gst_pad_push of a subflow's own packet has returned.
Pushed ==
  /\ pc = "push" /\ pc' = "loop"
  /\ UNCHANGED <<now, read, at, compound, active, sr_riport_time, last, since>>

\* The loop is done; a compound packet is pushed before the mutex is given back.
Finish ==
  /\ pc = "loop" /\ at > N
  /\ pc' = IF compound THEN "flush" ELSE "wait"
  /\ UNCHANGED <<now, read, at, compound, active, sr_riport_time, last, since>>

LastPushed ==
  /\ pc = "flush" /\ pc' = "wait"
  /\ UNCHANGED <<now, read, at, compound, active, sr_riport_time, last, since>>

\* gst_clock_id_wait returns at once when its time has passed already.  The
\* run's locals are gone.
Wake ==
  /\ pc = "wait" /\ now >= read + Period
  /\ pc' = "top"
  /\ at' = 1 /\ compound' = FALSE
  /\ UNCHANGED <<now, read, active, sr_riport_time, last, since>>

\* JOINED and DETACHED are fired under the mutex, as the riporter runs.
Join(s) ==
  /\ pc \in {"top", "lock", "wait"}
  /\ ~ active[s]
  /\ active' = [active EXCEPT ![s] = TRUE]
  /\ since' = [since EXCEPT ![s] = now]
  /\ UNCHANGED <<now, pc, read, at, compound, sr_riport_time, last>>

Detach(s) ==
  /\ pc \in {"top", "lock", "wait"}
  /\ active[s]
  /\ active' = [active EXCEPT ![s] = FALSE]
  /\ UNCHANGED <<now, pc, read, at, compound, sr_riport_time, last, since>>

\* Time passes where the task waits: for the clock, the mutex or a push.
Tick ==
  /\ now < MaxTime
  /\ \/ pc = "wait" /\ now < read + Period
     \/ pc \in {"lock", "push", "flush"} /\ now < read + MaxHold
  /\ now' = now + 1
  /\ UNCHANGED <<pc, read, at, compound, active, sr_riport_time, last, since>>

Next ==
  \/ ReadClock \/ TakeMutex \/ Report \/ Pass \/ Pushed
  \/ Finish \/ LastPushed \/ Wake \/ Tick
  \/ \E s \in Subflow : Join(s) \/ Detach(s)

Spec == Init /\ [][Next]_vars

-----------------------------------------------------------------------------
(* Properties.                                                             *)

\* The variables stay in their domains.
TypeOK ==
  /\ now \in Nat /\ read \in Nat
  /\ pc \in {"top", "lock", "loop", "push", "flush", "wait"}
  /\ at \in 1 .. N + 1
  /\ compound \in BOOLEAN
  /\ active \in [Subflow -> BOOLEAN]
  /\ sr_riport_time \in [Subflow -> Nat]
  /\ last \in [Subflow -> Nat \cup {Never}]
  /\ since \in [Subflow -> Nat]

\* Two reports of a subflow are never closer to each other than the interval
\* less what one run takes, although the second run's clock is read before
\* and the first one's report is made after a wait for the mutex.
ReportsSpaced ==
  [][\A s \in Subflow :
       last'[s] # last[s] /\ last[s] # Never =>
         last'[s] - last[s] >= Interval - MaxHold]_vars

\* The longest time from one reading of the clock to the next.
Lag == IF Period > MaxHold THEN Period ELSE MaxHold

LongestPause == Interval + Lag + MaxHold - 1

\* A subflow that stays active is reported of again before the interval, one
\* run or the pause after it, and a further run have passed: a clock read too
\* early for a report is not read again for so long.
ReportedInTime == \A s \in Subflow : active[s] => now - since[s] <= LongestPause
=============================================================================
