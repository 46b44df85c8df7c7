-------------------------- MODULE ReportClockProofs --------------------------
(***************************************************************************)
(* ReportClock for every number of subflows and every interval.  A report  *)
(* is made with a clock read up to MaxHold before; what bounds the pauses  *)
(* is where the loop stands: a subflow it has passed in this run was not   *)
(* due when the clock was read, one it has not reached yet was not due     *)
(* when the clock was read for the last run.                               *)
(***************************************************************************)
EXTENDS ReportClock, TLAPS

InRun == pc \in {"lock", "loop", "push", "flush"}

\* How old the run's clock may be.
ClockAge ==
  /\ read <= now
  /\ InRun => now <= read + MaxHold
  /\ pc = "wait" => now <= read + Lag
  /\ pc \in {"top", "lock"} => at = 1

\* When a report falls due, counted from the last one and from the start.
DueTimes ==
  \A s \in Subflow :
    /\ last[s] # Never => sr_riport_time[s] >= last[s] + Interval - MaxHold
    /\ since[s] <= now
    /\ sr_riport_time[s] <= now + Interval
    /\ active[s] => sr_riport_time[s] <= since[s] + Interval

Waiting(s) == pc = "lock" \/ (pc \in {"loop", "push"} /\ at <= s)
Handled(s) == pc \in {"flush", "wait"} \/ (pc \in {"loop", "push"} /\ at > s)

\* What the place of the loop says of the pause of a subflow.
PauseSoFar ==
  \A s \in Subflow : active[s] =>
    /\ pc = "top" => now <= since[s] + Interval + Lag - 1
    /\ Waiting(s) => read <= since[s] + Interval + Lag - 1
    /\ Handled(s) => read <= since[s] + Interval - 1

IInv == TypeOK /\ ClockAge /\ DueTimes /\ PauseSoFar

-----------------------------------------------------------------------------
\* Lag is the longer of the pause and the run.
LEMMA LagBounds == Lag \in Nat /\ Lag >= Period /\ Lag >= MaxHold
BY ClockAssumption DEF Lag

\* The numbers, without the functions they are values of.
LEMMA Numbers ==
  ASSUME TypeOK
  PROVE  /\ now \in Nat /\ read \in Nat /\ N \in Nat /\ N > 0 /\ at \in Nat /\ at >= 1 /\ at <= N + 1
         /\ Interval \in Nat /\ Interval > 0 /\ Period \in Nat /\ MaxHold \in Nat
         /\ Lag \in Nat /\ Lag >= Period /\ Lag >= MaxHold
         /\ \A s \in Subflow : s \in Nat /\ s >= 1 /\ s <= N
         /\ \A s \in Subflow : /\ sr_riport_time[s] \in Nat /\ since[s] \in Nat
                              /\ last[s] # Never => last[s] \in Nat
<1>1. N \in Nat /\ N > 0
  BY ClockAssumption
<1>2. /\ at \in Nat /\ at >= 1 /\ at <= N + 1
      /\ \A s \in Subflow : s \in Nat /\ s >= 1 /\ s <= N
  BY <1>1 DEF TypeOK, Subflow
<1>. QED
  BY <1>1, <1>2, ClockAssumption, LagBounds DEF TypeOK

LEMMA InitHolds == Init => IInv
<1> SUFFICES ASSUME Init PROVE IInv
  OBVIOUS
<1>1. TypeOK
  <2>1. active \in [Subflow -> BOOLEAN]
    BY DEF Init
  <2>2. sr_riport_time \in [Subflow -> Nat] /\ since \in [Subflow -> Nat]
    BY DEF Init
  <2>3. last \in [Subflow -> Nat \cup {Never}]
    BY DEF Init
  <2>4. 1 \in 1 .. N + 1
    BY ClockAssumption
  <2>. QED
    BY <2>1, <2>2, <2>3, <2>4 DEF Init, TypeOK
<1>2. /\ pc = "top" /\ now = 0 /\ read = 0 /\ at = 1
      /\ \A s \in Subflow : ~ active[s] /\ sr_riport_time[s] = 0 /\ last[s] = Never /\ since[s] = 0
  BY DEF Init
<1>3. ClockAge /\ DueTimes /\ PauseSoFar
  BY <1>1, <1>2, Numbers DEF ClockAge, InRun, DueTimes, PauseSoFar
<1>. QED
  BY <1>1, <1>3 DEF IInv

-----------------------------------------------------------------------------
\* Steps that leave the subflows alone.
LEMMA PlaceStep ==
  ASSUME IInv, ReadClock \/ TakeMutex \/ Pushed \/ Finish \/ LastPushed \/ Wake \/ Tick
  PROVE  IInv'
<1>0. /\ TypeOK /\ ClockAge
      /\ now \in Nat /\ read \in Nat /\ N \in Nat /\ Lag \in Nat
      /\ Period \in Nat /\ MaxHold \in Nat /\ Lag >= Period /\ Lag >= MaxHold
  BY Numbers DEF IInv
<1>2. UNCHANGED <<active, sr_riport_time, last, since>> /\ now' \in Nat /\ now' >= now
  BY <1>0 DEF ReadClock, TakeMutex, Pushed, Finish, LastPushed, Wake, Tick
<1>1. TypeOK'
  <2>1. /\ read' \in Nat /\ at' \in 1 .. N + 1 /\ compound' \in BOOLEAN
        /\ pc' \in {"top", "lock", "loop", "push", "flush", "wait"}
    <3>1. 1 \in 1 .. N + 1
      BY <1>0
    <3>. QED
      BY <1>0, <3>1 DEF TypeOK, ReadClock, TakeMutex, Pushed, Finish, LastPushed, Wake, Tick
  <2>. QED
    BY <1>0, <1>2, <2>1 DEF TypeOK
<1>3. ClockAge'
  <2>1. CASE ReadClock
    BY <1>0, <2>1 DEF ReadClock, ClockAge, InRun
  <2>2. CASE TakeMutex \/ Pushed \/ Finish \/ LastPushed
    BY <1>0, <2>2 DEF TakeMutex, Pushed, Finish, LastPushed, ClockAge, InRun
  <2>3. CASE Wake
    BY <1>0, <2>3 DEF Wake, ClockAge, InRun
  <2>4. CASE Tick
    BY <1>0, <2>4 DEF Tick, ClockAge, InRun
  <2>. QED
    BY <2>1, <2>2, <2>3, <2>4
<1>4. DueTimes'
  <2> SUFFICES ASSUME NEW s \in Subflow
               PROVE  /\ last[s] # Never => sr_riport_time[s] >= last[s] + Interval - MaxHold
                      /\ since[s] <= now'
                      /\ sr_riport_time[s] <= now' + Interval
                      /\ active[s] => sr_riport_time[s] <= since[s] + Interval
    BY <1>2 DEF DueTimes
  <2>1. /\ last[s] # Never => sr_riport_time[s] >= last[s] + Interval - MaxHold
        /\ since[s] <= now
        /\ sr_riport_time[s] <= now + Interval
        /\ active[s] => sr_riport_time[s] <= since[s] + Interval
    BY DEF IInv, DueTimes
  <2>2. since[s] \in Nat /\ sr_riport_time[s] \in Nat /\ Interval \in Nat
    BY ClockAssumption DEF IInv, TypeOK
  <2>. QED
    BY <1>0, <1>2, <2>1, <2>2
<1>5. ASSUME NEW s \in Subflow, active[s]
      PROVE  /\ pc' = "top" => now' <= since[s] + Interval + Lag - 1
             /\ Waiting(s)' => read' <= since[s] + Interval + Lag - 1
             /\ Handled(s)' => read' <= since[s] + Interval - 1
  <2>0. /\ since[s] \in Nat /\ s \in 1 .. N /\ N \in Nat /\ at \in 1 .. N + 1
        /\ now \in Nat /\ read \in Nat /\ Interval \in Nat /\ Lag \in Nat
        /\ compound \in BOOLEAN
    BY <1>5, ClockAssumption, LagBounds DEF IInv, TypeOK, Subflow
  <2>1. /\ pc = "top" => now <= since[s] + Interval + Lag - 1
        /\ Waiting(s) => read <= since[s] + Interval + Lag - 1
        /\ Handled(s) => read <= since[s] + Interval - 1
    BY <1>5 DEF IInv, PauseSoFar
  <2>2. ClockAge
    BY DEF IInv
  <2>3. CASE ReadClock
    BY <2>0, <2>1, <2>2, <2>3 DEF ReadClock, Waiting, Handled, ClockAge
  <2>4. CASE TakeMutex
    BY <2>0, <2>1, <2>2, <2>4 DEF TakeMutex, Waiting, Handled, ClockAge
  <2>5. CASE Pushed
    BY <2>0, <2>1, <2>5 DEF Pushed, Waiting, Handled
  <2>6. CASE Finish
    BY <2>0, <2>1, <2>6 DEF Finish, Waiting, Handled
  <2>7. CASE LastPushed
    BY <2>0, <2>1, <2>7 DEF LastPushed, Waiting, Handled
  <2>8. CASE Wake
    BY <2>0, <2>1, <2>2, <2>8 DEF Wake, Waiting, Handled, ClockAge
  <2>9. CASE Tick
    BY <2>0, <2>1, <2>9 DEF Tick, Waiting, Handled
  <2>. QED
    BY <2>3, <2>4, <2>5, <2>6, <2>7, <2>8, <2>9
<1>6. PauseSoFar'
  BY <1>2, <1>5 DEF PauseSoFar, Waiting, Handled
<1>. QED
  BY <1>1, <1>3, <1>4, <1>6 DEF IInv

\* A report is due again an interval after the reading of the clock, which is
\* at most MaxHold before the report.
LEMMA ReportHolds == ASSUME IInv, Report PROVE IInv'
<1>0. /\ at \in Subflow /\ at \in 1 .. N /\ N \in Nat /\ at + 1 \in 1 .. N + 1
      /\ now \in Nat /\ read \in Nat /\ read <= now /\ now <= read + MaxHold
      /\ Interval \in Nat \ {0} /\ MaxHold \in Nat /\ Lag \in Nat
  BY ClockAssumption, LagBounds DEF IInv, TypeOK, ClockAge, InRun, Report, Subflow
<1>1. TypeOK'
  BY <1>0 DEF IInv, TypeOK, Report, NextRiportTime
<1>2. ClockAge'
  BY <1>0 DEF IInv, ClockAge, InRun, Report
<1>3. ASSUME NEW s \in Subflow
      PROVE  /\ sr_riport_time'[s] = (IF s = at THEN read + Interval ELSE sr_riport_time[s])
             /\ last'[s] = (IF s = at THEN now ELSE last[s])
             /\ since'[s] = (IF s = at THEN now ELSE since[s])
  BY <1>3 DEF IInv, TypeOK, Report, NextRiportTime
<1>4. DueTimes'
  <2> SUFFICES ASSUME NEW s \in Subflow
               PROVE  /\ last'[s] # Never => sr_riport_time'[s] >= last'[s] + Interval - MaxHold
                      /\ since'[s] <= now
                      /\ sr_riport_time'[s] <= now + Interval
                      /\ active[s] => sr_riport_time'[s] <= since'[s] + Interval
    BY DEF DueTimes, Report
  <2>1. CASE s = at
    BY <1>0, <1>3, <2>1
  <2>2. CASE s # at
    BY <1>3, <2>2 DEF IInv, DueTimes
  <2>. QED
    BY <2>1, <2>2
<1>5. PauseSoFar'
  <2> SUFFICES ASSUME NEW s \in Subflow, active[s]
               PROVE  /\ Waiting(s)' => read <= since'[s] + Interval + Lag - 1
                      /\ Handled(s)' => read <= since'[s] + Interval - 1
    BY DEF PauseSoFar, Report
  <2>1. CASE s = at
    BY <1>0, <1>3, <2>1
  <2>2. CASE s # at
    <3>1. s \in 1 .. N /\ since'[s] = since[s]
      BY <1>3, <2>2 DEF Subflow
    <3>2. /\ Waiting(s) => read <= since[s] + Interval + Lag - 1
          /\ Handled(s) => read <= since[s] + Interval - 1
      BY DEF IInv, PauseSoFar
    <3>3. Waiting(s)' => Waiting(s)
      BY <1>0, <3>1 DEF Report, Waiting
    <3>4. Handled(s)' => Handled(s)
      BY <1>0, <2>2, <3>1 DEF Report, Handled
    <3>. QED
      BY <3>1, <3>2, <3>3, <3>4
  <2>. QED
    BY <2>1, <2>2
<1>. QED
  BY <1>1, <1>2, <1>4, <1>5 DEF IInv

\* A subflow that is passed over is inactive, or the clock was read too early.
LEMMA PassHolds == ASSUME IInv, Pass PROVE IInv'
<1>0. /\ at \in Subflow /\ at \in 1 .. N /\ N \in Nat
      /\ now \in Nat /\ read \in Nat /\ Interval \in Nat \ {0} /\ Lag \in Nat
  BY ClockAssumption, LagBounds DEF IInv, TypeOK, Pass, Subflow
<1>1. TypeOK'
  BY <1>0 DEF IInv, TypeOK, Pass
<1>2. ClockAge' /\ DueTimes'
  BY <1>0 DEF IInv, ClockAge, DueTimes, InRun, Pass
<1>3. PauseSoFar'
  <2> SUFFICES ASSUME NEW s \in Subflow, active[s]
               PROVE  /\ Waiting(s)' => read <= since[s] + Interval + Lag - 1
                      /\ Handled(s)' => read <= since[s] + Interval - 1
    BY DEF PauseSoFar, Pass
  <2>1. /\ Waiting(s) => read <= since[s] + Interval + Lag - 1
        /\ Handled(s) => read <= since[s] + Interval - 1
        /\ sr_riport_time[s] <= since[s] + Interval
        /\ sr_riport_time[s] \in Nat /\ since[s] \in Nat /\ s \in 1 .. N
    BY DEF IInv, TypeOK, PauseSoFar, DueTimes, Subflow
  <2>2. CASE s = at
    <3>1. ~ (read >= sr_riport_time[s])
      BY <2>2 DEF Pass, IsDue
    <3>. QED
      BY <1>0, <2>1, <3>1
  <2>3. CASE s # at
    <3>1. Waiting(s)' => Waiting(s)
      BY <1>0, <2>1 DEF Pass, Waiting
    <3>2. Handled(s)' => Handled(s)
      BY <1>0, <2>1, <2>3 DEF Pass, Handled
    <3>. QED
      BY <2>1, <3>1, <3>2
  <2>. QED
    BY <2>2, <2>3
<1>. QED
  BY <1>1, <1>2, <1>3 DEF IInv

\* A start is counted from now; the report before it is not due later than an
\* interval from now.
LEMMA JoinHolds == ASSUME IInv, NEW t \in Subflow, Join(t) \/ Detach(t) PROVE IInv'
<1>0. /\ now \in Nat /\ read \in Nat /\ read <= now
      /\ Interval \in Nat \ {0} /\ Lag \in Nat /\ MaxHold \in Nat
  BY ClockAssumption, LagBounds DEF IInv, TypeOK, ClockAge
<1>1. TypeOK'
  BY <1>0 DEF IInv, TypeOK, Join, Detach
<1>2. /\ ClockAge'
      /\ UNCHANGED <<now, pc, read, at, sr_riport_time, last>>
      /\ pc \in {"top", "lock", "wait"}
  BY DEF IInv, ClockAge, InRun, Join, Detach
<1>3. ASSUME NEW s \in Subflow, active'[s]
      PROVE  since'[s] = now \/ (active[s] /\ since'[s] = since[s])
  BY <1>3 DEF IInv, TypeOK, Join, Detach
<1>4. ASSUME NEW s \in Subflow
      PROVE  since'[s] \in {now, since[s]}
  BY <1>4 DEF IInv, TypeOK, Join, Detach
<1>5. DueTimes'
  BY <1>0, <1>2, <1>3, <1>4 DEF IInv, DueTimes
<1>6. PauseSoFar'
  <2> SUFFICES ASSUME NEW s \in Subflow, active'[s]
               PROVE  /\ pc = "top" => now <= since'[s] + Interval + Lag - 1
                      /\ Waiting(s) => read <= since'[s] + Interval + Lag - 1
                      /\ Handled(s) => read <= since'[s] + Interval - 1
    BY <1>2 DEF PauseSoFar, Waiting, Handled
  <2>1. CASE since'[s] = now
    BY <1>0, <2>1
  <2>2. CASE active[s] /\ since'[s] = since[s]
    BY <2>2 DEF IInv, PauseSoFar
  <2>. QED
    BY <1>3, <2>1, <2>2
<1>. QED
  BY <1>1, <1>2, <1>5, <1>6 DEF IInv

LEMMA NextHolds == IInv /\ [Next]_vars => IInv'
<1> SUFFICES ASSUME IInv, [Next]_vars PROVE IInv'
  OBVIOUS
<1>1. CASE UNCHANGED vars
  BY <1>1 DEF vars, IInv, TypeOK, ClockAge, DueTimes, PauseSoFar, InRun, Waiting, Handled
<1>. QED
  BY <1>1, PlaceStep, ReportHolds, PassHolds, JoinHolds DEF Next

LEMMA Invariance == Spec => []IInv
BY InitHolds, NextHolds, PTL DEF Spec

-----------------------------------------------------------------------------
\* The times and the places of the riporter keep their types.
THEOREM TypeCorrect == Spec => []TypeOK
<1>1. IInv => TypeOK
  BY DEF IInv
<1>. QED
  BY <1>1, Invariance, PTL

\* No subflow that stays active goes without a report for longer than the
\* interval, the longest pause between two runs and one run.
THEOREM PausesBounded == Spec => []ReportedInTime
<1>1. IInv => ReportedInTime
  <2> SUFFICES ASSUME IInv, NEW s \in Subflow, active[s]
               PROVE  now - since[s] <= LongestPause
    BY DEF ReportedInTime
  <2>0. /\ now \in Nat /\ read \in Nat /\ since[s] \in Nat /\ Interval \in Nat
        /\ Lag \in Nat /\ MaxHold \in Nat /\ Lag >= MaxHold
    BY ClockAssumption, LagBounds DEF IInv, TypeOK
  <2>1. CASE pc = "top"
    BY <2>0, <2>1 DEF IInv, PauseSoFar, LongestPause
  <2>2. CASE Waiting(s)
    <3>1. now <= read + MaxHold
      BY <2>2 DEF IInv, ClockAge, InRun, Waiting
    <3>2. read <= since[s] + Interval + Lag - 1
      BY <2>2 DEF IInv, PauseSoFar
    <3>. QED
      BY <2>0, <3>1, <3>2 DEF LongestPause
  <2>3. CASE Handled(s)
    <3>1. now <= read + MaxHold \/ now <= read + Lag
      BY <2>3 DEF IInv, ClockAge, InRun, Handled
    <3>2. read <= since[s] + Interval - 1
      BY <2>3 DEF IInv, PauseSoFar
    <3>. QED
      BY <2>0, <3>1, <3>2 DEF LongestPause
  <2>4. pc = "top" \/ Waiting(s) \/ Handled(s)
    <3>1. /\ at <= s \/ at > s
          /\ pc \in {"top", "lock", "loop", "push", "flush", "wait"}
      BY Numbers DEF IInv, TypeOK
    <3>. QED
      BY <3>1 DEF Waiting, Handled
  <2>. QED
    BY <2>1, <2>2, <2>3, <2>4
<1>. QED
  BY <1>1, Invariance, PTL

\* Two reports of a subflow are never closer than the interval less one run.
THEOREM SpacesKept == Spec => ReportsSpaced
<1>1. IInv /\ [Next]_vars =>
        [\A s \in Subflow : last'[s] # last[s] /\ last[s] # Never =>
           last'[s] - last[s] >= Interval - MaxHold]_vars
  <2> SUFFICES ASSUME IInv, [Next]_vars, ~ UNCHANGED vars,
                      NEW s \in Subflow, last'[s] # last[s], last[s] # Never
               PROVE  last'[s] - last[s] >= Interval - MaxHold
    OBVIOUS
  <2>1. Report
    BY DEF Next, ReadClock, TakeMutex, Pass, Pushed, Finish, LastPushed, Wake, Tick, Join, Detach
  <2>2. s = at /\ last'[s] = now /\ read >= sr_riport_time[s] /\ read <= now
    BY <2>1 DEF Report, IInv, TypeOK, IsDue, ClockAge
  <2>3. sr_riport_time[s] >= last[s] + Interval - MaxHold
    BY DEF IInv, DueTimes
  <2>4. /\ last[s] \in Nat /\ now \in Nat /\ read \in Nat /\ sr_riport_time[s] \in Nat
        /\ Interval \in Nat /\ MaxHold \in Nat
    BY ClockAssumption DEF IInv, TypeOK
  <2>. QED
    BY <2>2, <2>3, <2>4
<1>. QED
  BY <1>1, Invariance, PTL DEF Spec, ReportsSpaced
=============================================================================
