\* Five parts, one at a time.  A state change may end in a deadlock of the
\* sender or wait for the mutex a refused request has kept: see ChangeReturns.
\* Three slots, at most two subflows a run, a counter of twelve values; a buffer
\* of three reports and five subflows; a rotation with head, middle and end;
\* three readers of the lock.
SPECIFICATION Spec
CONSTANTS
  Slots = 3
  Skews = {0, 2, 5}
  Paths = 2
  Weight = 4
  Scale = 2
  IntSpace = 12
  MaxSize = 42
  Reporters = 5
  Subflows = {s1, s2, s3}
  RtcpSrc = RtcpSrc
  Sinks = {s1, s2}
  RtcpSink = RtcpSink
  NoPad = NoPad
  None = None
INVARIANTS TypeOK MaxOfRecent ReportsReadBack QuietBelowPaused
PROPERTIES ServedOnceARound EverySubflowInItsTurn RequestReturnsOnceQuiet ChangeReturns
CHECK_DEADLOCK FALSE
