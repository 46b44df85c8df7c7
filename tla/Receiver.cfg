\* Two threads may request the same id; types on both sides of the bounds of
\* RTCP.  A refused request stops the element.
SPECIFICATION FairSpec
CONSTANTS
  Pad = {p1, p2}
  Id = {i1}
  App = {a1, a2}
  Types = {191, 192, 212, 224}
  None = none
INVARIANTS UniqueIds LockLostOnlyByRefusal RtpPathSurvivesRtcp
PROPERTIES ReadySubflowMeasures EveryCallReturns
CHECK_DEADLOCK FALSE
