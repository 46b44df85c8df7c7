\* One application thread, two subflows.
SPECIFICATION FairSpec
CONSTANTS
  SeqSpace = 1
  CycleSpace = 1
  CountSpace = 1
  Pad = {p1, p2}
  Id = {i1, i2}
  App = {app}
  RtcpPad = RtcpPad
  NoPad = NoPad
  Stale = Stale
  None = None
INVARIANTS WaitsOnlyWithoutPath EmptyTreeOnlyAfterWait UniqueIds ReportsOnlyOfActive
PROPERTIES WaitingPacketLeaves LinkedSubflowJoins
\* A crashed process stops, and so does one caught in gst_pad_unlink.
CHECK_DEADLOCK FALSE
