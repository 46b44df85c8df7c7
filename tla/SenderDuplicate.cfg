\* Two application threads request pads.
SPECIFICATION Spec
CONSTANTS
  SeqSpace = 2
  CycleSpace = 1
  CountSpace = 2
  Pad = {p1, p2}
  Id = {i1, i2}
  App = {app1, app2}
  RtcpPad = RtcpPad
  NoPad = NoPad
  Stale = Stale
  None = None
SYMMETRY PadSymmetry
INVARIANTS UniqueIds
\* A crashed process stops, and so does one caught in gst_pad_unlink.
CHECK_DEADLOCK FALSE
