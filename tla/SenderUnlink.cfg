\* Two subflows; one of them is unlinked.
SPECIFICATION Spec
CONSTANTS
  SeqSpace = 2
  CycleSpace = 1
  CountSpace = 2
  Pad = {p1, p2}
  Id = {i1, i2}
  App = {app}
  RtcpPad = RtcpPad
  NoPad = NoPad
  Stale = Stale
  None = None
SYMMETRY PadSymmetry
PROPERTIES UnlinkDetachesItsSubflow
\* A crashed process stops, and so does one caught in gst_pad_unlink.
CHECK_DEADLOCK FALSE
