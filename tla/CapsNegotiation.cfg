\* Pads come, go and change their peers between the stages.  An event that
\* finds no source pad ends the process.
SPECIFICATION Spec
CONSTANTS
  Subflows = {s1, s2}
  RtcpSrc = rtcp_src
  RtcpSink = rtcp_sink
  NoPad = null
  Wild = wild_pad
  Formats = {rtcp, odd}
  NoFormat = unset
  NoCaps = null_caps
  SrcTemplate = {rtcp}
  Upstream = {rtcp, odd}
SYMMETRY SubflowSymmetry
INVARIANTS AcceptedIsTransformed NegotiatedAlike
PROPERTIES WildOnlyIfUnlinkedMeanwhile
CHECK_DEADLOCK FALSE
