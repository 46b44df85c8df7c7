\* One subflow under every event its state machine knows; counters of a few
\* values, so that eight packets wrap each of them.
SPECIFICATION Spec
CONSTANTS
  SeqSpace = 2
  CycleSpace = 3
  CountSpace = 6
  Fired <- Events
  Rates = {1, 2}
  Lengths = {1, 2}
  MaxSent = 8
INVARIANTS CountIsExtendedSequence ScheduledHasRate ActiveOnlyWhileLinked
PROPERTIES ReportsDifferByWhatWasSent
