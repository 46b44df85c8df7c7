\* Two subflows; a run may take longer than the pause between two runs.
SPECIFICATION Spec
CONSTANTS
  N = 2
  Interval = 4
  Period = 1
  MaxHold = 2
  MaxTime = 11
INVARIANTS ReportedInTime
PROPERTIES ReportsSpaced
