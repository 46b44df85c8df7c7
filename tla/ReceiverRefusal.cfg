\* A refused request, and whether the mutex comes back.
SPECIFICATION Spec
CONSTANTS
  Pad = {p1, p2}
  Id = {i1, i2}
  App = {a1}
  Types = {96, 200, 212}
  None = none
CHECK_DEADLOCK FALSE
PROPERTY RequestGivesMutexBack
