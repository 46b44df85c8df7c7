\* Three paths, a tree of 8 units.  Rates may round down to 0: a path may come
\* with value 0, as the newest of 32 subflows that join one by one does on the
\* tree of 128 units.
SPECIFICATION Spec
CONSTANTS
  Path = {p1, p2, p3}
  NoPath = NoPath
  Fault = Fault
  MaxValue = 8
  MaxPathNum = 3
  Values = {0, 1, 5, 7}
SYMMETRY PathSymmetry
INVARIANTS TypeOK EvenSpread SharesWithinOneUnit
PROPERTIES FaultOnlyWhenEmptyOrStale ImplementsWeightedDispatch
\* A crashed process takes no step.
CHECK_DEADLOCK FALSE
