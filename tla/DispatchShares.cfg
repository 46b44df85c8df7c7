\* Three subflows on a tree of 16 units; rates are sixths.
SPECIFICATION DispatchSpec
CONSTANTS
  SeqSpace = 1
  CycleSpace = 1
  CountSpace = 1
  Path = {p1, p2, p3}
  NoPath = NoPath
  Fault = Fault
  MaxValue = 16
  RateUnit = 6
SYMMETRY PathSymmetry
PROPERTIES BatchFitsTree TreeHoldsEveryActive SharesProportional FirstPacketToNewest
