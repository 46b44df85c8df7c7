\* Four slots, so that the ring wraps and overwrites; words of three values.
SPECIFICATION Spec
CONSTANTS
  Slots = 4
  Young = 1
  Word = 3
  MaxTime = 4
  MaxSent = 4
INVARIANTS FullIsNotEmpty
PROPERTIES GarbageOnlyWhenSilent ImplementsWindow
