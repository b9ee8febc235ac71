CONSTANTS
  Modes <- AllModes
  Capacity = 1
  MaxEntries = 3

SPECIFICATION Spec

INVARIANTS
  NothingLostInFlight

PROPERTIES
  DeliversStream
  GoroutinesEnd

\* The goroutines and their reader end.
CHECK_DEADLOCK FALSE
