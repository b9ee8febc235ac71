CONSTANTS
  Modes <- MboxIncremental
  Capacity = 1
  MaxEntries = 3

SPECIFICATION Spec

PROPERTY BaseChannelCloses

CHECK_DEADLOCK FALSE
