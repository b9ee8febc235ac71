CONSTANTS
  p1 = p1
  p2 = p2
  Process = {p1, p2}
  MaxSaves = 3
  MaxChunks = 2

SPECIFICATION SessionSpec

INVARIANTS
  FileIsLastSave

PROPERTY QuietLoadIsLastSave

CHECK_DEADLOCK FALSE
