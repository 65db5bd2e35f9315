\* A scan that registers after the read loop has drained the callers.
SPECIFICATION Spec
CONSTANTS
  Scan = {s1, s2}
  Request = {}
  MaxNotes = 0
  Oversize = TRUE
  None = None
INVARIANTS NobodyWaitsForever
CHECK_DEADLOCK FALSE
