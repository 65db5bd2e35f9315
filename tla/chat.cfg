\* Two Sends of up to two turns with two tools each, a Delete and a restart.
SPECIFICATION Spec
CONSTANTS
  Sender = {s1, s2}
  MaxToolIterations = 2
  MaxTools = 2
  MaxRestarts = 1
  Empty = Empty
  Torn = Torn
  None = None
SYMMETRY Symmetry
INVARIANTS StoredHistoryPairsUp RebuiltIsWhatWasSaid AcknowledgedMessageIsKept FileIsWhole
CHECK_DEADLOCK FALSE
