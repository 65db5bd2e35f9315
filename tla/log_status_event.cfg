\* The status event of a scan whose report is on the disk.
SPECIFICATION Spec
CONSTANTS
  Client = {a}
  BufferLimit = 2
  ChanCapacity = 1
  MaxLines = 2
  LateLines = FALSE
INVARIANTS StatusKnowsReport
CHECK_DEADLOCK FALSE
