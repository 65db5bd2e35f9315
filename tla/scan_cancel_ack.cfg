\* Cancel against the last steps of a running scan.
SPECIFICATION Spec
CONSTANTS
  CliJob = {c1}
  McpJob = {m1}
  Base = {"foo"}
  SidecarName <- MetaName
  Worker = {w1}
  Canceller = {x1}
  Deleter = {}
  QueueCapacity = 1
  HasBridge = TRUE
  SidecarFailures = {}
  MaxRestarts = 0
  None = None
PROPERTIES AcknowledgedCancelTakesEffect
CHECK_DEADLOCK FALSE
