\* Delete against a Submit of the same name.
SPECIFICATION Spec
CONSTANTS
  CliJob = {}
  McpJob = {m1, m2}
  Base = {"foo"}
  SidecarName <- MetaName
  Worker = {w1, w2}
  Canceller = {x1}
  Deleter = {d1}
  QueueCapacity = 1
  HasBridge = TRUE
  SidecarFailures = {}
  MaxRestarts = 0
  None = None
PROPERTIES DeleteSparesPendingScans
CHECK_DEADLOCK FALSE
