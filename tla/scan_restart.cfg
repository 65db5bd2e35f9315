\* Two scans under one name, two workers, a Cancel and a Delete, and a restart
\* that leaves a child behind; with the fairness of the worker pool.
SPECIFICATION FairSpec
CONSTANTS
  CliJob = {c1}
  McpJob = {m1}
  Base = {"foo"}
  SidecarName <- MetaName
  Worker = {w1, w2}
  Canceller = {x1}
  Deleter = {d1}
  QueueCapacity = 1
  HasBridge = TRUE
  SidecarFailures = {}
  MaxRestarts = 1
  None = None
INVARIANTS TypeOK NoJobStranded LiveJobIsListed RunningIsCancellable
PROPERTIES TerminalIsFinal ImplementsLifecycle AcceptedScanCloses
CHECK_DEADLOCK FALSE
