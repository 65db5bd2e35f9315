\* Two scans, two workers and two names, one of which is the name of the other's
\* sidecar; a failing sidecar write, files removed late, a child left behind.
SPECIFICATION Spec
CONSTANTS
  CliJob = {c1}
  McpJob = {m1}
  Base = {"foo", "foo.meta"}
  SidecarName <- MetaName
  Worker = {w1, w2}
  Canceller = {}
  Deleter = {d1}
  QueueCapacity = 1
  HasBridge = TRUE
  SidecarFailures = {"open", "write"}
  MaxRestarts = 1
  None = None
SYMMETRY Symmetry
INVARIANTS QueueNeverOverfull ReportIsAttributed ListedReportIsOwn OwnReportsAreShown
PROPERTIES ReportNeverOverwritten
CHECK_DEADLOCK FALSE
