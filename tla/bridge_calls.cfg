\* Two scans and one request of the dashboard; a response may be too long, and a
\* scan may never end of itself: an answer or a cancellation releases its caller.
SPECIFICATION FairSpec
CONSTANTS
  Scan = {s1, s2}
  Request = {r1}
  MaxNotes = 1
  Oversize = TRUE
  None = None
INVARIANTS OwnAnswer ReaderNeverBlocks NothingLeaks HonestOutcome
PROPERTIES AnsweredCallReturns CancelledScanReturns
CHECK_DEADLOCK FALSE
