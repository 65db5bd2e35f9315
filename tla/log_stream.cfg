\* Two browsers, five lines, a ring of three and channels of two: the ring
\* turns, a slow browser misses lines, callbacks log after finish.
SPECIFICATION FairSpec
CONSTANTS
  Client = {a, b}
  BufferLimit = 3
  ChanCapacity = 2
  MaxLines = 5
  LateLines = TRUE
INVARIANTS NoSendOnClosed NoSilentGap StatusComesLast
PROPERTIES WatcherIsReleased
CHECK_DEADLOCK FALSE
