SPECIFICATION FairSpec
CONSTANTS
  small = small
  other = other
  full = full
  large = large
  Key <- MCKey
  Size <- MCSize
  Client = {c1, c2}
  MemorySize = 2
  FileSize = 2
  MaxPending = 2
  MayFail = TRUE
  Spurious = TRUE
  None = None
\* After a shutdown the queue is full for ever.
CHECK_DEADLOCK FALSE
INVARIANTS NothingLost
PROPERTY PendingWritten
