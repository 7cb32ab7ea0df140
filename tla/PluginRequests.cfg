SPECIFICATION FairSpec
CONSTANTS
  Thread = {t1, t2, t3}
  MaxRequests = 4
  MayThrow = TRUE
PROPERTIES DrainWaits ShutdownCompletesUnlessApart
\* The plugin is gone in the end.
CHECK_DEADLOCK FALSE
