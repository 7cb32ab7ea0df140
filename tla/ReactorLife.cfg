SPECIFICATION FairSpec
CONSTANTS
  e1 = e1
  e2 = e2
  p1 = p1
  Engine = {e1, e2}
  Plugin = {p1}
  Order <- MCOrder
  Needs <- MCNeeds
  MayFail = {e2, p1}
  Requests = TRUE
  EarlyWait = TRUE
  Timeout = TRUE
  Callback = TRUE
  Waiter = {w1, w2}
  None = None
\* The server stops for good after a shutdown.
CHECK_DEADLOCK FALSE
INVARIANTS EnginesReady TasksOver
PROPERTY WaitsEnd
