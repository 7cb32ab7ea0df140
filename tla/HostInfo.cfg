SPECIFICATION FairSpec
CONSTANTS
  Ip = {i1, i2}
  Caller = {c1}
  Worker = {w1, w2, w3}
  Stopper = {s1}
  Options <- MCOptions
  Default <- MCDefault
  CacheSize = 1
  PendingLimit = 2
  NoIp = NoIp
INVARIANTS SingleFlight QueueAttended
PROPERTIES ImplementsFairLookups ShutdownEndsUnlessRestarted
CHECK_DEADLOCK FALSE
