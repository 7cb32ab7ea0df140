SPECIFICATION FairSpec
CONSTANTS
  Ip = {i1}
  Caller = {c1}
  Worker = {w1, w2}
  Stopper = {s1}
  Options <- MCOptions
  Default <- MCDefault
  CacheSize = 1
  PendingLimit = 2
  NoIp = NoIp
PROPERTY ShutdownEnds
CHECK_DEADLOCK FALSE
