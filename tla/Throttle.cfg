SPECIFICATION FairSpec
CONSTANTS
  Thread = {t1, t2, t3}
  StartLimit = 1
  RestartLimit = 2
  Limit = 3
  IncreaseRate = 2
INVARIANTS IdleIsLow OvershootBounded
PROPERTY LimitRecovers
