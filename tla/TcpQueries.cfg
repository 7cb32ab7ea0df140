SPECIFICATION TcpFairSpec
CONSTANTS
  Query = {q1, q2}
  MaxData = 1
  MaxExecutes = 2
  MayStop = TRUE
\* After the last execute() nothing is left to do.
CHECK_DEADLOCK FALSE
INVARIANTS TimerWhileWaiting
PROPERTIES AnswersTold ExecuteReturns
