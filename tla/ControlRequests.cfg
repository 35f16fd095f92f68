CONSTANTS
  Devs = {cd, hd}
  MaxConns = 2
  MaxId = 2
SPECIFICATION Spec
INVARIANTS OwnAnswersMatch PendingIsWaiting ReadLoopNeverBlocks
CHECK_DEADLOCK FALSE
