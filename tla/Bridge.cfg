CONSTANTS
  Tabs = {t1, t2}
  MaxTimers = 3
SPECIFICATION FairSpec
INVARIANTS TypeOK PendingTimerMeansIdle NothingLeftOpen
PROPERTIES IdleBridgeExits ConnectSettles
CHECK_DEADLOCK FALSE
