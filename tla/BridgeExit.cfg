CONSTANTS
  Tabs = {t1}
  MaxTimers = 1
SPECIFICATION Spec
INVARIANT ReleasedBeforeExit
CHECK_DEADLOCK FALSE
