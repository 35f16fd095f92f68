\* Two commands, the second after the first or beside it; two faults of any kind.
SPECIFICATION Spec
CONSTANTS
  NRuns = 2
  Scenarios <- MCScenarios
  Retries = 1
  Polls = 2
  MaxFaults = 2
INVARIANTS LeavesNothing ActsOnce
PROPERTIES ConsoleKept ForceTakesOver
