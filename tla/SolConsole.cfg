CONSTANTS
  SeqMax = 2
  MaxOut = 3
  Inputs <- MCInputs
  MaxChunks = 3
  MaxFaults = 1
SPECIFICATION SolFairSpec
INVARIANTS OutputExact EscapeIgnoresChunking TeardownOrdered
PROPERTY OutputAppears
CHECK_DEADLOCK FALSE
