CONSTANTS
  Viewers = {v1}
  Sizes = {vga, xga}
  Placeholder = xga
  MaxUpdates = 3
SPECIFICATION FairSpec
INVARIANTS TypeOK NoLostWakeup ResizePrecedesRaw RequestOutstanding
PROPERTIES CatchesUp
CHECK_DEADLOCK FALSE
