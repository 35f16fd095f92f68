CONSTANTS
  Viewers = {v1, v2}
  Sizes = {xga}
  Placeholder = xga
  MaxUpdates = 1
SPECIFICATION FairSpec
PROPERTIES CatchesUp
CHECK_DEADLOCK FALSE
