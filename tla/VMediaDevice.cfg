CONSTANTS
  Size = 5
  WindowSize = 2
  MaxWindows = 2
  Values = {0, 1}
  Zero = 0
  Writable = TRUE
  BlockSize = 1
  MaxBlocks = 2
SPECIFICATION FairSpec
INVARIANTS CacheCoherent
PROPERTIES ActsAsMedium CommandAnswered
