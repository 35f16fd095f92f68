CONSTANTS
  Kinds = {cd}
  MaxConns = 2
  MaxMounts = 2
  MaxClicks = 3
  JsonCap = 1
SPECIFICATION FairSpec
INVARIANTS SessionIsTracked PanelMatchesBacking
PROPERTIES NoOrphanedRedirection ReadLoopResumes
CHECK_DEADLOCK FALSE
