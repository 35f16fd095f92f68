SPECIFICATION Spec
CONSTANTS
  T = 2
  MaxResolution = 8
  HalfRow <- MCHalfRow
  Modes <- MCModes
  MaxFrames = 3
  MaxFrameParts = 2
  MaxNoise = 1
  Window = 1
INVARIANTS NeverOutOfOrder WholeFrames PictureMatches
PROPERTIES GoroutinesEnd
