SPECIFICATION Spec
CONSTANTS
  W = 32
  TilePix = 64
  Streams <- MCStreams
  Frames <- MCFrames
INVARIANTS WindowExact BlocksExact NoOverread
