SPECIFICATION FairSpec
CONSTANTS
  Buffers = {b1}
  Ground = Ground
  Dangling = Dangling
  Cap = 2
  Window = 2
  Sessions <- MCSessions
INVARIANTS
  NothingReleasedIsNamed
  DrawsWholeSet
PROPERTIES
  ClearsAreQuiet
  PassEnds
\* After a wait that gave up, or without its host, the render thread may stop.
CHECK_DEADLOCK FALSE
