SPECIFICATION Spec
CONSTANTS
  Cap = 4
  MagicSize = 1
  HeadSize = 2
  Streams <- PairStreams
  Magics <- OnlyRight
  Resets = FALSE
INVARIANTS ArgumentsFreed
CHECK_DEADLOCK FALSE
