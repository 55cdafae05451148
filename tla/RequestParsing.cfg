SPECIFICATION FairSpec
CONSTANTS
  Cap = 4
  MagicSize = 2
  HeadSize = 2
  Streams <- MixedStreams
  Magics <- AnyMagic
  Resets = TRUE
INVARIANTS BufferRight Faithful KeptOpen
PROPERTIES Served
CHECK_DEADLOCK FALSE
