SPECIFICATION Spec
CONSTANTS
  NumEvents = 4
  Events <- MCEvents
  MaxQueue = 1
  DropModes <- BlockOnly
  Sampling = FALSE
  ReaderMayGiveUp = FALSE
INVARIANTS
  BlockModeDropsNothing
