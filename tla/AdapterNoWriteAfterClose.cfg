SPECIFICATION Spec
CONSTANTS
  NumEvents = 3
  Events <- MCEvents
  MaxQueue = 1
  DropModes <- BothModes
  Sampling = FALSE
  ReaderMayGiveUp = FALSE
  Workers = {w1}
  MaxMessages = 2
  InputMayStall = FALSE
INVARIANTS
  NoWriteAfterClose
