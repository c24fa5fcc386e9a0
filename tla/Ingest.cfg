SPECIFICATION Spec
CONSTANTS
  NumEvents = 5
  Events <- MCEvents
  MaxQueue = 2
  DropModes <- BothModes
  Sampling = TRUE
  ReaderMayGiveUp = TRUE
INVARIANTS
  TypeOK
  InArrivalOrder
  Accounted
PROPERTIES
  ReceivedIsConsumed
  ProcessorFree
