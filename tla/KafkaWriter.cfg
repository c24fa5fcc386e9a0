SPECIFICATION Spec
CONSTANTS
  NumEvents = 5
  Events <- MCEvents
  Workers = {w1, w2}
  MaxMessages = 2
  InputMayStall = TRUE
INVARIANTS
  TypeOK
  OnePlace
  HandledOnce
  BatchesInBounds
  StrandedOnlyByCancel
PROPERTIES
  ImplementsDelivery
  AcceptedIsSettled
  WorkersReturn
