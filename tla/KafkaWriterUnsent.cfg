SPECIFICATION Spec
CONSTANTS
  NumEvents = 3
  Events <- MCEvents
  Workers = {w1}
  MaxMessages = 2
  InputMayStall = FALSE
INVARIANTS
  UnsentGoToDLQ
