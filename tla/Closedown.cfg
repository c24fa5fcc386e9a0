SPECIFICATION Spec
CONSTANTS
  NumLogs = 3
  NumLate = 1
  Logs <- MCLogs
  Late <- MCLate
  Messages <- MCMessages
  InputCapacity = 2
  ResultCapacity = 1
  LogCapacity = 2
  LogBatch = 2
INVARIANTS
  TypeOK
  LogInOrder
  SentIsAnswered
PROPERTIES
  LogCoreIsDelivery
  ResultsGetCounted
  LogLeavesCore
  MainEnds
