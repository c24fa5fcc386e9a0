\* The process from start to end, twice, with the topics, the servers and
\* the compacted records.
CONSTANTS
  DefaultTopics <- MCDefaultTopics
  Tokens <- MCTokens
  LongKey = 3
  Files <- MCFiles
  Traffic <- MCTraffic
  Lives = 2

SPECIFICATION Spec

INVARIANTS
  TypeOK
  VerdictRight
  EventsHaveATopic
  LateProbesRefused
  LogHeard

PROPERTIES
  OnlyDuplicatesVanish
