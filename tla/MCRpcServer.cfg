SPECIFICATION FairSpec
CONSTANTS
  MaxId = 3
  MaxInFlight = 1
  QueueCap = 2
INVARIANTS
  TypeOK
  HandlersBounded
  OneTerminal
  CommittedWasWritten
  DrainPreservesWork
PROPERTIES
  ImplementsContract
  SessionEnds
  AnsweredOrEnded
