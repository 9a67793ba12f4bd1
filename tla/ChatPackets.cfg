SPECIFICATION FairSpec
CONSTANTS
  User = {u1}
  Size = 3
  MaxChunk = 2
  Wide = 64
  Start <- MCStart
  MaxConn = 2
INVARIANTS
  WritesInBuffer
  HandledInOrder
  EveryPacketHasItsIndex
PROPERTY PacketsAreTaken
CHECK_DEADLOCK FALSE
