CONSTANTS
  w1 = w1
  w2 = w2
  p1 = p1
  p2 = p2
  p3 = p3
  p4 = p4
  NoPacket = NoPacket
  Worker <- MCWorker
  Obj <- MCObj
  InitPool <- MCInitPool
SPECIFICATION FairSpec
\* The dispatch thread may exit at start-up, and clients may fall silent.
CHECK_DEADLOCK FALSE
INVARIANTS
  TypeOK
  OneOwner
  ServicePresent
PROPERTIES
  HandOffSpec
  ServedUnderTraffic
