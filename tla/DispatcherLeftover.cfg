CONSTANTS
  w1 = w1
  w2 = w2
  p1 = p1
  p2 = p2
  p3 = p3
  p4 = p4
  NoPacket = NoPacket
  Worker <- MCWorker
  Obj <- MCObj
  InitPool <- MCInitPool
SPECIFICATION FairSpec
CHECK_DEADLOCK FALSE
PROPERTY
  HeldTemporarily
