CONSTANTS
  w1 = w1
  w2 = w2
  a = a
  b = b
  c = c
  Dispatcher = Dispatcher
  Zero = Zero
  Worker <- MCWorker
  Packet <- MCPacket
  Size <- MCSize
  Cap = 3
  QueueMax = 2
SPECIFICATION FairSpec
CHECK_DEADLOCK FALSE
PROPERTY
  NextIsInitiated
