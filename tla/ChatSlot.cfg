SPECIFICATION FairSpec
CONSTANTS
  Worker = {w1, w2}
  MaxSocket = 2
  MaxMsg = 2
INVARIANTS
  TypeOK
  FrontUnderWay
  InOneUse
  ClosesItsOwn
  SentWherePushed
  ConnectedListens
PROPERTIES
  SlotComesBack
CHECK_DEADLOCK FALSE
