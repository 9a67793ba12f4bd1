SPECIFICATION AFairSpec
CONSTANTS
  Worker = {w1, w2}
  Client = {c1, c2}
  Socket = {s1, s2}
  None = None
  MaxRequests = 2
INVARIANTS
  
  OwnAnswers
  ReceivesOnItsOwn
PROPERTY AcceptRearmed
CHECK_DEADLOCK FALSE
