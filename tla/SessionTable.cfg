SPECIFICATION Spec
CONSTANTS
  Worker = {w1, w2}
  Client = {c1, c2, c3}
  Socket = {s1, s2, s3}
  None = None
INVARIANTS
  TypeOK
  OneAccept
  RegisteredUnderItsID
  ClosesTheFailed
CHECK_DEADLOCK FALSE
