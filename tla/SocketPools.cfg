SPECIFICATION Spec
CONSTANTS
  Clients = 4
  Contexts = 4
  MaxConn = 5
INVARIANTS
  TypeOK
  IndicesConserved
  ReceivesUnseen
  LastConnection
CHECK_DEADLOCK FALSE
