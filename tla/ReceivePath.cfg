CONSTANTS
  Start <- MCStart
  Cap = 4
  MaxAnnounce = 4
SPECIFICATION FairSpec
\* The peer falls silent in the end, and a short completion ends the receiving.
CHECK_DEADLOCK FALSE
INVARIANTS
  TypeOK
  EachByteOnce
  FramedWhileUndisturbed
PROPERTIES
  ServedWhileUndisturbed
