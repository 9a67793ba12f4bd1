CONSTANTS
  Start <- MCStart
  Cap = 4
  MaxAnnounce = 4
SPECIFICATION Spec
CHECK_DEADLOCK FALSE
PROPERTY
  AlignKeepsUnread
