SPECIFICATION Spec
CONSTANTS
  SendCap = 2
  NetCap = 2
CHECK_DEADLOCK FALSE
INVARIANT
  ReplyNeverPanics
