CONSTANTS
  Byte = {"a", "b", "c"}
  Message <- MCMessage
  Foreign = {t1}
  HighWaterMark = 2
  ShutsWhenWriting = FALSE
  Readings = {"written"}
  MaxCalls = 1
SPECIFICATION Spec
INVARIANT CloseOnce
CHECK_DEADLOCK FALSE
