CONSTANTS
  Byte = {"a", "b", "c"}
  Message <- MCMessage
  Foreign = {t1, t2}
  HighWaterMark = 2
  ShutsWhenWriting = FALSE
  Readings = {"written", "meant"}
  MaxCalls = 2
SPECIFICATION FairSpec
INVARIANTS StreamIntact WriteInterest DownExactlyOnce HalfCloseLosesNothing
PROPERTIES ImplementsStream WriteCompleteMeansWritten HighWaterOnCrossing ForceCloseCloses
CHECK_DEADLOCK FALSE
