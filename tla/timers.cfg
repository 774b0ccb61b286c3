CONSTANTS
  Timer = {1, 2}
  Kind <- MCKind
  MaxTime = 2
  MaxPending = 1
SPECIFICATION Spec
INVARIANT QueuedWhileNeeded
PROPERTIES ImplementsTimers MissedOnlyBehindStale
CHECK_DEADLOCK FALSE
