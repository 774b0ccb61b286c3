CONSTANTS
  Waiter = {w1, w2, w3}
  InitialCount <- MCInitialCount
  LeastCount <- MCLeastCount
SPECIFICATION Spec
INVARIANTS NobodySleepsAtZero ReturnsOnlyWhenCounted
PROPERTY WaitersReturn
