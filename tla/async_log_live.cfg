CONSTANTS
  Producer = {p1, p2}
  LineLength = {1}
  CallLevel = {2, 6}
  SetLevels = {3}
  FileArgs = {TRUE, FALSE}
  RollSize = 2
  MaxCalls = 2
  MaxInits = 1
  MaxClock = 1
SPECIFICATION FairSpec
INVARIANT NoMissedWakeup
PROPERTIES LinesComeOut FatalCrashes
CHECK_DEADLOCK FALSE
