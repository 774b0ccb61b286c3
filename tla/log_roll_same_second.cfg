CONSTANTS
  Producer = {p1, p2}
  LineLength = {2}
  CallLevel = {2}
  SetLevels = {}
  FileArgs = {TRUE, FALSE}
  RollSize = 2
  MaxCalls = 2
  MaxInits = 1
  MaxClock = 1
SPECIFICATION Spec
PROPERTY FilesOnlyGrow
CHECK_DEADLOCK FALSE
