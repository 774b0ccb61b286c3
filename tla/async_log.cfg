CONSTANTS
  Producer = {p1, p2}
  LineLength = {1, 2}
  CallLevel = {2}
  SetLevels = {7}
  FileArgs = {TRUE, FALSE}
  RollSize = 2
  MaxCalls = 3
  MaxInits = 2
  MaxClock = 1
SPECIFICATION Spec
INVARIANTS TypeOK LinesConserved ExitDrains CurrentFileIsTail RollBound
PROPERTY ImplementsService
CHECK_DEADLOCK FALSE
