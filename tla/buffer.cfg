CONSTANTS
  Byte = {0, 255}
  Data <- MCData
  Integer <- MCInteger
  Request = {1, 2, 3}
  kCheapPrepend = 2
  InitialSize = 2
  ExtraSize = 2
  MaxReadable = 5
SPECIFICATION Spec
INVARIANTS TypeOK WasteBounded WideIntegersReadBack ImplementsQueue SpaceOnRequest
CHECK_DEADLOCK FALSE
