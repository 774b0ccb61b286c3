CONSTANTS
  Byte = {0, 255}
  Data <- MCData
  Integer <- MCInteger
  Request = {1, 2, 3}
  kCheapPrepend = 2
  InitialSize = 2
  ExtraSize = 2
  MaxReadable = 5
SPECIFICATION Spec
INVARIANT NarrowIntegersReadBack
CHECK_DEADLOCK FALSE
