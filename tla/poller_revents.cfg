CONSTANTS
  c1 = c1
  c2 = c2
  c3 = c3
  Channel = {c1, c2, c3}
  Fd = {5, 6}
  fd <- MCfd
  Unasked = {"HUP"}
  NoChannel = NoChannel
SPECIFICATION Spec
INVARIANT ReportsAreHandled
