CONSTANTS
  c1 = c1
  c2 = c2
  t1 = t1
  t2 = t2
  Channel = {c1, c2}
  Fd = {5}
  fd <- MCfd
  Unasked = {}
  NoChannel = NoChannel
  Thread = {t1, t2}
  MaxFunctors = 3
SPECIFICATION FairReactorSpec
INVARIANTS ConnectedIsRegistered OnlyTheseStay RegistrationOwned RemovedStaysOut OneChannelPerFd
PROPERTIES StaleIsForEver ClosedIsReleased
