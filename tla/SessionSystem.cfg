SPECIFICATION FairSpec
CONSTANT MaxRequests = 2
INVARIANTS
  ArmedWhileRunning
  SocketsFollowThread
  ConnectingEnds
  ActiveHasSession
PROPERTIES
  EndDisarms
  RequestEnds
  ActiveEnds
CHECK_DEADLOCK FALSE
