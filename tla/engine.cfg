\* The endpoint lists of the protocol descriptors, two clients.
SPECIFICATION FairSpec
CONSTANTS
  Launches <- MCLaunches
  Clients = {c1, c2}
INVARIANTS TypeOK GracefulExit
PROPERTIES ImplementsGroup EngineEnds
\* An engine ends.
CHECK_DEADLOCK FALSE
