\* One connection with up to five requests; the limits of the code scaled down.
SPECIFICATION FairSpec
CONSTANTS
  MaxRequests = 5
  Messages = 2
  ProbeLimit = 2
  MaxRequestSize = 3
  ChunkSize = 2
  MaxCommands = 2
  Values <- MCValues
  Questions <- MCQuestions
  MaxVarbinds = 2
INVARIANTS TypeOK TrailLosesOnlyTheLast SmtpEnvelope FtpIdentity MemcachedFraming SnmpWalk
PROPERTIES ShownIsReported ImplementsGate ConnectionsEnd
\* A connection ends.
CHECK_DEADLOCK FALSE
