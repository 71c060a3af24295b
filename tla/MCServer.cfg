SPECIFICATION FairSpec
CONSTANTS
  Null = Null
  c1 = c1
  c2 = c2
  Clients = {c1, c2}
  BufferSize = 2
  MaxRequests = 3
INVARIANTS TypeOK ServesInOrder ShutdownIsDrained PrintsFinalMetrics
PROPERTIES Terminates RequestIsServed ImplementsService
CHECK_DEADLOCK FALSE
