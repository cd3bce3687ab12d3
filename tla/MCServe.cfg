CONSTANTS
  None = None
  ColorQueries = {1, 2}
  DeviceQueries = {1}
  FlowControl = TRUE
  Resizes = {2}
  SHUTDOWN_NUM = 2
  MaxOutput = 2
  MaxInput = 2
SPECIFICATION FairSpec
INVARIANTS TypeOK PolledOutputShown KeysInOrder QueriesKept
PROPERTY ChildExitEndsSession
