CONSTANTS
  None = None
  ColorQueries = {1, 2}
  DeviceQueries = {1}
  FlowControl = TRUE
  Resizes = {}
  SHUTDOWN_NUM = 2
  MaxOutput = 2
  MaxInput = 1
SPECIFICATION FairSpec
PROPERTY QuitEndsSession
