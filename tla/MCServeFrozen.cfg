CONSTANTS
  None = None
  ColorQueries = {1, 2}
  DeviceQueries = {1}
  FlowControl = TRUE
  Resizes = {2}
  SHUTDOWN_NUM = 2
  MaxOutput = 2
  MaxInput = 3
SPECIFICATION Spec
PROPERTY FrozenOnceShutdown
