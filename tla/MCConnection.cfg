CONSTANTS
  None = None
  Network = {wifi, mobile}
  SERVER_ASSOCIATION_TIMEOUT = 2
  PORT_HOP_INTERVAL = 1
  MAX_PORTS_OPEN = 4
  MAX_OLD_SOCKET_AGE = 5
  SendInterval = 1
  MaxDelay = 1
  MaxNow = 30
SPECIFICATION Spec
INVARIANTS TypeOK TargetsNewest SilenceDetaches NoReplyStranded
VIEW Ages
SYMMETRY MCSymmetry
CHECK_DEADLOCK FALSE
