CONSTANTS
  k1 = k1
  k2 = k2
  Event = {k1, k2}
  MaxEvents = 2
  State <- MCState
  Diff <- MCState
  NoDiff <- EmptyStream
  InitialState <- EmptyStream
  Input = {k1, k2}
  Do <- StreamDo
  DiffFrom <- StreamDiffFrom
  ApplyString <- StreamApply
  Subtract <- StreamSubtract
  ACK_INTERVAL = 2
  ACK_DELAY = 1
  SHUTDOWN_RETRIES = 2
  ACTIVE_RETRY_TIMEOUT = 2
  SHUTDOWN_NUM = 3
  MAX_SENT_STATES = 3
  THIN_FROM_BACK = 3
  SendMindelay = 1
  Never = 99
  MAX_RECEIVED_STATES = 1
  QUENCH_INTERVAL = 2
  SendIntervals = {1}
  Timeouts = {1}
  Writers = {"client"}
  Quitters = {"client"}
  Leavers = {}
  MaxNow = 2
SPECIFICATION StreamSpec
VIEW LiveState
SYMMETRY MCSymmetry
CHECK_DEADLOCK FALSE
INVARIANTS CommonPart NothingLeftBehind
PROPERTY ServerReadsStream
