CONSTANTS
  v1 = v1
  v2 = v2
  garbled = garbled
  NoDiff = NoDiff
  Content = {v2}
  Redrawn = {v1}
  State <- MCState
  Diff <- MCDiff
  InitialState <- MCInitial
  Input <- MCInput
  Do <- MCDo
  DiffFrom <- MCDiffFrom
  ApplyString <- MCApplyString
  Subtract <- ScreenSubtract
  View <- MCView
  LeadsAstray <- MCLeadsAstray
  ACK_INTERVAL = 2
  ACK_DELAY = 1
  SHUTDOWN_RETRIES = 2
  ACTIVE_RETRY_TIMEOUT = 2
  SHUTDOWN_NUM = 3
  MAX_SENT_STATES = 3
  THIN_FROM_BACK = 3
  SendMindelay = 1
  Never = 99
  MAX_RECEIVED_STATES = 1
  QUENCH_INTERVAL = 2
  SendIntervals = {1}
  Timeouts = {1}
  Writers = {"server"}
  Quitters = {"server"}
  Leavers = {"server"}
  MaxNow = 3
SPECIFICATION Spec
INVARIANTS TypeOK QueuesOrdered ReferenceHeld AckedNotDiscarded
  DiffNamesItsStates Bookkeeping Agreement FinalScreenDelivered
PROPERTY NeverBackwards
VIEW LiveState
CHECK_DEADLOCK FALSE
