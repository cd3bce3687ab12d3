CONSTANTS
  None = None
  WcWidth <- MCWcWidth
  MAX_IN_FLIGHT = 6
  predict_overwrite = FALSE
  Sessions <- MCSessions
  PASTE_THRESHOLD = 4
  MaxEvents = 3
SPECIFICATION Spec
INVARIANTS TypeOK SettledShowsScreen EchoFulfilsGuesses
PROPERTIES EchoAckAdvances
CHECK_DEADLOCK FALSE
