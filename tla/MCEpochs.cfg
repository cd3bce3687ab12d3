CONSTANTS
  None = None
  WcWidth <- MCWcWidth
  MAX_IN_FLIGHT = 6
  predict_overwrite = FALSE
  Sessions <- TypingOn
  PASTE_THRESHOLD = 4
  MaxEvents = 3
SPECIFICATION Spec
INVARIANT NewEpochHeldBack
CHECK_DEADLOCK FALSE
