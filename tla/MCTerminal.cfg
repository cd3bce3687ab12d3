CONSTANTS
  None = None
  NoLink = NoLink
  MAX_CELL_BYTES = 3
  MAX_DIMENSION = 2048
  MAXIMUM_COLOR_QUERIES = 2
  PARAM_MAX = 65535
  MAX_PARAM_BYTES = 7
  MAX_DISPATCH_CHARS = 8
  MAXIMUM_CLIPBOARD_SIZE = 8
  MAX_TITLE = 8
  HasEch = TRUE
  HasBce = TRUE
  HasTitle = TRUE
  WcWidth <- MCWcWidth
  Sizes <- MCSizes
  Seeds <- MCSeeds
  Writes <- MCWrites
  Pieces <- MCPieces
  MaxActs = 2
SPECIFICATION Spec
INVARIANTS TypeOK ClientShowsScreen ScrollsInRegion ControlsInsideSequences Resynchronises
CHECK_DEADLOCK FALSE
