SPECIFICATION Spec
CONSTANTS
  AttySets <- InputOnly
  HANGUP = FALSE
  MAX_SIGNALS = 0
  MAX_RESIZES = 0
  MAX_KEYS = 0
CHECK_DEADLOCK FALSE
INVARIANT TerminalNormalAtEnd
