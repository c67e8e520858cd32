SPECIFICATION Spec
CONSTANTS
  AttySets <- OnTerminal
  HANGUP = FALSE
  MAX_SIGNALS = 0
  MAX_RESIZES = 0
  MAX_KEYS = 1
CHECK_DEADLOCK FALSE
INVARIANT StdinRestored
