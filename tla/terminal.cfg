SPECIFICATION Spec
CONSTANTS
  AttySets <- AnyAtty
  HANGUP = TRUE
  MAX_SIGNALS = 2
  MAX_RESIZES = 2
  MAX_KEYS = 1
CHECK_DEADLOCK FALSE
INVARIANT TermTypeOK
INVARIANT RawOnlyIf
