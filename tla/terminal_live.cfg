SPECIFICATION FairSpec
CONSTANTS
  AttySets <- AnyAtty
  HANGUP = TRUE
  MAX_SIGNALS = 1
  MAX_RESIZES = 2
  MAX_KEYS = 1
CHECK_DEADLOCK FALSE
PROPERTY ClientReturns
PROPERTY SizeFollows
