SPECIFICATION Spec
CONSTANTS
  c1 = c1
  c2 = c2
  p1 = p1
  Clients = {c1, c2}
  Requests <- PairRequests
  Str <- MCStr
  StrLen <- MCStrLen
  DaemonArgs = {"--daemon"}
  Uids = {0, 1}
  Pts = {p1}
  NoPts = NoPts
  None = None
  PATH_MAX = 2
  MAX_ARGS = 2
  BACKLOG = 2
  SOCK_BUF = 1
  CmdStatus = {9}
  OptExits = {1}
  Garbage = {0, 77}
  MAX_FAULTS = 1
CHECK_DEADLOCK FALSE
SYMMETRY ClientSymmetry
INVARIANT ConnectionHeld
INVARIANT ListenerHeld
INVARIANT PtyOwned
INVARIANT StatusPassedOn
