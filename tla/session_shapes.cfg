SPECIFICATION FairSpec
CONSTANTS
  c1 = c1
  c2 = c2
  p1 = p1
  Clients = {c1}
  Requests <- ShapeRequests
  Str <- MCStr
  StrLen <- MCStrLen
  DaemonArgs = {"--daemon"}
  Uids = {0, 1}
  Pts = {p1}
  NoPts = NoPts
  None = None
  PATH_MAX = 2
  MAX_ARGS = 2
  BACKLOG = 1
  SOCK_BUF = 2
  CmdStatus = {0, 256, 9}
  OptExits = {0, 1, 2}
  Garbage = {0, 77}
  MAX_FAULTS = 2
CHECK_DEADLOCK FALSE
INVARIANT TypeOK
INVARIANT FrameAligned
INVARIANT RequestDecoded
INVARIANT NoCommandBeforeAck
PROPERTY ClientEnds
PROPERTY SessionEnds
