SPECIFICATION Spec
SYMMETRY Symmetry
CONSTANTS
  None = None
  Kinds = {"info", "unsound"}
  Session = {s1, s2}
  ReportWindow = 0
  ReportMax = 3
  Skew = 1
  RpcTimeout = 0
  RateGap = 1
  Retention = 1
  Ranges = {0}
  InitialLimit = 1
  PollLimit = 1
  MaxRendered = 2
  MaxNow = 2
  MaxLines = 2
  MaxReports = 2
  MaxLoads = 2
  MaxAborts = 1
CHECK_DEADLOCK FALSE
INVARIANTS LineStoredOnce FollowMissesNothing
