CONSTANTS
  Op = {"stop_backend", "restart_backend"}
  Lease = 2
  Skew = 1
  CallTimeout = 0
  ResultTimeout = 1
  Pause = 0
  RequestMaxAge = 0
  MaxJobs = 1
  MaxNow = 2
  MaxFaults = 2
SPECIFICATION FairSpec
INVARIANTS ExecutedAtMostOnce SuccessIsEarned
PROPERTIES EveryJobEnds NotReapedWhileWorking
