CONSTANTS
  Dispatcher = {d1, d2}
  Deescalates = FALSE
  Retirement = {"host_disabled"}
  MaxAttempts = 2
  AttemptLimit = 9
  MaxRows = 3
  MaxTime = 2
  Opening = {1}
  Backdated = FALSE
  MaxTroubles = 1
SPECIFICATION FairSpec
CHECK_DEADLOCK FALSE
INVARIANTS NoDoubleSend RecoveryFollowsAlert PostedInOrder
PROPERTIES PersistingIncidentIsReported RecoveryIsReported
