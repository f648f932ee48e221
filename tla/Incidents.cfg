SPECIFICATION Spec
CONSTANTS
  None = None
  Samples <- MCSamples
  Expectations <- MCExpectations
  MaintenanceLengths = {2}
  OnlineThreshold = 1
  StaleThreshold = 2
  MaxTime = 4
  MaxChanges = 1
INVARIANTS ContextReplaysHistory OverlayAgreesWithIncidents ExactStartIsTrue
CHECK_DEADLOCK FALSE
