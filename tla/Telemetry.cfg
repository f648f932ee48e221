SPECIFICATION TelemetrySpec
CONSTANTS
  None = None
  Drift = 0
  CollectMax = 1
  MetricsMaxAge = 0
  SnapshotMaxAge = 0
  MaxClockSkew = 1
  RateLimit = 1
  OnlineThreshold = 1
  StaleThreshold = 3
  MaxTime = 6
  MaxSends = 2
  MaxChanges = 1
  MaxRuns = 1
CHECK_DEADLOCK FALSE
INVARIANTS StoredOnce BadMeasurementNeverCostsHeartbeat MeasurementsAreRecent DowntimeIsAccounted
