SPECIFICATION BackupsSpec
CONSTANTS
  None = None
  BatchSize = 1
  ReportSkew = 1
  WarningAfter = 1
  CriticalAfter = 2
  RemoteSyncWarning = 1
  RestoreTestWarning = 1
  Retention = 2
  MaxTime = 3
  MaxBackups = 3
  MaxReports = 3
INVARIANTS NoBackupForgotten ContextReplaysHistory OpenEpisodeShows
CHECK_DEADLOCK FALSE
