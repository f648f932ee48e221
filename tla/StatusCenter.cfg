CONSTANTS
  None = None
  Kinds = {"incident", "maintenance", "announcement"}
  Schedules <- MCSchedules
  Dispatcher = {d1, d2}
  Stages = {2, 4}
  Lead = 1
  MaxAttempts = 2
  AttemptLimit = 9
  FeedUpdates = 2
  MaxTime <- MCMaxTime
  MaxForms = 3
  MaxSubmits = 3
  MaxToggles = 1
  MaxFaults = 1
SYMMETRY Symmetry
SPECIFICATION Spec
CHECK_DEADLOCK FALSE
INVARIANTS RequestsTakeEffectOnce PostedOnceInOrder
PROPERTIES FeedNeverRevives
