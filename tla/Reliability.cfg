CONSTANTS
  None = None
  ServiceIds <- MCServiceIds
  Entities <- MCEntities
  Targets <- MCTargets
  Policies <- MCPolicies
  Key = {k1, k2}
  Reconciler = {r1, r2}
  BurnWindows <- MCBurnWindows
  PageRange = 36
  Grace = 0
  MaxDuration = 3
  MaxAhead = 1
  WindowRows = 2
  MaxTime = 3
  MaxEvents = 3
  MaxFaults = 1
SYMMETRY Symmetry
SPECIFICATION ReliabilitySpec
CHECK_DEADLOCK FALSE
INVARIANTS BudgetsAreHonest
PROPERTIES NoFalseRecovery PastIsSettled
