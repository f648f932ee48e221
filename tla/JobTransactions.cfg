CONSTANTS
  Tx = {t1, t2, t3}
  Op = {"stop_backend", "save_world"}
  Owner = {a1, a2}
  Lease = 1
  MaxJobs = 2
  MaxNow = 1
  MaxBegun = 5
  MaxAborts = 1
SYMMETRY Symmetry
SPECIFICATION Spec
CHECK_DEADLOCK FALSE
INVARIANTS AuditChainIsLinear NoDeadlock
PROPERTIES CommitsAreLegal
