---------------------------- MODULE MCIncidents ----------------------------
EXTENDS Incidents

S(state, health, exit, oom, restarts) ==
  [state |-> state, health |-> health, exit |-> exit, oom |-> oom, restarts |-> restarts]

\* A container with a health check: up, failing, out of memory, removed.
MCSamples ==
  {S("running", "healthy", 0, FALSE, 0), S("running", "unhealthy", 0, FALSE, 0),
   S("exited", "unhealthy", 1, TRUE, 0), S("not_found", "unknown", None, FALSE, 0)}

MCExpectations == {"running", "stopped"}
=============================================================================
