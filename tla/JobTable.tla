------------------------------ MODULE JobTable ------------------------------
(***************************************************************************)
(* The rules of one row of public.operation_jobs: which status change is   *)
(* legal, who may make it, and what it writes.  They are the body of       *)
(* transition_operation_job and renew_operation_job_lease (migration       *)
(* 202608040005) read as functions of the row, so that the module of the   *)
(* table (OperationJobs) and the module of the worker (McMainLifecycle)    *)
(* use the same ones.                                                      *)
(***************************************************************************)
EXTENDS Integers

\* SQL NULL in the columns of a row.  A lease always expires after the
\* epoch, so 0 stands for a NULL lease_expires_at.
Null == "none"
NoLease == 0

ActiveStatus == {"queued", "leased", "running"}
HeldStatus == {"leased", "running"}
TerminalStatus == {"succeeded", "failed", "cancelled", "expired"}
Status == ActiveStatus \cup TerminalStatus

ActorType == {"console_user", "agent", "system"}

\* The operations of the catalogue and the lock scope each one takes.
LifecycleOps == {"start_backend", "restart_backend", "stop_backend"}
ExclusiveOps == LifecycleOps \cup
                {"restart_proxy", "create_backup", "verify_backup"}
MaintenanceOps == {"maintenance_start", "maintenance_end"}
AllOps == ExclusiveOps \cup MaintenanceOps \cup {"save_world"}
LockScope == {"minecraft:world", "minecraft:exclusive", "minecraft:maintenance"}

ScopeOf(op) == IF op \in ExclusiveOps THEN "minecraft:exclusive"
               ELSE IF op \in MaintenanceOps THEN "minecraft:maintenance"
               ELSE "minecraft:world"

\* Ranks: viewer 0, operator 1, administrator 2, owner 3.
RequiredRank(op) == IF op \in {"restart_proxy", "stop_backend"} THEN 2 ELSE 1
NeedsConfirmation(op) == op \in {"restart_backend", "restart_proxy", "stop_backend"}

-----------------------------------------------------------------------------
IsActive(row) == row.status \in ActiveStatus
IsHeld(row) == row.status \in HeldStatus

\* lease_expires_at is not null and has passed
Lapsed(row, now) == row.expires # NoLease /\ row.expires <= now

AllowedTransitions ==
  {<<"queued", "leased">>, <<"queued", "cancelled">>, <<"queued", "expired">>,
   <<"leased", "running">>, <<"leased", "queued">>, <<"leased", "failed">>,
   <<"leased", "expired">>, <<"running", "succeeded">>,
   <<"running", "failed">>, <<"running", "expired">>}

\* The mutation: the system may expire a lease that is still alive.
MayTransitionEarlyExpiry(row, to, by, o, now) ==
  /\ <<row.status, to>> \in AllowedTransitions
  /\ to \in {"leased", "running", "succeeded"} => by = "agent"
  /\ by = "agent" /\ IsHeld(row) => row.owner = o

\* Actor `by' (an agent presenting lease owner `o') may move the row to
\* status `to' at time `now'.
MayTransition(row, to, by, o, now) ==
  /\ <<row.status, to>> \in AllowedTransitions
  /\ \/ to \in {"leased", "running", "succeeded"} /\ by = "agent"
     \/ to = "cancelled" /\ by \in {"console_user", "system"}
     \/ to = "failed" /\ row.status = "running" /\ by = "agent"
     \/ /\ row.status = "leased" /\ to \in {"queued", "failed"}
        /\ by = "agent" \/ (by = "system" /\ Lapsed(row, now))
     \/ /\ to = "expired" /\ by = "system"
        /\ row.status = "queued" \/ Lapsed(row, now)
  /\ by = "agent" /\ IsHeld(row) => row.owner = o

\* The mutation: a requeued row keeps its owner and its lease.
AfterTransitionKeepingLease(row, to, o, expiry) ==
  [row EXCEPT !.status = to,
              !.owner = IF to = "leased" THEN o ELSE @,
              !.expires = IF to = "leased" THEN expiry ELSE @]

\* The update statement: a lease is written on leasing, cleared on
\* requeueing, and kept by every other transition.
AfterTransition(row, to, o, expiry) ==
  [row EXCEPT !.status = to,
              !.owner = CASE to = "leased" -> o
                          [] to = "queued" -> Null
                          [] OTHER -> @,
              !.expires = CASE to = "leased" -> expiry
                            [] to = "queued" -> NoLease
                            [] OTHER -> @]

\* Only the owner renews, and only a lease that has not lapsed.
MayRenew(row, o, now) ==
  /\ IsHeld(row)
  /\ row.owner = o
  /\ row.expires > now

AfterRenew(row, expiry) == [row EXCEPT !.expires = expiry]

\* What the reaper picks up.
Stale(row, now) == IsHeld(row) /\ Lapsed(row, now)
AfterReap(row, now) ==
  IF Stale(row, now) THEN AfterTransition(row, "expired", Null, NoLease) ELSE row
=============================================================================
