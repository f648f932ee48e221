--------------------------- MODULE OperationJobs ---------------------------
(***************************************************************************)
(* The operation job table of one host: the RPCs that create, lease,       *)
(* advance, renew, cancel and expire jobs, the event log they append to    *)
(* and the audit rows they leave.  Every RPC is one transaction that holds *)
(* the rows it changes, so it is one step; the locks that make it so are   *)
(* the subject of JobTransactions.  An RPC that raises rolls back and is   *)
(* no step.                                                                *)
(***************************************************************************)
EXTENDS JobTable, Sequences
LOCAL INSTANCE FiniteSets
LOCAL INSTANCE FiniteSetsExt

CONSTANTS
  Discord,     \* users with a Discord console session
  Console,     \* rows of console_users
  Rank,        \* the role rank of every user
  Op,          \* the operations that are requested
  Key,         \* idempotency keys
  Owner,       \* lease owners (agents)
  Lease,       \* the longest lease, in ticks (300 s in the code)
  MaxJobs,     \* bound: jobs ever created
  MaxNow,      \* bound: the clock
  MaxEvents,   \* bound: events of all jobs together
  MaxRefused   \* bound: audited requests that change no job

Requester == Discord \cup Console
Job == 1..MaxJobs

ASSUME ParametersAssumption ==
  /\ Rank \in [Requester -> 0..3]
  /\ Discord \cap Console = {}
  /\ Op \subseteq AllOps
  /\ Owner \cap {Null, "console_user", "system"} = {}
  /\ Lease \in Nat \ {0}
  /\ MaxJobs \in Nat /\ MaxNow \in Nat
  /\ MaxEvents \in Nat /\ MaxRefused \in Nat

VARIABLES
  now,          \* clock_timestamp(), in ticks
  hostEnabled,  \* hosts.enabled
  created,      \* rows inserted so far; a job's number is its created_at order
  jobs,         \* operation_jobs
  events,       \* operation_events, per job in insertion order
  audited,      \* audit_logs rows per job for its creation, changes, renewals
  refused       \* audit_logs rows of requests that changed no job

vars == <<now, hostEnabled, created, jobs, events, audited, refused>>

Row == [status : Status \cup {Null}, op : Op \cup {Null},
        who : Requester \cup {Null}, key : Key \cup {Null},
        owner : Owner \cup {Null}, expires : Nat]
NoRow == [status |-> Null, op |-> Null, who |-> Null, key |-> Null,
          owner |-> Null, expires |-> NoLease]
\* An event's actor_type, with the agent's lease owner in place of "agent": the
\* column does not keep it, the properties are about it.
Actor == {"console_user", "system"} \cup Owner
Event == [from : Status \cup {Null}, to : Status, by : Actor]

Existing == 1..created
Active(j) == IsActive(jobs[j])
Held(j) == IsHeld(jobs[j])
Scope(j) == ScopeOf(jobs[j].op)

Init ==
  /\ now = 0
  /\ hostEnabled = TRUE
  /\ created = 0
  /\ jobs = [j \in Job |-> NoRow]
  /\ events = [j \in Job |-> <<>>]
  /\ audited = [j \in Job |-> 0]
  /\ refused = 0

\* Room in the bounded event log for an event of each job in S.
EventCount == MapThenSumSet(LAMBDA j : Len(events[j]), Job)
HasRoom(S) == EventCount + Cardinality(S) <= MaxEvents

\* Insert one event, and append_audit_log, for each job of S.
Record(S, rows, actor) ==
  /\ HasRoom(S)
  /\ events' = [j \in Job |->
                  IF j \in S
                  THEN Append(events[j], [from |-> jobs[j].status,
                                          to |-> rows[j].status, by |-> actor])
                  ELSE events[j]]
  /\ audited' = [j \in Job |-> IF j \in S THEN audited[j] + 1 ELSE audited[j]]

-----------------------------------------------------------------------------
(* Requests *)

\* An audited answer that changes no job: denied, replayed, or in conflict.
Refuse ==
  /\ refused < MaxRefused
  /\ refused' = refused + 1
  /\ UNCHANGED <<now, hostEnabled, created, jobs, events, audited>>

\* The key a repeated request is recognised by.
SameRequest(j, u, op, k) ==
  jobs[j].who = u /\ jobs[j].op = op /\ jobs[j].key = k

\* The mutation: requests are deduplicated only while the job is active.
KnownActiveOnly(u, op, k) ==
  \E j \in Existing : SameRequest(j, u, op, k) /\ Active(j)

Known(u, op, k) == \E j \in Existing : SameRequest(j, u, op, k)

\* The mutation: a job that is being executed is overlooked.
ScopeQueuedOnly(op) ==
  \E j \in Existing : jobs[j].status = "queued" /\ Scope(j) = ScopeOf(op)

ScopeBusy(op) == \E j \in Existing : Active(j) /\ Scope(j) = ScopeOf(op)

Permitted(u, op, confirmed) ==
  /\ Rank[u] >= RequiredRank(op)
  /\ NeedsConfirmation(op) => confirmed

Insert(u, op, k) ==
  /\ created < MaxJobs
  /\ created' = created + 1
  /\ jobs' = [jobs EXCEPT ![created + 1] =
                [NoRow EXCEPT !.status = "queued", !.op = op, !.who = u, !.key = k]]
  /\ Record({created + 1}, jobs', "console_user")
  /\ UNCHANGED <<now, hostEnabled, refused>>

\* enqueue_discord_operation_job.  A dead session is answered without a
\* trace, a replay is answered without an audit row: neither is a step.
EnqueueDiscord(u, op, k, confirmed) ==
  \/ /\ \/ ~hostEnabled
        \/ op \notin LifecycleOps
        \/ ~Permitted(u, op, confirmed)
        \/ ~NeedsConfirmation(op) /\ confirmed
     /\ Refuse
  \/ /\ hostEnabled
     /\ op \in LifecycleOps
     /\ Permitted(u, op, confirmed)
     /\ ~NeedsConfirmation(op) => ~confirmed
     /\ ~Known(u, op, k)
     /\ IF ScopeBusy(op) THEN Refuse ELSE Insert(u, op, k)

\* enqueue_operation_job, which never looks at hosts.enabled and audits
\* replays as well.
EnqueueConsole(u, op, k, confirmed) ==
  IF /\ Permitted(u, op, confirmed)
     /\ ~Known(u, op, k)
     /\ ~ScopeBusy(op)
  THEN Insert(u, op, k)
  ELSE Refuse

-----------------------------------------------------------------------------
(* Transitions *)

\* transition_operation_job applied to one job.
Transition(j, to, by, o, seconds) ==
  /\ j \in Existing
  /\ MayTransition(jobs[j], to, by, o, now)
  /\ jobs' = [jobs EXCEPT ![j] = AfterTransition(@, to, o, now + seconds)]
  /\ Record({j}, jobs', IF by = "agent" THEN o ELSE by)
  /\ UNCHANGED <<now, hostEnabled, created, refused>>

\* The lease parameters are checked only when a job is leased.
AgentTransition(j, to, o, seconds) == Transition(j, to, "agent", o, seconds)
SystemTransition(j, to) == Transition(j, to, "system", Null, 0)

\* A console user cancels its own job, an administrator any job.  The
\* requested_by of a Discord job is NULL, and a comparison with NULL denies
\* nobody.
Cancel(j, u) ==
  /\ j \in Existing
  /\ jobs[j].who \in Discord \cup {u} \/ Rank[u] >= 2
  /\ Transition(j, "cancelled", "console_user", Null, 0)

\* transition_mc_main_operation_job: the three steps an agent may report
\* through the API, for a lifecycle job of an enabled host.
McMainTransition(j, to, o) ==
  /\ hostEnabled
  /\ j \in Existing
  /\ jobs[j].op \in LifecycleOps
  /\ \/ jobs[j].status = "leased" /\ to = "running"
     \/ jobs[j].status = "running" /\ to \in {"succeeded", "failed"}
  /\ AgentTransition(j, to, o, 0)

\* renew_operation_job_lease
Renew(j, o, seconds) ==
  /\ j \in Existing
  /\ MayRenew(jobs[j], o, now)
  /\ jobs' = [jobs EXCEPT ![j] = AfterRenew(@, now + seconds)]
  /\ Record({j}, jobs', o)
  /\ UNCHANGED <<now, hostEnabled, created, refused>>

StaleJobs == {j \in Existing : Stale(jobs[j], now)}
Reaped == [j \in Job |-> IF j \in StaleJobs THEN AfterReap(jobs[j], now) ELSE jobs[j]]

\* expire_stale_operation_jobs; its limit of 100 rows is above MaxJobs.
Reap ==
  /\ StaleJobs # {}
  /\ jobs' = Reaped
  /\ Record(StaleJobs, jobs', "system")
  /\ UNCHANGED <<now, hostEnabled, created, refused>>

\* The job a claim by o hands out, after reaping: the oldest live one that o
\* already holds, else the oldest queued one.
Oldest(S) == {j \in S : \A k \in S : j <= k}
Mine(o) == {j \in Existing : /\ Held(j) /\ jobs[j].owner = o
                             /\ jobs[j].expires > now
                             /\ jobs[j].op \in LifecycleOps}
Waiting == {j \in Existing : jobs[j].status = "queued" /\ jobs[j].op \in LifecycleOps}

\* The mutation: any live job is resumed, whoever holds it.
ClaimableOfAnyone(o) ==
  LET mine == {j \in Existing : Held(j) /\ jobs[j].expires > now} IN
  IF mine # {} THEN Oldest(mine) ELSE Oldest(Waiting)

Claimable(o) == IF Mine(o) # {} THEN Oldest(Mine(o)) ELSE Oldest(Waiting)

Claimed(j, o) ==
  IF Held(j) THEN AfterRenew(jobs[j], now + Lease)
             ELSE AfterTransition(jobs[j], "leased", o, now + Lease)

\* The mutation: the reaper's changes leave no event.
RecordClaimOnly(j, o) == Record({j}, jobs', o)

\* The events a claim writes: the reaper's and then the agent's own, on
\* different jobs.
RecordClaim(j, o) ==
  /\ HasRoom(StaleJobs \cup {j})
  /\ events' = [i \in Job |->
                  CASE i = j -> Append(events[i], [from |-> jobs[i].status,
                                                   to |-> jobs'[i].status, by |-> o])
                    [] i # j /\ i \in StaleJobs ->
                         Append(events[i], [from |-> jobs[i].status,
                                            to |-> "expired", by |-> "system"])
                    [] OTHER -> events[i]]
  /\ audited' = [i \in Job |-> IF i \in StaleJobs \cup {j} THEN audited[i] + 1
                                                          ELSE audited[i]]

\* claim_mc_main_operation_job
Claim(o) ==
  /\ hostEnabled
  /\ IF Claimable(o) = {}
     THEN Reap
     ELSE \E j \in Claimable(o) :
            /\ jobs' = [Reaped EXCEPT ![j] = Claimed(j, o)]
            /\ RecordClaim(j, o)
            /\ UNCHANGED <<now, hostEnabled, created, refused>>

-----------------------------------------------------------------------------
(* Environment *)

ToggleHost ==
  /\ hostEnabled' = ~hostEnabled
  /\ UNCHANGED <<now, created, jobs, events, audited, refused>>

Tick ==
  /\ now < MaxNow
  /\ now' = now + 1
  /\ UNCHANGED <<hostEnabled, created, jobs, events, audited, refused>>

Next ==
  \/ \E op \in Op, k \in Key, confirmed \in BOOLEAN :
       \/ \E u \in Discord : EnqueueDiscord(u, op, k, confirmed)
       \/ \E u \in Console : EnqueueConsole(u, op, k, confirmed)
  \/ \E j \in Job :
       \/ \E o \in Owner : \/ \E to \in Status \ {"leased"} : AgentTransition(j, to, o, 0)
                           \/ \E s \in 1..Lease : AgentTransition(j, "leased", o, s)
                           \/ \E s \in 1..Lease : Renew(j, o, s)
                           \/ \E to \in Status : McMainTransition(j, to, o)
       \/ \E to \in Status : SystemTransition(j, to)
       \/ \E u \in Console : Cancel(j, u)
  \/ Reap
  \/ \E o \in Owner : Claim(o)
  \/ ToggleHost
  \/ Tick

Spec == Init /\ [][Next]_vars

-----------------------------------------------------------------------------
(* Properties *)

\* Every column holds a value of its type, and exactly the inserted rows exist.
TypeOK ==
  /\ now \in Nat
  /\ hostEnabled \in BOOLEAN
  /\ created \in 0..MaxJobs
  /\ jobs \in [Job -> Row]
  /\ \A j \in Job : j \in Existing <=> jobs[j].status \in Status
  /\ events \in [Job -> Seq(Event)]
  /\ audited \in [Job -> Nat]
  /\ refused \in Nat

\* Never two active jobs of one lock scope, whoever enqueued them and however
\* leases lapse, jobs are requeued and claims race: what the partial unique
\* index operation_jobs_active_lock_scope_key would otherwise have to refuse.
OneActivePerScope ==
  \A i, j \in Existing : Active(i) /\ Active(j) /\ Scope(i) = Scope(j) => i = j

\* A row says who works on it exactly while somebody does: a queued job has
\* neither an owner nor a lease left over from an earlier attempt (the reaper
\* would expire it, a claim would resume it), a held one has both.
LeaseMatchesStatus ==
  \A j \in Existing :
    /\ jobs[j].status \in {"queued", "cancelled"}
         => jobs[j].owner = Null /\ jobs[j].expires = NoLease
    /\ Held(j) => jobs[j].owner \in Owner /\ jobs[j].expires # NoLease

\* A request repeated with its idempotency key, at any later time and whatever
\* became of the first job, never creates a second job.
OneJobPerRequest ==
  \A i, j \in Existing :
    SameRequest(i, jobs[j].who, jobs[j].op, jobs[j].key) => i = j

\* The event log of a job replays to its row: it starts with the request, each
\* event starts in the status the one before it ended in, the last one ends in
\* the status of the row, and every event has its audit row.
TrailMatchesJob ==
  \A j \in Existing :
    LET trail == events[j] IN
    /\ Len(trail) > 0
    /\ trail[1].from = Null /\ trail[1].to = "queued"
    /\ \A i \in 2..Len(trail) : trail[i].from = trail[i - 1].to
    /\ trail[Len(trail)].to = jobs[j].status
    /\ audited[j] = Len(trail)

\* What an agent did to a leased or running job was done by the agent that
\* leased it: between its lease and the event no other agent came in.
WorkedByLeaseholder ==
  \A j \in Existing : \A i \in 1..Len(events[j]) :
    LET trail == events[j] IN
    trail[i].from \in HeldStatus /\ trail[i].by \in Owner =>
      \E l \in 1..(i - 1) :
        /\ trail[l].from = "queued" /\ trail[l].to = "leased"
        /\ \A m \in l..i : trail[m].by \in Owner => trail[m].by = trail[i].by

\* No step changes a job that has ended: a late result never overwrites an
\* expired, failed or cancelled job.
TerminalIsFinal ==
  [][\A j \in Job : jobs[j].status \in TerminalStatus => jobs'[j] = jobs[j]]_vars

\* While a lease lives only its owner ends it: neither the reaper nor a user
\* takes a job away from an agent that is within its lease.
LiveLeaseEndsByOwner ==
  [][\A j \in Job :
       Held(j) /\ jobs[j].expires > now /\ jobs'[j].status # jobs[j].status
         => events'[j][Len(events'[j])].by = jobs[j].owner]_vars

-----------------------------------------------------------------------------
(* Refinement *)

ActiveIn(s) == {j \in Existing : Active(j) /\ Scope(j) = s}
Holder == [s \in LockScope |->
             IF ActiveIn(s) = {} THEN 0 ELSE CHOOSE j \in ActiveIn(s) : TRUE]
Finished == {j \in Existing : jobs[j].status \in TerminalStatus}

Lock == INSTANCE ScopeLock WITH Free <- 0, holder <- Holder, finished <- Finished

\* The job table implements the abstract lock: an active job is the holder of
\* its scope, and the transitions of the table are the lock's acquisitions and
\* releases.
ImplementsScopeLock == Lock!Spec
=============================================================================
