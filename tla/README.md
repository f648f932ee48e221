# Verification of the IVRM dashboard

TLA+ models of the parts of the dashboard that change shared state under
concurrency, failures and time, the TLC runs that check them, and the TLAPS
proofs of what holds for every instance. `PROJECT.json` maps each definition to
the lines it models and lists components, runs, mutants, hazards and theorems.

Run a model with `tlc -config <Run>.cfg <MC module>`, check proofs with
`tlapm <Proof module>.tla`.

## 1. The system

The dashboard is a Next.js application on top of PostgreSQL (Supabase). Hosts
push observations to it; users ask it for operations on the host; it tells
Discord about incidents. Nearly all of the state and nearly all of the rules
are in PL/pgSQL functions, called by API routes, agents, triggers and cron.

| Component | State | Operations | What is hard | What makes it correct |
|---|---|---|---|---|
| Operation job table | `operation_jobs`, `operation_events` | enqueue (console, Discord), transition, cancel, renew, reap, claim | racing requests, lapsing leases, late reports, repeated requests | one active job per lock scope, one job per request, ended jobs stay ended, the trail explains the row |
| Audit hash chain | `audit_logs`, `audit_log_chain_state` | `append_audit_log` inside other transactions | interleaved appends, aborted transactions, lock order | one linear chain, no deadlock |
| Operation worker (Go) | the job in hand, the request file | claim, start, publish, wait, report, resume | crash at every step, lost and late answers, timeouts | a job runs at most once, success is never invented, every job ends |
| mc-main helper (Python) | request and result files, the container | process_request: stop, start, wait, write result | killed mid-way, failing docker commands, stale requests | as above; the result describes the container |
| Operation console | the panel in each tab, lists under way, sessions | open, poll, submit, announce, hide, sign out | lists that overtake one another, a session that ends under way, a call that times out and still runs | the buttons come back, one lease per claim |
| Operation agent API | nonce ledger | authenticate, claim, transition | replays, clock skew | a late call does no harm |
| Notification Center | `notification_signal_state`, `notification_outbox` | open, escalate, repeat, recover, retire, channel switch, claim, gate, complete | suppression and release, dispatchers that overlap or die, time limits | no duplicates, order, no lone recovery, lasting incidents are reported |
| notification-dispatch (edge function) | rows it claimed | claim, gate, post, complete | a check that is stale when used, unknown outcomes | as above |
| Status lifecycle delivery | events, deliveries | event by trigger, claim, gate, complete, channel switch | ordering of an item's messages, retries, overlapping dispatchers | every published change is delivered once, in order |
| Status Center | incidents, maintenances, announcements, request ledger | create, publish, update, cancel, archive | repeated forms, RPCs that wait for the row with an old clock | a request takes effect once, transitions go forward |
| Public feed | none | read | time racing with archive and cancel | what has ended stays ended |
| Discord sessions, Cloudflare Access | sessions, cookies, cached signing keys | sign in, resolve, log out, revoke, expire, fetch keys | racing sign-ins, lost answers, concurrent fetches, rotated keys | one live session per user, every access is backed |
| Collectors, host agent, heartbeats | metrics file, snapshot file, heartbeat rows | poll, collect, augment, send, receive | a chain of stale files, odd figures, duplicated and late heartbeats | what is shown is recent, no bad figure costs a heartbeat |
| Monitoring events, incidents, overlays | samples, expectations, events | capture, classify, replay | three replays over different windows, late expiry events | they agree, exact starts are exact |
| Backup center, backup reporters | markers, evidence, runs | begin, archive, verify, report, ingest | lost and late reports, reboots | no archive forgotten, health and incidents agree |
| Reliability | SLO policies, maintenance windows, signals | reconcile, schedule, cancel | overlapping windows, missing data, reads at different instants | honest budgets, no false recovery |
| Console logs | stored lines with ids, nonces, page and viewer | collect, report, ingest, prune, load, follow | overlapping and late reports, ingests side by side, ids that appear out of order, answers for earlier filters | a line is stored once, a follower misses none |
| Capacity forecast | none | read, fit, classify | gaps, odd figures, floating point | — |
| Cloud monitoring, runtime inventory | samples | ingest, prune | duplicates, pruning during reads | nothing lost before its retention |
| Rollups, retention | history tables | roll up, prune | pruning before rolling up | as above |
| Other pages, deployment scripts | none or files | read, deploy | — | — |

They interact as follows. A request becomes a job row; the worker claims it
through the agent API, writes a request file, the root helper executes it and
writes a result file, and the worker reports the end of the job. Every RPC on
the way appends to the same audit chain. Heartbeats, backup reports, container
changes and burn-rate evaluations each call the signal functions of the
Notification Center in their own transaction; the outbox rows that leaves are
claimed by the edge function, which cron calls once a minute and which may
overlap with itself. The same function delivers the events of the Status Center.
Heartbeats carry container samples; triggers turn those into monitoring events,
the Incident Center turns events and backup runs into incidents, and the
reliability pages and the burn-rate reconciler turn incidents and maintenance
windows into budgets and signals.

## 2. The modules

| Module | Models |
|---|---|
| `JobTable` | the rules of one job row: legal transitions, who may make them, what they write |
| `OperationJobs` | the job table of a host: every RPC as one atomic step, with events and audit rows |
| `ScopeLock` | the abstract specification of `OperationJobs`: a lock per scope, acquired once per job |
| `JobTransactions` | the same RPCs as transactions of many steps, with advisory, row and chain locks |
| `OperationConsole` | panel, jobs API, the transaction that creates a job, and the signed claims of the agent |
| `McMainLifecycle` | worker, API, files, helper and container for mc-main jobs |
| `NotificationOutbox` | one signal, its outbox rows and the dispatchers |
| `Telemetry` | bridge, collectors, agent, heartbeat API and the statuses derived from the rows |
| `Incidents` | the events of a container, the Incident Center and the history bands |
| `Backups` | the backups of a target, their reports, rows, health and incidents |
| `Access` | Discord sign-in and sessions, Cloudflare Access, proxy and role checks |
| `StatusCenter` | one public item, its forms and RPCs, the feed and the delivery of its events |
| `Reliability` | downtime, maintenance windows, budgets, burn rates and their reconciler |
| `ConsoleLogs` | reporter, ingest RPC, retention and the Log Viewer that follows the rows |
| `Clock` | the null and the clock of `Telemetry`, `Backups` and `Reliability` |
| `OperationJobsProofs`, `JobTransactionsProofs`, `ConsoleLogsProofs`, `McMainLifecycleProofs`, `NotificationOutboxProofs`, `StatusCenterProofs` | the theorems about the module they are named for |
| `SessionProofs` | the theorems about `Access` and `OperationConsole` |
| `MonitoringProofs` | the theorems about `Telemetry`, `Reliability` and `Backups` |
| `MC*` | the instances TLC checks |

Modules that share a proof module name their specification after themselves
(`AccessInit`, `TelemetryNext`, `BackupsSpec`), as that module extends them all.

### JobTable, OperationJobs

A job row keeps status, operation, requester, idempotency key, lease owner and
lease expiry; a SQL NULL is `None`, or `NoLease` for a time. `MayTransition`
is the chain of checks of `transition_operation_job` in migration 202608040005
(its last definition), `AfterTransition` the update. An RPC that raises rolls
back, so it is no step. `Claim` is the whole `claim_mc_main_operation_job`: it
reaps, then resumes the caller's own job or leases the oldest queued one, and
records events and audit rows for all of it. `EnqueueDiscord` and
`EnqueueConsole` differ as the two RPCs do: only the first looks at
`hosts.enabled`, only the second audits a replay. `Cancel` keeps a subtlety of
the SQL: for a Discord job `requested_by` is NULL, the comparison with the
caller is NULL, and no console user is denied.

Events and audit rows are counted, not spelled out. An event records the lease
owner where the table records `agent`, since the properties need to know which.

### JobTransactions

Here an RPC is a session that begins, waits for locks, reads what is committed,
writes its own version, appends audit rows and commits or aborts. The advisory
lock of a scope, the row lock of a job and the lock on the head of the audit
chain are variables. What `OperationJobs` assumes, that an RPC is atomic, is
what this module checks. A hash is the number of the audit row it covers: two
rows never share one, and each names its predecessor.

`v_now` is read when the RPC begins and may be old once the row lock is granted,
as in the code. `PickLapses` is the claim whose own lease lapses between
its select and the renewal: the renewal raises and everything the claim did is
undone.

### OperationConsole

The path of a request from the button to the queue and of a claim to its lease.
The browser keeps one cookie; each tab has a panel, of which the model keeps
whether the list shown has an active job, and calls under way. `gets` holds the lists a tab
has asked for, in slots: slot 0 is the refresh after a request, the others are
those of the interval. They are answered and delivered in any order. `Resolve` is the
API's check of session and role, `Begin` the same check by
`enqueue_discord_operation_job`, made before it waits for the lock, and `Enqueue`
what it does once it has it: in between the session may end, and the panel may
have given up on the call (`EnqueueTimesOut`). A call of the panel's transition
that is lost throws out of it, and as there is no error boundary the page is gone
(`Crash`). `jobs` holds the active rows only. `Accept` is
`accept_operation_agent_request` with its ledger, `Claim` the claim RPC that follows
in a transaction of its own. What happens to a leased job belongs to
`McMainLifecycle`; here `Report` writes any legal status.

### McMainLifecycle

The worker is a program counter over `runOnce`; a call it has sent is in `call`
until it is answered, and in `late` once the worker has given up on it. The API
takes a call in two steps with an await between them: `ApiAccepts` checks the
timestamp and records the nonce, `ApiClaims` or `ApiTransitions` runs the RPC. Any
number of late calls may be under way, each in either stage; an accepted one is
executed at any later time or never. What the worker does is bounded instead: `until` is
the latest instant at which it is still where it is (`Patience`: the timeout of the
HTTP client, the result timeout, and `Pause` for what it does to its own files). The
files are functions of the job; /run is a tmpfs, so a reboot empties it. The helper
runs one docker command per step, each of which may fail, and the container changes
by itself at any time. Worker and helper die at any step. A single agent with
one worker process is deployed, so there is one lease owner. The nonce ledger is
represented by what it provides: a call is accepted at most once.

The history variables `begun`, `killed` and `reached` exist for the properties.

### NotificationOutbox

One signal key: signals only meet in the transaction of the claim. Observations
arrive in any order of `occurred_at`. The claim is the sequence of statements of
`claim_notification_outbox_v1` (202608140007), each a function from rows to
rows: give back claims that are too old, suppress what is muted, drop alerts of past
episodes, drop lone recoveries, release the latest suppressed alert, pick. It is
not one step. Two of the statements select their rows in a common table expression and
update by id alone, so under READ COMMITTED they write a row they had to wait for
whatever it has become: `ClaimLooks` and `ClaimFrees` end with the
look of such a statement, kept in `looked`, and the rest of the claim goes on from
there at any later time. The other statements repeat their conditions on the row they
waited for, and the pick skips locked rows. What a claim has written
before it waits is visible to the others at once in the model, in the database at
its commit. That `ready` is read at the beginning of a claim and not again is as in the code.
`muted` stands for the conditions that are evaluated at the time of the call:
maintenance, a paused backup age, an operator's suppression. Severity is 1 for
warning and 2 for critical. A dispatcher takes one row of its batch at a time. Any
claim becomes older than five minutes (`ClaimAges`), that of a living dispatcher as one
of the troubles: its calls to the database have no timeout (index.ts:157 and 204).

### Telemetry

A measurement is one of the classes that the validations tell apart (sound, too
large, malformed, missing), so the model follows it through every check of
collector, agent and API. `Inspect`, `Probe`, `WriteSnapshot` and `Augment` are
the stages of one collector run, which may fail between them. A heartbeat that
was sent stays in `net` and arrives never, once or again. The clock of the host
is `Drift` ahead. `RecoveredGaps` reads the gap events; `down` records what the
dashboard showed, and the two must agree.

### Incidents

One container. `Sample` and the actions on the expectation write events as the
triggers do; `Classify` is the severity function in its last definition. The
three replays are folds over the events: `Context` (SQL), `Recovered`,
`OpenSignals` and `ExactStart` (incidents.ts), `Overlay`
(history-status-overlays.ts). The properties quantify over every start of the
window.

### Backups

One target. The backup script is external: it begins a run, leaves an archive
with a marker or fails, and a reboot may cut it short, also between the move of the
archive and its marker: such an archive is not among `archived`, as nothing will ever
report it. The evidence and success
reporters are modelled; reports are sent once and arrive late, twice or never.
`Upsert` is the ingest RPC: `stored` is a function of the run id, which is unique for a
host, and a report is a set of runs, as one that names a run twice is refused. The
row id is not modelled: it only breaks ties between starts or ends, and the runs of
one target follow one another. `Health` is `evaluateTarget`, `Episodes` the incident
replay of unified-incidents.ts over a window and its context.

### Access

A callback is a record with a step, so sign-ins interleave at every await; the
session RPC is two steps because it waits for the advisory lock after it has read
its clock. A session, a cookie and a key are indices or model values. `Proxy`,
`HasRole`, `MayRead` and `MayAct` are the checks of a request, asked in every
state and for every setting of the two modes.

### StatusCenter

One item whose kind is chosen at the start. A form is what the page offered when it
was rendered and carries its own request id; submitting it starts a call that has
read the clock and waits for the row. `Commit` is the RPC from the row lock on,
its trigger included. The second half is `deliverEventRow` with the claim of
migration 20260831010100; it has the shape of `NotificationOutbox` without
episodes.

### Reliability

Times are integers and an interval is a record, so the interval arithmetic of the
code is modelled as it is and compared with a reference that counts instants.
Percentages are compared after multiplication, exactly; the code divides in
floating point. A reconciler reads incidents, policies and windows in any order,
each of which may fail, and then applies one signal after the other. The incidents
themselves are external here (module `Incidents` models them), the row
that `apply_reliability_burn_signal_v1` keeps per service is `signal`, and the outbox
rows it leaves are the business of `NotificationOutbox`.

### ConsoleLogs

One host with the lock on its row. The reporter keeps no cursor: `Collected` is the
newest part of a window of the log, and a report stays in `net`, from where it
arrives never, once or again. An ingest is a session that has passed the checks of
the API (`Receive`), gets the lock and draws its ids (`Ingest`), and becomes visible
with the rows it pruned (`Commit`); or it is cut off. Ids come from a sequence,
so they are used up by what is not stored as well. The viewer is `view`: `Poll`,
`Answer` and `Deliver` are the request, the read and the merge of a poll, `Load` and
`Mount` the page and its key made of the filters. `ever`, `cut` and `floor` are
history.

## 3. The runs

All properties are commented where they are defined.

| Run | Instance | Shows |
|---|---|---|
| `OperationJobs` | 3 requesters, 2 operations of different scopes, 1 key, 2 agents, 3 jobs, 6 events | exclusive scopes, idempotent requests, leases that belong to their owners, an exact trail, refinement of `ScopeLock` |
| `JobTransactions` | 3 sessions, 2 agents, 2 jobs, 5 transactions, 1 abort | linear audit chain, no lost update, no stolen lease, no deadlock |
| `McMainFaults` | 1 job, 2 operations, 2 faults (process killed, call given up, reboot), 2 ticks | at most one execution, honest results, a lease that outlives the waiting, every job ends |
| `Outbox` | 2 dispatchers, 3 rows, 3 instants, 1 trouble (lost or slow dispatcher, lost answer, failed gate, channel switch, maintenance or retired host) | no double send, no lone recovery, order; a lasting incident and its end are reported |
| `Telemetry` | 2 containers, 2 heartbeats, 1 change, 1 collector run, 7 instants | stored once, no heartbeat lost to a bad figure, recent figures, downtime accounted for |
| `Incidents` | 4 kinds of sample, 2 expectations, 1 change of the expectation, 5 instants | the replays agree, exact starts are true |
| `Backups` | 3 runs, 3 reports, batches of 1, 4 instants | no archive forgotten, context and health agree with the history |
| `Access` | 2 users, 2 role sets (none, viewer with administrator), 2 slots, 2 keys, 2 sign-ins, 2 fetches, 3 instants | one live session, every access backed |
| `StatusCenter` | each kind of item, 3 forms, 3 submissions, 2 dispatchers, 1 toggle, 1 fault | requests take effect once, the feed never revives, messages once and in order |
| `Reliability` | 2 services, 1 container and 1 backup, 2 windows of 2 scopes, 2 reconcilers, 1 fault, 4 instants | honest budgets, no false recovery, a settled past |
| `OperationConsole` | 1 tab, 2 users, 1 list of the interval at a time, 2 requests, 2 claims | one lease per claim, buttons that come back |
| `ConsoleLogs` | 2 database sessions, 2 lines, 2 reports, 1 cut-off, 2 page loads, 2 filters, 3 instants | a line is stored once, a follower misses no row |

Every property of a passing run has a mutant in `PROJECT.json`: a plausible slip in
the code, written as an operator next to the definition it replaces, under which
the property fails.

Bounds. Two agents are needed for one to act on the other's lease, two sessions
for a race and a third to be in the way of both. Two jobs of a scope are needed
for exclusion, a third in another scope for independence. An episode leaves at
most an opening, an escalation and a recovery: three rows hold one complete
episode or the end of one and the beginning of the next. `MaxAttempts` is 2 instead of 5 in the models of the dispatcher. Faults are bounded so that
runs end; two let a crash strike during the recovery from a crash.

`McMainFaults`: the waiting for a result takes a tick, a lease two, and calls and
file operations none: the largest sum below a lease that this clock can tell. A claim sent at
the first instant can be executed at the last, when the lease of a job leased then
lapses. The two faults are shared by calls given up, killed processes and reboots, so two
calls can be late at once. Start is left out as a restart contains it.

`Outbox` checks safety and liveness of a signal whose severity does not fall; with
`Deescalates` the model also covers burn-rate signals, which the run leaves out for the
size of its state space. For the same reason an incident opens as a warning (`Opening`) and
no signal opens for the first time before the rows that are there (`Backdated`); the
proof needs neither. One trouble is enough for a claim to be overtaken: one dispatcher is
slow, the other claims the row; a claim that waits for a row is none. Agents and sessions are interchangeable, and the runs of safety use that
symmetry; `Outbox` uses none, as symmetry is unsound for liveness.

`Telemetry`: `SnapshotMaxAge` and `MetricsMaxAge` are 0 so that one tick makes a
file too old, `StaleThreshold` is larger than `OnlineThreshold`, and seven instants
hold a gap, its end and the next gap. `Incidents`: five instants hold an incident,
its recovery and another, with the window starting at each. `Backups`: three runs
are a success, a failure and a success; batches of one make an archive wait for
the next report. `Access`: with a time to live of 1 a session expires while
another sign-in waits. `Reliability`: with an SLO of 94 % and burn windows of 1, 2
and 4 units one unit of downtime is critical while it is the last and a warning
for another. A page shows 36 units, whose budget is 2.16: one unit of downtime and two are within it
by different amounts, the third exhausts it, so that an instant counted twice or
not at all changes what the page says. One window scope is the container, the other all backups; `Init` also starts from an outage that has raised its alert, since the
way there would use up the bounds. `ConsoleLogs`: a `Skew` of 1 with a `Retention` of 1
is the least that `ConsoleLogsAssumption` allows, so a row expires as early as it may
after its last report. With polls of one a viewer is behind by one row whenever two
are stored together; a page of one leaves out a row that is older. What more rows and a
smaller `MaxRendered` push out is left to the proof, which holds for any. `OperationConsole`: one tab with a
cookie that changes is enough for a request under a session that has ended;
the refresh after a request and one list of the interval overtake each other;
two claims race, and either may arrive again.

Deadlock is checked in the job and lifecycle runs. In the other runs and for
`JobTransactions` (which states it as the invariant `NoDeadlock`) it is not: there the bounded transactions, rows and faults are used up and
the system may rightly rest.

Fairness. `McMainLifecycle`: systemd restarts the worker and starts the helper by
a timer, and every HTTP and docker call ends by a timeout, so the next step of
each is taken in the end, and the API takes the next step of a call that is awaited
(`Api`). What becomes of a late call, and when, is left open. The
clock is not fair: that every job ends does not depend on a lease running out.
`NotificationOutbox`: cron calls the dispatcher every
minute, backoffs and claims age; a claim may but need not stop to wait for a row.
`OperationConsole`: the interval fires, the API and the database finish what they
have begun, and a tab that asks again and again gets an answer delivered in the end (strong
fairness, as each single answer may be lost). Nobody has to press a button, sign
in or end a job. Observations, operators and faults have no fairness.

## 4. The proofs

The theorems hold for every value of the constants that the assumption named in the
module allows; nothing else is assumed.

| Module | Theorem | States |
|---|---|---|
| `OperationJobsProofs` | `TypeCorrect` | `TypeOK` is invariant |
| | `LockIsExclusive` | `OneActivePerScope` is invariant |
| | `LeaseIsCoherent` | `LeaseMatchesStatus` is invariant |
| | `RequestsAreIdempotent` | `OneJobPerRequest` is invariant |
| | `EndedJobsStayEnded` | `TerminalIsFinal` holds of every step |
| | `TrailIsExact` | `TrailMatchesJob` is invariant |
| | `LiveLeaseIsRespected` | `LiveLeaseEndsByOwner` holds of every step |
| | `OnlyTheLeaseholderWorks` | `WorkedByLeaseholder` is invariant |
| | `TableImplementsLock` | `OperationJobs` implements `ScopeLock` |
| `JobTransactionsProofs` | `AuditLogIsOneChain` | `AuditChainIsLinear` is invariant |
| | `CommitsFollowRules` | `CommitsAreLegal` holds of every step |
| `SessionProofs` | `OneLeasePerClaim` | `LeasesWereAsked` is invariant |
| | `OneSessionPerUser` | `OneLiveSession` is invariant |
| | `EveryAccessIsBacked` | `AccessIsBacked` is invariant |
| `ConsoleLogsProofs` | `LinesAreStoredOnce` | `LineStoredOnce` is invariant |
| | `FollowingMissesNothing` | `FollowMissesNothing` is invariant |
| | `OnlyMatchesAreShown` | `ShownLinesMatch` is invariant |
| `McMainLifecycleProofs` | `JobsRunOnce` | `ExecutedAtMostOnce` is invariant |
| | `SuccessIsReal` | `SuccessIsEarned` is invariant |
| | `LeaseOutlivesLateClaims` | `NotReapedWhileWorking` holds of every step |
| `NotificationOutboxProofs` | `NoRowTwice` | `NoDoubleSend` is invariant |
| | `RecoveriesAreUnderstood` | `RecoveryFollowsAlert` is invariant |
| | `TransitionsInOrder` | `PostedInOrder` is invariant |
| `StatusCenterProofs` | `RequestsAreIdempotent` | `RequestsTakeEffectOnce` is invariant |
| | `FeedKeepsTheEnd` | `FeedNeverRevives` holds of every step |
| | `EventsPostedOnceInOrder` | `PostedOnceInOrder` is invariant |
| `MonitoringProofs` | `HeartbeatsStoredOnce` | `StoredOnce` is invariant |
| | `HeartbeatsAreNeverInvalid` | `BadMeasurementNeverCostsHeartbeat` is invariant |
| | `ShownMeasurementsAreRecent` | `MeasurementsAreRecent` is invariant |
| | `DowntimeAddsUp` | `DowntimeIsAccounted` is invariant |
| | `ExcusedPastIsSettled` | `PastIsSettled` holds of every step |
| | `ArchivesAreNeverForgotten` | `NoBackupForgotten` is invariant |

`OperationJobs`, under `ParametersAssumption`. Lemma `StepKinds` shows that every step
of `Next` is of one of three kinds: it leaves the jobs alone, it inserts one queued
job whose request is unknown and whose scope is free, or it changes existing rows,
each by a `RowStep` (transitions, renewals, the reaper, and a claim, which combines
them). A `RowStep` never changes operation, requester or key, makes an active row
only from an active one, and leaves terminal rows alone. Lemma `StepLogs` does the
same for events and audit rows. Each invariant then takes one lemma over the three
kinds. None is inductive without `TypeOK`, which also says that exactly the rows up
to `created` exist: without that an insertion could overwrite a job. The trail needs
`TrailInv` (a job that does not exist yet has no events and no audit rows), the
leaseholder needs `WorkInv`: the trail of a held job has the lease of its owner, and since
then nobody else's work. The
refinement maps the rows to locks that are held, one step of the table to one of
`ScopeLock` or to a stutter, and rests on the three invariants of
exclusion, types and requests.

`JobTransactions`, under `TransactionsAssumption`, for any number of sessions and
transactions. `ChainInv`: the committed audit rows follow one another from the first
to the head, and a session that has appended rows holds the lock on the head and goes
on from it without a gap. `RowInv`: the rows a session wants to write are rows it
holds the lock of, and each is a legal successor of the row that is committed, not
of one it has read long ago; so its commit is legal. Inserts are numbered, and a row
that was not inserted is empty and unlocked.

`OperationConsole`. A nonce that is still being claimed is in the ledger and has no
lease; it leaves `claiming` with the lease it gets, and the ledger never lets it in again,
so none is leased for twice (`ConsoleInv`).

`ConsoleLogs`, under `ConsoleLogsAssumption`, which asks that rows are kept for longer
than the latest report can be about: window, clock skew and timeout together. `Inv` has five parts.
`HostInv` dates the lines and the reports. `EverInv`: a row that was stored is in the
table until it has expired. `SessInv`: who inserts holds the lock, inserts lines that
were never stored, and with ids above every stored id; it is preserved because nobody
else can store anything meanwhile, and it is established by the core of the
argument, `NewRowsAre`: a line that is not in the table but was stored has
expired, and then no report that is still acceptable is about it. `PageInv` and
`PollInv` (in `ViewInv`) say that what is on its way to the browser is complete from
its first id to its last (`Complete`). It stays complete whatever is stored
(`PageKept`, `PollKept`) as new ids are above it: without the lock on the host, ids
would appear out of order. `DeliverKeeps` puts the two halves together; what is
merged but not kept has been pushed out (`Pushed`). The order of rows by id, the least
and the greatest of a set and what `Newest` and `Oldest` leave out are lemmas of
their own at the beginning of the module.

`McMainLifecycle`, under `LifecycleAssumption`: three calls, the wait for a result and
two steps of the worker on its own files take less than a lease. In the code the calls
take at most 10 s each, the wait at most 240 s and a lease 300 s, so the file
operations have about 15 s each; that they keep to it is assumed, nothing in the code enforces
it. The clock skew the API accepts plays no part: a call that was accepted in time
may be executed at any later time. `ExecInv`: a request is only ever
written for a job that is still `Before` its request, which a job leaves once, and a
job that is `Untouched` has neither file nor claim at the helper. What is in the spool
and not in the helper's hand was begun as often as the helper was killed at it.
`EarnInv` carries the evidence of a success from the helper to the table: each result
file, each worker that is going to report, each transition that is under way or late,
and each row that says succeeded is `Earned`. `LeaseInv` bounds the rest of `runOnce` from each
of its steps on (`Rest`): what the worker may still wait for ends before the
lease of the job in hand does. It holds from the moment the lease is given, as the claim
that gives or renews it is one the worker still waits for, or one whose job it does not have in
hand; every later step leaves less to wait for. So whenever a claim reaps, late or not, the
lease it finds is live.

`NotificationOutbox`, under `OutboxAssumption`, which asks for finitely many
dispatchers, named otherwise than the claims of lost ones. A claim prepares
the rows by five statements, each of which is a `Prep` of every row (`TimedOutPrep` to
`FreedPrep`), and so are all of them together (`PreparedRows`), also when the claim goes
on from a look that is old: a claim ends, and what was sent comes back to
delivery, only where that counts as a disturbance (`Forgotten`); and what comes back is an alert
that counts as released. `LooksInv` keeps what the last needs of an old look: the rows a
claim is going to release are alerts. Every step is of one of four kinds, each with a lemma: a signal changes and takes
rows out of delivery (`SignalChanges`), rows are prepared and one may be picked
(`Touched`), a dispatcher goes on with its row (`Proceeds`) or is done with it (`Ends`).
`ClaimsInv` ties the claims to the dispatchers: who is about to post holds the claim,
or the row was recalled. `PostsInv` counts: the posts made and the posts that
dispatchers without a claim (`Strays`) may still make are no more than the
disturbances and the one post that is due. `RecoveryInv` needs that a recovery still
to be delivered is not of a later episode than the signal's: then the gate's test finds an alert of its own
episode. `OrderInv` says that a row which was not put back has only later rows above
it, of which none was attempted before it.

`Access`, under `AccessAssumption`. `RowsInv` ties the expiry of a session to its
creation. `OneLiveSession` needs `CallbackInv`: of a user at most one session RPC is past the lock,
and the rows it has found and is going to replace include every row of the user that is live at
its clock (`Found`), which is older than the lock it waited for. `OutsideInv` dates the keys:
what is cached or on its way was published when its fetch began, or later. That an
access is backed follows setting by setting of the two modes (`InvBacked`).

`StatusCenter`, under `StatusAssumption`, which asks for finitely many dispatchers,
named otherwise than the claims of lost ones, and that null is none of the strings it
is compared with. `Inv` has two halves that meet in the number of deliveries, which is
the number of public transitions. `ContentInv` is about the item: a request in the
ledger has shown its effect for good, and what an item shows was asked for by a recorded
request (`LedgerInv`). A request that comes again finds itself recorded; another one
that waited for the row finds the state it would have set already there or out of reach.
The feed follows from the same invariant, one kind of item at a time. `SendInv` is about the events. Its
claims and posts are those of `NotificationOutbox`; the order is simpler, as no event comes back
to delivery once another took its place: a delivery that was ever claimed left no earlier one that could still be claimed
(`OrderInv`). `FewEvents` bounds the deliveries by the forms, so that `disturbed` has
an entry for each of them.

`Telemetry`, under `TelemetryAssumption`: any delays, limits and clock drift, with
`OnlineThreshold` below `StaleThreshold`. `TelemetryInv` dates what each hop has in
hand. What the collector inspected, the file, a heartbeat and a row each say that a
container ran at `seen`, and each is at most as much older than the one before as the
check it passed allows; so the checks add up to `Delay`. The performance figures have
ages of their own. The file is always sound, so no heartbeat is ever refused
(`HeartbeatsAreNeverInvalid`). Rows keep the distance of the rate limit pairwise as
only the newest is compared and rows are in the order of their times. For the
downtime `DownInv` says what `down` is from the rows alone (`Missed`): a tick adds
the instant exactly if the newest row is too old, and a stored row turns the open
interval into a closed one (`DownOnReceive`). `RecoveredGapsAreMissed` then compares it
with the gaps that were recorded: two rows closer than the threshold miss nothing.

`Reliability`, under `ReliabilityAssumption`: null is no window, and grace, range and
bounds are natural numbers. `ExcludesUnit` says which units a window excludes, from
the arithmetic of intervals. A new window begins within the grace, so it excludes no
older unit; a window that is cancelled now excludes what it did before now. Nothing
else changes windows.

`Backups`, under `BackupsAssumption`: any batch size, skew and number of runs. No
step forgets an archive but `Finished`, which removes the markers of the runs in an accepted
report. So `SendingInv` says that these are stored as successes as soon as the nonce
is in the ledger; nonces are new, so the report accepted under it is the very one the
reporter waits for. Storing it could still leave an older final result in place:
that this is a success too is `RunIsTrue`, which holds of every row and every report on
the wire: nobody reports a result of the run under way, and of an archived run none
but success.

The runs check the invariants and action properties in the table too, but for
`TypeOK`, `OneActivePerScope` (which the refinement implies), `TerminalIsFinal` and
`ShownLinesMatch`: TLC found nothing against them either, and with the proof a run
says no more.

Only model-checked: all liveness and `NoDeadlock` (fairness and ENABLED are out of the
prover's reach); `BudgetsAreHonest`, `NoFalseRecovery`, `ContextReplaysHistory`,
`OpenEpisodeShows` and the properties of `Incidents`, all of which depend on
what a fold over sorted intervals, runs or events computes, which takes an induction over
data. No module declares a RECURSIVE operator.

## 5. Not modelled

- Parts of the modelled components: HMAC signatures, deletion of result files after 24 hours, one-shot notifications,
  the triggers that turn heartbeats, backups and containers into signals, message
  texts, metadata filters, several signals or items within one claim, host figures,
  several containers, targets and items at once, the exact start of active backup
  incidents, the history of burn-rate samples and the health of the reconciler,
  parsing of forms and of Japanese local times, a request for a job that breaks off in
  the browser, the limit of 20 listed jobs, the search and redaction of log texts.
- The components marked `not_modelled` in `PROJECT.json`. Planned: cloud monitoring,
  runtime inventory, rollups and retention. Left out for good: the capacity forecast (a
  regression in floating point without a state), the other pages and read APIs (no state), the shell scripts for backup and deployment.

Hazards of the code that no property covers, besides those of section 6:

- Jobs are reaped only inside a claim and a claim needs an enabled host: without one
  an expired job keeps its lock scope (202609010003:34; by design, see
  docs/operation-job-audit-foundation.md:12).
- The recovery of a signal takes back an alert that Discord has accepted but whose
  completion is still under way; the recovery is then dropped as a lone one
  (202608130022:118). A reopening in the very instant of a recovery is merged with
  it (line 145). An observation older than the last one is ignored, also when it is
  the recovery (line 57).
- The Incident Center reads the snapshot before the events (incidents.ts:653); the
  next refresh heals the difference. The snapshot reads the newest 2,000 container
  samples of all hosts (monitoring.ts:139).
- A backup that is cut off between the move of its archive and the marker leaves an
  archive that is never reported (minecraft-backup.sh:168).
- Evidence in /run is lost by a reboot and never made again: its archive stays
  pending (ivrm-backup-evidence.py:22). One run the API refuses makes every report
  with it fail (ivrm-backup-report-success.py:82). A failure is reported once; if
  the report is lost the run stays "running" (ivrm-backup-reporter.py:65).
- A logout whose RPC fails leaves the session alive (logout/route.ts:28). The
  administrator who revokes is checked without a lock (202608050003:150). A role
  taken away in Discord stays in the session until it expires.
- The session that the API resolved may end before the transaction of the request begins.
  The transaction asks for session and role again (202609010001:119), which `Begin` models;
  a property could only restate that check.
- More than 500 updates of one incident make the reader refuse the whole feed
  (status-public-feed.ts:106; `Feed` models it and the property permits it).
- A quiet evaluation does not advance `last_seen_at` of an inactive signal, so an
  older, burning one applied late opens an alert until the next minute
  (202608140006:312). An incident whose start was never proven leaves the downtime
  when it recovers (reliability-maintenance-metrics.ts:107).

## 6. What the models found

Disagreements between the code and its documents came up with counterexamples while
the models were written. They are recorded here and not kept as runs; the properties
state their exceptions (`SuccessIsEarned` excepts a stop, `PostedInOrder` what is taken
back under way, `NoDoubleSend` a claim that was forgotten), or the run leaves the case out: in (4) `Outbox` retires the host and
not the policy, in (5) its severity does not fall.

1. After a suppression not only the latest alert is delivered; the older ones
   follow, one per claim, latest first (202608140007:126, against
   docs/notification-center.md:59).
2. With overlapping dispatchers an alert that passed the gate can be posted after
   the recovery of its episode (notification-dispatch/index.ts:189, against
   docs/notification-center.md:49).
3. Timed-out claims and failed gates raise `attempts` without a cap; at 21 the check
   constraint fails every claim of the outbox (202608130016:114, against
   docs/notification-center.md:40).
4. A backup policy disabled and enabled again while its backup state is unchanged is
   never reported: its dedupe key meets the retired row (202608130022:494, against
   docs/notification-center.md:78).
5. A critical suppressed before the burn rate fell to warning is released and
   delivered afterwards (202608140006:387, against the comment at line 377).
6. A container without a health check that is removed, recreated and removed again is
   given the exact start of its first removal: the health change from unknown to none
   is `info` and resolves nothing (202608130011:82, incidents.ts:145, against
   docs/service-reliability-center.md:22 and docs/backup-center.md:245).
7. The updates of an incident are stamped before the row lock, so the public timeline,
   sorted by `published_at`, can go backwards although the lifecycle moves forward
   (20260830032500:277).
8. A critical burn-rate sample that arrives after a newer one of its bucket is dropped
   (202608140010:157, against docs/reliability-burn-history.md:44). Read in the code;
   the history is not modelled.
9. Every failing `docker inspect` counts as "container does not exist", so a stop
   succeeds while the container runs (ivrm-mc-main-lifecycle.py:44, against
   docs/mc-main-safe-lifecycle.md:54).
10. The panel shows whichever list of jobs arrives last. An older list that overtakes a
   newer one hides the job just announced as followed, and as it then shows no active
   job the polling stops until the page is loaded again
   (operation-lifecycle-panel.tsx:72, against the message at line 105). The same follows if
   the tab is hidden when the answer to the request comes: the refresh is skipped (line 64),
   no job is shown and nothing is followed. The error of a lost refresh (line 107)
   reaches no error boundary, so the page fails instead.
11. A row can be sent twice without any dispatcher being lost. The update that releases a
   suppressed row joins on its id alone (202608140007:161): a claim that
   found the row suppressed and waited for it resets it to pending although
   another claim has released it, handed it out and perhaps seen it sent. And a dispatcher whose RPC
   hangs for five minutes goes on to post a row that was claimed again (line 36; both
   against docs/notification-center.md:43). The update that mutes a row (line 61) has the
   same shape and suppresses one already handed out. `NoDoubleSend` and `PostedInOrder` count these rows as
   disturbed or recalled.

Also seen while modelling: the result timeout of the
worker removes the request file before the end of the job is reported, although
docs/mc-main-safe-lifecycle.md:65 says that IPC evidence is retained until then.
Nothing else suffers: the job still ends and is not executed twice.

## 7. Plan

To model, in this order: rollup against retention, cloud monitoring and runtime
inventory; the composition of `Backups` and `Incidents` with `NotificationOutbox`
through the triggers that raise the signals.

To prove: nothing that is within the prover's reach is left of what the runs check; a
reference definition of the folds without recursion would open `Incidents` and the
episodes of `Backups`.
