--------------------------- MODULE JobTransactions ---------------------------
(***************************************************************************)
(* The operation job RPCs as the concurrent PostgreSQL transactions they   *)
(* are: every blocking statement is a step, and what a transaction wrote   *)
(* is seen by the others only when it commits.  The locks are              *)
(*   - the advisory lock of a lock scope, taken by the enqueue RPCs;       *)
(*   - the row lock of a job (for update, for update skip locked);         *)
(*   - the row lock of audit_log_chain_state, taken by append_audit_log.   *)
(* All are held until the transaction ends.  OperationJobs takes an RPC as *)
(* one step: this module shows what entitles it to.                        *)
(***************************************************************************)
EXTENDS JobTable, Sequences, FiniteSets

CONSTANTS
  Tx,         \* database sessions
  Op,         \* the operations that are requested
  Owner,      \* lease owners (agents)
  Lease,      \* lease length in ticks
  MaxJobs,    \* bound: jobs ever inserted
  MaxNow,     \* bound: the clock
  MaxBegun,   \* bound: transactions ever begun
  MaxAborts   \* bound: transactions cut off by a lost connection

Job == 1..MaxJobs

ASSUME TransactionsAssumption ==
  /\ Op \subseteq AllOps
  /\ Null \notin Tx \cup Owner
  /\ Lease \in Nat \ {0}
  /\ MaxJobs \in Nat /\ MaxNow \in Nat /\ MaxBegun \in Nat /\ MaxAborts \in Nat

VARIABLES
  now,       \* clock_timestamp()
  inserted,  \* rows inserted so far, committed or not
  jobs,      \* operation_jobs, as committed
  log,       \* audit_logs, as committed, by id
  nextId,    \* the next value of the id sequence of audit_logs
  head,      \* audit_log_chain_state.last_entry_hash, as committed
  scopeLock, rowLock, chainLock,  \* the session that holds each lock
  tx,        \* what each session is doing
  begun, aborts

vars == <<now, inserted, jobs, log, nextId, head,
          scopeLock, rowLock, chainLock, tx, begun, aborts>>

NoRow == [status |-> Null, op |-> Null, owner |-> Null, expires |-> NoLease]

\* A session: its program counter, the RPC's arguments, v_now, the rows it
\* wrote, the audit rows it has yet to append and has appended, the
\* previous_hash it read, and where it goes on after the audit rows.
Idle == [pc |-> "idle", rpc |-> Null, job |-> 0, to |-> Null, by |-> Null,
         o |-> Null, op |-> Null, at |-> 0, writes |-> {}, owed |-> 0,
         logs |-> <<>>, prev |-> 0, next |-> "commit"]

Init ==
  /\ now = 0 /\ inserted = 0
  /\ jobs = [j \in Job |-> NoRow]
  /\ log = <<>> /\ nextId = 1 /\ head = 0
  /\ scopeLock = [s \in LockScope |-> Null]
  /\ rowLock = [j \in Job |-> Null]
  /\ chainLock = Null
  /\ tx = [t \in Tx |-> Idle]
  /\ begun = 0 /\ aborts = 0

At(t, pc) == tx[t].pc = pc
FreeFor(lock, t) == lock \in {Null, t}

\* What t sees of a job: its own write, else the committed row.
View(t, j) == IF \E w \in tx[t].writes : w.job = j
              THEN (CHOOSE w \in tx[t].writes : w.job = j).row
              ELSE jobs[j]
Write(j, row) == [job |-> j, row |-> row]

-----------------------------------------------------------------------------
(* Begin *)

\* Every RPC reads clock_timestamp() into v_now before it locks anything.
Begin(t, call) ==
  /\ At(t, "idle")
  /\ begun < MaxBegun
  /\ begun' = begun + 1
  /\ tx' = [tx EXCEPT ![t] = call]
  /\ UNCHANGED <<now, inserted, jobs, log, nextId, head, scopeLock, rowLock, chainLock, aborts>>

\* MaxJobs leaves room for the rows of the requests under way.
BeginEnqueue(t, op) ==
  /\ inserted + Cardinality({u \in Tx : tx[u].pc \in {"scope_lock", "decide", "insert"}}) < MaxJobs
  /\ Begin(t, [Idle EXCEPT !.pc = "scope_lock", !.rpc = "enqueue", !.op = op])

\* A request that is refused before the locks leaves one audit row.
BeginDenied(t) ==
  Begin(t, [Idle EXCEPT !.pc = "read_head", !.rpc = "enqueue", !.owed = 1])

BeginTransition(t, j, to, by, o) ==
  /\ jobs[j].status # Null
  /\ Begin(t, [Idle EXCEPT !.pc = "row_lock", !.rpc = "transition", !.job = j,
                           !.to = to, !.by = by, !.o = o, !.at = now])

BeginRenew(t, j, o) ==
  /\ jobs[j].status # Null
  /\ Begin(t, [Idle EXCEPT !.pc = "row_lock", !.rpc = "renew", !.job = j,
                           !.o = o, !.at = now])

BeginClaim(t, o) ==
  Begin(t, [Idle EXCEPT !.pc = "reap", !.rpc = "claim", !.o = o])

-----------------------------------------------------------------------------
(* The end of a transaction *)

Without(locks, t) == [x \in DOMAIN locks |-> IF locks[x] = t THEN Null ELSE locks[x]]

Release(t) ==
  /\ scopeLock' = Without(scopeLock, t)
  /\ rowLock' = Without(rowLock, t)
  /\ chainLock' = IF chainLock = t THEN Null ELSE chainLock
  /\ tx' = [tx EXCEPT ![t] = Idle]

Rollback(t) ==
  /\ Release(t)
  /\ UNCHANGED <<now, inserted, jobs, log, nextId, head, begun>>

Commit(t) ==
  /\ At(t, "commit")
  /\ jobs' = [j \in Job |-> View(t, j)]
  /\ log' = log \o tx[t].logs
  /\ head' = IF tx[t].logs = <<>> THEN head ELSE tx[t].logs[Len(tx[t].logs)].hash
  /\ Release(t)
  /\ UNCHANGED <<now, inserted, nextId, begun, aborts>>

\* The connection is lost or the statement times out.
Abort(t) ==
  /\ ~At(t, "idle")
  /\ aborts < MaxAborts
  /\ aborts' = aborts + 1
  /\ Rollback(t)

-----------------------------------------------------------------------------
(* enqueue_operation_job, enqueue_discord_operation_job *)

Goto(t, pc) == tx' = [tx EXCEPT ![t].pc = pc]
\* Owe one audit row for each row of W, then go on to pc.
Owing(t, W, pc) ==
  tx' = [tx EXCEPT ![t].pc = IF W = {} THEN pc ELSE "read_head",
                   ![t].writes = {w \in @ : \A v \in W : v.job # w.job} \cup W,
                   ![t].owed = Cardinality(W), ![t].next = pc]

\* pg_advisory_xact_lock
TakeScopeLock(t) ==
  /\ At(t, "scope_lock")
  /\ FreeFor(scopeLock[ScopeOf(tx[t].op)], t)
  /\ scopeLock' = [scopeLock EXCEPT ![ScopeOf(tx[t].op)] = t]
  /\ Goto(t, "decide")
  /\ UNCHANGED <<now, inserted, jobs, log, nextId, head, rowLock, chainLock, begun, aborts>>

ActiveIn(rows, s) == {j \in Job : IsActive(rows[j]) /\ ScopeOf(rows[j].op) = s}

\* The look at the committed rows.  A request whose key is known is answered
\* with the job it created (one RPC audits that, the other does not), one whose
\* scope is taken is refused and audited.  The key is left open here: any job of
\* the operation may be the one it names.
DecideReplay(t) ==
  /\ At(t, "decide")
  /\ \E j \in Job : jobs[j].op = tx[t].op
  /\ \/ tx' = [tx EXCEPT ![t].pc = "read_head", ![t].owed = 1]
     \/ Goto(t, "commit")
  /\ UNCHANGED <<now, inserted, jobs, log, nextId, head, scopeLock, rowLock, chainLock, begun, aborts>>

DecideConflict(t) ==
  /\ At(t, "decide")
  /\ ActiveIn(jobs, ScopeOf(tx[t].op)) # {}
  /\ tx' = [tx EXCEPT ![t].pc = "read_head", ![t].owed = 1]
  /\ UNCHANGED <<now, inserted, jobs, log, nextId, head, scopeLock, rowLock, chainLock, begun, aborts>>

DecideFree(t) ==
  /\ At(t, "decide")
  /\ ActiveIn(jobs, ScopeOf(tx[t].op)) = {}
  /\ Goto(t, "insert")
  /\ UNCHANGED <<now, inserted, jobs, log, nextId, head, scopeLock, rowLock, chainLock, begun, aborts>>

\* The row the partial unique index operation_jobs_active_lock_scope_key would
\* find in the way of an insert by t: a committed one, or another session's.
InTheWay(t) ==
  LET s == ScopeOf(tx[t].op) IN
  \/ ActiveIn(jobs, s) # {}
  \/ \E u \in Tx \ {t} : \E w \in tx[u].writes :
       IsActive(w.row) /\ ScopeOf(w.row.op) = s

\* A row in the way makes the index wait and then raise unique_violation.
InsertJob(t) ==
  /\ At(t, "insert")
  /\ IF InTheWay(t)
     THEN Rollback(t) /\ UNCHANGED aborts
     ELSE /\ inserted' = inserted + 1
          /\ rowLock' = [rowLock EXCEPT ![inserted + 1] = t]
          /\ Owing(t, {Write(inserted + 1, [NoRow EXCEPT !.status = "queued", !.op = tx[t].op])},
                   "commit")
          /\ UNCHANGED <<now, jobs, log, nextId, head, scopeLock, chainLock, begun, aborts>>

-----------------------------------------------------------------------------
(* transition_operation_job, renew_operation_job_lease *)

\* The mutation: the row is read without "for update".
LockRowNever(t) ==
  /\ At(t, "row_lock")
  /\ tx[t].rpc = "transition" /\ UNCHANGED rowLock
  /\ LET row == jobs[tx[t].job] IN
     /\ MayTransition(row, tx[t].to, tx[t].by, tx[t].o, tx[t].at)
     /\ Owing(t, {Write(tx[t].job, AfterTransition(row, tx[t].to, tx[t].o, tx[t].at + Lease))},
              "commit")
  /\ UNCHANGED <<now, inserted, jobs, log, nextId, head, scopeLock, chainLock, begun, aborts>>

\* The checks on the locked row and the update; a check that fails raises.
ChangeRow(t) ==
  LET j == tx[t].job
      row == jobs[j]
      c == tx[t]
      legal == IF c.rpc = "renew" THEN MayRenew(row, c.o, c.at)
                                  ELSE MayTransition(row, c.to, c.by, c.o, c.at)
      after == IF c.rpc = "renew" THEN AfterRenew(row, c.at + Lease)
                                  ELSE AfterTransition(row, c.to, c.o, c.at + Lease)
  IN IF legal
     THEN /\ rowLock' = [rowLock EXCEPT ![j] = t]
          /\ Owing(t, {Write(j, after)}, "commit")
          /\ UNCHANGED <<now, inserted, jobs, log, nextId, head, scopeLock, chainLock, begun, aborts>>
     ELSE Rollback(t) /\ UNCHANGED aborts

\* The mutation: the attempt is audited first, so the chain is locked before the row.
LockRowAfterChain(t) ==
  /\ At(t, "row_lock")
  /\ \/ chainLock = t /\ FreeFor(rowLock[tx[t].job], t) /\ ChangeRow(t)
     \/ /\ chainLock = Null /\ chainLock' = t
        /\ UNCHANGED <<now, inserted, jobs, log, nextId, head, scopeLock, rowLock, tx, begun, aborts>>

\* select ... for update
LockRow(t) ==
  /\ At(t, "row_lock")
  /\ FreeFor(rowLock[tx[t].job], t)
  /\ ChangeRow(t)

-----------------------------------------------------------------------------
(* claim_mc_main_operation_job *)

\* Lock and write the rows of W, as their selects with skip locked do.
Seize(t, W, pc) ==
  /\ rowLock' = [j \in Job |-> IF \E w \in W : w.job = j THEN t ELSE rowLock[j]]
  /\ Owing(t, W, pc)
  /\ UNCHANGED <<now, inserted, jobs, log, nextId, head, scopeLock, chainLock, begun, aborts>>

\* expire_stale_operation_jobs: stale rows that nobody has locked.
ReapStale(t) ==
  /\ At(t, "reap")
  /\ LET S == {j \in Job : Stale(jobs[j], now) /\ FreeFor(rowLock[j], t)} IN
     Seize(t, {Write(j, AfterReap(jobs[j], now)) : j \in S}, "pick")

Oldest(S) == {j \in S : \A k \in S : j <= k}
Mine(t) == {j \in Job : MayRenew(View(t, j), tx[t].o, now) /\ jobs[j].op \in LifecycleOps}
Waiting(t) == {j \in Job : View(t, j).status = "queued" /\ jobs[j].op \in LifecycleOps}
Unlocked(S, t) == {j \in S : FreeFor(rowLock[j], t)}

\* The job the claim hands out: its own live one, else the oldest queued one,
\* of those that nobody has locked.
Picked(t) == IF Unlocked(Mine(t), t) # {} THEN Oldest(Unlocked(Mine(t), t))
                                          ELSE Oldest(Unlocked(Waiting(t), t))

Handed(t, j) ==
  IF IsHeld(View(t, j)) THEN AfterRenew(View(t, j), now + Lease)
                        ELSE AfterTransition(View(t, j), "leased", tx[t].o, now + Lease)

Pick(t) ==
  /\ At(t, "pick")
  /\ Seize(t, {Write(j, Handed(t, j)) : j \in Picked(t)}, "commit")

\* The lease it resumes lapses between the select and the check of
\* renew_operation_job_lease, which raises: the reaper's work is lost as well.
PickLapses(t) ==
  /\ At(t, "pick")
  /\ \E j \in Picked(t) : IsHeld(View(t, j)) /\ View(t, j).expires = now + 1
  /\ Rollback(t)
  /\ UNCHANGED aborts

-----------------------------------------------------------------------------
(* append_audit_log *)

\* The head of the chain as t sees it.
HeadOf(t) == IF tx[t].logs = <<>> THEN head ELSE tx[t].logs[Len(tx[t].logs)].hash

\* The mutation: the head is read without "for update".
ReadHeadUnlocked(t) ==
  /\ At(t, "read_head")
  /\ tx' = [tx EXCEPT ![t].pc = "append", ![t].prev = HeadOf(t)]
  /\ UNCHANGED <<now, inserted, jobs, log, nextId, head, scopeLock, rowLock, chainLock, begun, aborts>>

\* select last_entry_hash ... for update
ReadHead(t) ==
  /\ At(t, "read_head")
  /\ FreeFor(chainLock, t)
  /\ chainLock' = t
  /\ tx' = [tx EXCEPT ![t].pc = "append", ![t].prev = HeadOf(t)]
  /\ UNCHANGED <<now, inserted, jobs, log, nextId, head, scopeLock, rowLock, begun, aborts>>

\* Insert the audit row and move the head, which takes its row lock as well.
\* The hash covers the previous one and the row, so it identifies the row.
AppendLog(t) ==
  /\ At(t, "append")
  /\ FreeFor(chainLock, t)
  /\ chainLock' = t
  /\ nextId' = nextId + 1
  /\ tx' = [tx EXCEPT ![t].logs = Append(@, [prev |-> tx[t].prev, hash |-> nextId]),
                      ![t].owed = @ - 1,
                      ![t].pc = IF tx[t].owed = 1 THEN tx[t].next ELSE "read_head"]
  /\ UNCHANGED <<now, inserted, jobs, log, head, scopeLock, rowLock, begun, aborts>>

-----------------------------------------------------------------------------
Tick ==
  /\ now < MaxNow
  /\ now' = now + 1
  /\ UNCHANGED <<inserted, jobs, log, nextId, head, scopeLock, rowLock, chainLock, tx, begun, aborts>>

Start(t) ==
  \/ \E op \in Op : BeginEnqueue(t, op)
  \/ BeginDenied(t)
  \/ \E j \in Job, o \in Owner :
       \/ \E to \in {"leased", "running", "queued", "succeeded", "failed"} :
            BeginTransition(t, j, to, "agent", o)
       \/ BeginRenew(t, j, o)
  \/ \E j \in Job : \/ BeginTransition(t, j, "cancelled", "console_user", Null)
                    \/ BeginTransition(t, j, "queued", "system", Null)
  \/ \E o \in Owner : BeginClaim(t, o)

Step(t) ==
  \/ TakeScopeLock(t) \/ DecideReplay(t) \/ DecideConflict(t) \/ DecideFree(t) \/ InsertJob(t)
  \/ LockRow(t)
  \/ ReapStale(t) \/ Pick(t) \/ PickLapses(t)
  \/ ReadHead(t) \/ AppendLog(t)
  \/ Commit(t)

Next == Tick \/ \E t \in Tx : Start(t) \/ Step(t) \/ Abort(t)

Spec == Init /\ [][Next]_vars

-----------------------------------------------------------------------------
(* Properties *)

\* The committed audit log is one hash chain, whatever transactions ran side by
\* side or were cut off: each row's previous_hash is the hash of the row before
\* it by id, and audit_log_chain_state is the last one (append_audit_log).
AuditChainIsLinear ==
  /\ \A i \in 1..Len(log) :
       log[i].prev = IF i = 1 THEN 0 ELSE log[i - 1].hash
  /\ \A i \in 2..Len(log) : log[i - 1].hash < log[i].hash
  /\ head = IF log = <<>> THEN 0 ELSE log[Len(log)].hash

\* The locks are taken in an order that admits no cycle, although a claim goes
\* on to lock rows after its reaper has locked the audit chain: while sessions
\* are under way one of them can go on, so all finish in the end and none has to
\* be sacrificed to the deadlock detector.
NoDeadlock == (\E t \in Tx : ~At(t, "idle")) => \E t \in Tx : ENABLED Step(t)

\* No update is lost: what a commit makes of a row follows by the transition
\* rules from the row as committed before and never revives an ended job; two
\* agents never win the same job, and none takes it from another.
CommitsAreLegal ==
  [][\A j \in Job :
       /\ jobs'[j].status # jobs[j].status /\ jobs[j].status # Null
            => <<jobs[j].status, jobs'[j].status>> \in AllowedTransitions
       /\ jobs[j].owner # Null /\ IsActive(jobs'[j])
            => jobs'[j].owner \in {jobs[j].owner, Null}]_vars
=============================================================================
