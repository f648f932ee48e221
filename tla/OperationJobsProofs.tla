------------------------ MODULE OperationJobsProofs ------------------------
(***************************************************************************)
(* Proofs about the operation job table, for any users, keys, operations,  *)
(* lease owners, lease length and bounds.                                  *)
(*                                                                         *)
(* Every step of Next is one of three kinds (lemma StepKinds): it leaves   *)
(* the jobs alone, it inserts one queued job whose request is unknown and  *)
(* whose scope is free, or it changes existing rows as the transition      *)
(* rules allow.  The invariants follow from the kind of step alone.        *)
(***************************************************************************)
EXTENDS OperationJobs, TLAPS

\* What one transaction may make of an existing row.
RowStep(r, s) ==
  /\ s.op = r.op /\ s.who = r.who /\ s.key = r.key
  /\ \/ /\ IsHeld(r) /\ s.status = r.status
        /\ s.owner = r.owner /\ s.expires # NoLease
     \/ /\ r.status = "queued" /\ s.status = "leased"
        /\ s.owner \in Owner /\ s.expires # NoLease
     \/ /\ r.status = "leased" /\ s.status = "queued"
        /\ s.owner = Null /\ s.expires = NoLease
     \/ /\ <<r.status, s.status>> \in AllowedTransitions
        /\ s.status \notin {"queued", "leased"}
        /\ s.owner = r.owner /\ s.expires = r.expires

JobsKept == created' = created /\ jobs' = jobs

JobInserted ==
  \E u \in Requester, op \in Op, k \in Key :
    /\ ~Known(u, op, k) /\ ~ScopeBusy(op)
    /\ created < MaxJobs /\ created' = created + 1
    /\ jobs' = [jobs EXCEPT ![created + 1] =
                  [NoRow EXCEPT !.status = "queued", !.op = op, !.who = u, !.key = k]]

JobsChanged ==
  /\ created' = created
  /\ jobs' \in [Job -> Row]
  /\ \A j \in Job : jobs'[j] = jobs[j] \/ (j \in Existing /\ RowStep(jobs[j], jobs'[j]))

\* A step leaves the log of a job alone, or appends the one event that tells
\* what it made of the job's status, and one audit row with it.
LogKept(j) == /\ events'[j] = events[j] /\ audited'[j] = audited[j]
              /\ jobs'[j].status = jobs[j].status
Logged(j, a) == /\ events'[j] = Append(events[j], [from |-> jobs[j].status,
                                                   to |-> jobs'[j].status, by |-> a])
                /\ audited'[j] = audited[j] + 1
LogStep == /\ events' = [j \in Job |-> events'[j]]
           /\ audited' = [j \in Job |-> audited'[j]]
           /\ \A j \in Job : LogKept(j) \/ \E a \in Actor : Logged(j, a) /\ j \in 1..created'

USE ParametersAssumption DEF Job, Existing

LEMMA StatusFacts ==
  /\ Null \notin Status
  /\ ActiveStatus \subseteq Status /\ HeldStatus \subseteq ActiveStatus
  /\ TerminalStatus \cap ActiveStatus = {}
  /\ Status = {"queued", "leased", "running", "succeeded", "failed", "cancelled", "expired"}
BY DEF Status, ActiveStatus, HeldStatus, TerminalStatus, Null

\* transition_operation_job makes a row step.
LEMMA TransitionRow ==
  ASSUME NEW r \in Row, NEW to \in Status, NEW by \in ActorType,
         NEW o \in Owner \cup {Null}, NEW t \in Nat, NEW e \in Nat,
         MayTransition(r, to, by, o, t),
         to = "leased" => o \in Owner /\ e # NoLease
  PROVE  /\ AfterTransition(r, to, o, e) \in Row
         /\ AfterTransition(r, to, o, e).status = to
         /\ RowStep(r, AfterTransition(r, to, o, e))
BY DEF Row, MayTransition, AfterTransition, RowStep, AllowedTransitions, Status,
       ActiveStatus, TerminalStatus, NoLease, IsHeld, HeldStatus, Null

\* renew_operation_job_lease and the reaper make row steps.
LEMMA RenewRow ==
  ASSUME NEW r \in Row, NEW e \in Nat \ {0}, IsHeld(r)
  PROVE  /\ AfterRenew(r, e) \in Row
         /\ RowStep(r, AfterRenew(r, e))
BY DEF Row, AfterRenew, RowStep, IsHeld, HeldStatus, NoLease

LEMMA ReapRow ==
  ASSUME NEW r \in Row, NEW t \in Nat, Stale(r, t)
  PROVE  /\ AfterReap(r, t) \in Row
         /\ RowStep(r, AfterReap(r, t))
BY DEF Row, AfterReap, AfterTransition, RowStep, AllowedTransitions, Status, Stale,
       ActiveStatus, TerminalStatus, NoLease, IsHeld, HeldStatus, Null

LEMMA NoRowType == NoRow \in Row
BY DEF NoRow, Row, NoLease

LEMMA InsertKind ==
  ASSUME TypeOK, NEW u \in Requester, NEW op \in Op, NEW k \in Key,
         Insert(u, op, k), ~Known(u, op, k), ~ScopeBusy(op)
  PROVE  JobInserted
BY DEF Insert, JobInserted

LEMMA TransitionKind ==
  ASSUME TypeOK, NEW j \in Job, NEW to \in Status, NEW by \in ActorType,
         NEW o \in Owner \cup {Null}, NEW s \in Nat,
         to = "leased" => o \in Owner /\ s # 0,
         Transition(j, to, by, o, s)
  PROVE  JobsChanged
<1> DEFINE r == AfterTransition(jobs[j], to, o, now + s)
<1>1. /\ jobs[j] \in Row /\ now + s \in Nat /\ j \in Existing
      /\ MayTransition(jobs[j], to, by, o, now)
      /\ jobs' = [jobs EXCEPT ![j] = r] /\ created' = created
  BY DEF Transition, TypeOK
<1>2. to = "leased" => o \in Owner /\ now + s # NoLease
  BY DEF NoLease, TypeOK
<1>3. r \in Row /\ RowStep(jobs[j], r)
  BY <1>1, <1>2, TransitionRow DEF TypeOK
<1> HIDE DEF r
<1>4. QED BY <1>1, <1>3 DEF JobsChanged, TypeOK

LEMMA RenewKind ==
  ASSUME TypeOK, NEW j \in Job, NEW o \in Owner, NEW s \in Nat \ {0}, Renew(j, o, s)
  PROVE  JobsChanged
<1> DEFINE r == AfterRenew(jobs[j], now + s)
<1>1. /\ jobs[j] \in Row /\ now + s \in Nat \ {0} /\ j \in Existing /\ IsHeld(jobs[j])
      /\ jobs' = [jobs EXCEPT ![j] = r] /\ created' = created
  BY DEF Renew, MayRenew, TypeOK
<1>2. r \in Row /\ RowStep(jobs[j], r)
  BY <1>1, RenewRow
<1> HIDE DEF r
<1>3. QED BY <1>1, <1>2 DEF JobsChanged, TypeOK

LEMMA ReapedRows ==
  ASSUME TypeOK
  PROVE  /\ Reaped \in [Job -> Row]
         /\ \A j \in Job : Reaped[j] = jobs[j] \/ (j \in Existing /\ RowStep(jobs[j], Reaped[j]))
<1> SUFFICES ASSUME NEW j \in Job
             PROVE  /\ Reaped[j] \in Row
                    /\ Reaped[j] = jobs[j] \/ (j \in Existing /\ RowStep(jobs[j], Reaped[j]))
  BY DEF Reaped
<1>1. CASE j \in StaleJobs
  <2>1. Stale(jobs[j], now) /\ jobs[j] \in Row /\ j \in Existing /\ now \in Nat
    BY <1>1 DEF StaleJobs, TypeOK
  <2>2. Reaped[j] = AfterReap(jobs[j], now)
    BY <1>1 DEF Reaped
  <2>3. QED BY <2>1, <2>2, ReapRow
<1>2. CASE j \notin StaleJobs
  BY <1>2 DEF Reaped, TypeOK
<1>3. QED BY <1>1, <1>2

LEMMA ReapKind ==
  ASSUME TypeOK, Reap
  PROVE  JobsChanged
BY ReapedRows DEF Reap, JobsChanged

LEMMA ClaimKind ==
  ASSUME TypeOK, NEW o \in Owner, Claim(o)
  PROVE  JobsChanged
<1>1. CASE Claimable(o) = {}
  BY <1>1, ReapKind DEF Claim
<1>2. CASE Claimable(o) # {}
  <2>1. PICK j \in Claimable(o) : /\ jobs' = [Reaped EXCEPT ![j] = Claimed(j, o)]
                                  /\ created' = created
    BY <1>2 DEF Claim
  <2>2. j \in Existing /\ j \in Job /\ (Held(j) \/ jobs[j].status = "queued")
    BY <2>1 DEF Claimable, Oldest, Mine, Waiting, TypeOK
  <2>3. Claimed(j, o) \in Row /\ RowStep(jobs[j], Claimed(j, o))
    <3>1. jobs[j] \in Row /\ now + Lease \in Nat \ {0}
      BY <2>2 DEF TypeOK
    <3>2. CASE Held(j)
      BY <3>1, <3>2, RenewRow DEF Claimed, Held
    <3>3. CASE ~Held(j)
      <4>1. MayTransition(jobs[j], "leased", "agent", o, now)
        BY <2>2, <3>3 DEF MayTransition, AllowedTransitions, IsHeld, Held
      <4>2. "leased" \in Status /\ "agent" \in ActorType
        BY DEF Status, ActiveStatus, ActorType
      <4>3. QED BY <3>1, <3>3, <4>1, <4>2, TransitionRow DEF Claimed, TypeOK, NoLease
    <3>4. QED BY <3>2, <3>3
  <2>4. QED BY <2>1, <2>2, <2>3, ReapedRows DEF JobsChanged
<1>3. QED BY <1>1, <1>2

\* Every step is of one of the three kinds.
LEMMA StepKinds ==
  ASSUME TypeOK, [Next]_vars
  PROVE  JobsKept \/ JobInserted \/ JobsChanged
<1>1. CASE UNCHANGED vars
  BY <1>1 DEF JobsKept, vars
<1>2. ASSUME NEW op \in Op, NEW k \in Key, NEW confirmed \in BOOLEAN, NEW u \in Discord,
             EnqueueDiscord(u, op, k, confirmed)
      PROVE  JobsKept \/ JobInserted \/ JobsChanged
  <2>1. u \in Requester
    BY DEF Requester
  <2>2. CASE Refuse
    BY <2>2 DEF Refuse, JobsKept
  <2>3. CASE Insert(u, op, k) /\ ~Known(u, op, k) /\ ~ScopeBusy(op)
    BY <2>1, <2>3, InsertKind
  <2>4. QED BY <1>2, <2>2, <2>3 DEF EnqueueDiscord
<1>3. ASSUME NEW op \in Op, NEW k \in Key, NEW confirmed \in BOOLEAN, NEW u \in Console,
             EnqueueConsole(u, op, k, confirmed)
      PROVE  JobsKept \/ JobInserted \/ JobsChanged
  <2>1. u \in Requester
    BY DEF Requester
  <2>2. CASE Refuse
    BY <2>2 DEF Refuse, JobsKept
  <2>3. CASE Insert(u, op, k) /\ ~Known(u, op, k) /\ ~ScopeBusy(op)
    BY <2>1, <2>3, InsertKind
  <2>4. QED BY <1>3, <2>2, <2>3 DEF EnqueueConsole
<1>4. ASSUME NEW j \in Job, NEW o \in Owner, NEW to \in Status, NEW s \in Nat,
             to = "leased" => s # 0, AgentTransition(j, to, o, s)
      PROVE  JobsChanged
  BY <1>4, TransitionKind DEF AgentTransition, ActorType
<1>5. ASSUME NEW j \in Job, NEW o \in Owner, NEW s \in 1..Lease, Renew(j, o, s)
      PROVE  JobsChanged
  BY <1>5, RenewKind
<1>6. ASSUME NEW j \in Job, NEW o \in Owner, NEW to \in Status, McMainTransition(j, to, o)
      PROVE  JobsChanged
  BY <1>6, <1>4 DEF McMainTransition
<1>7. ASSUME NEW j \in Job, NEW to \in Status, SystemTransition(j, to)
      PROVE  JobsChanged
  <2>1. to # "leased"
    BY <1>7 DEF SystemTransition, Transition, MayTransition
  <2>2. QED BY <1>7, <2>1, TransitionKind DEF SystemTransition, ActorType
<1>8. ASSUME NEW j \in Job, NEW u \in Console, Cancel(j, u)
      PROVE  JobsChanged
  <2>1. "cancelled" \in Status /\ "console_user" \in ActorType
    BY DEF Status, TerminalStatus, ActorType
  <2>2. QED BY <1>8, <2>1, TransitionKind DEF Cancel
<1>9. ASSUME NEW o \in Owner, Claim(o) PROVE JobsChanged
  BY <1>9, ClaimKind
<1>10. CASE Reap
  BY <1>10, ReapKind
<1>11. CASE ToggleHost \/ Tick
  BY <1>11 DEF ToggleHost, Tick, JobsKept
<1>12. QED
  <2>1. "leased" \in Status
    BY DEF Status, ActiveStatus
  <2>2. QED
    BY <1>1, <1>2, <1>3, <1>4, <1>5, <1>6, <1>7, <1>8, <1>9, <1>10, <1>11, <2>1 DEF Next

-----------------------------------------------------------------------------
(* The logs *)

LEMMA RecordLogs ==
  ASSUME NEW S \in SUBSET Job, NEW a \in Actor, Record(S, jobs', a), S \subseteq 1..created',
         \A j \in Job \ S : jobs'[j].status = jobs[j].status
  PROVE  LogStep
<1>1. ASSUME NEW j \in Job PROVE LogKept(j) \/ \E b \in Actor : Logged(j, b) /\ j \in 1..created'
  <2>1. CASE j \in S
    BY <2>1 DEF Record, Logged
  <2>2. CASE j \notin S
    BY <2>2 DEF Record, LogKept
  <2>3. QED BY <2>1, <2>2
<1>2. events' = [j \in Job |-> events'[j]] /\ audited' = [j \in Job |-> audited'[j]]
  BY DEF Record
<1>3. QED BY <1>1, <1>2 DEF LogStep

LEMMA KeptLogs ==
  ASSUME TypeOK, UNCHANGED <<jobs, events, audited>>
  PROVE  LogStep
BY DEF TypeOK, LogStep, LogKept

LEMMA TransitionLogs ==
  ASSUME TypeOK, NEW j \in Job, NEW to, NEW by, NEW o \in Owner \cup {Null}, NEW s,
         by \in ActorType, by = "agent" => o \in Owner,
         Transition(j, to, by, o, s)
  PROVE  LogStep
<1> DEFINE a == IF by = "agent" THEN o ELSE by
<1>1. a \in Actor
  BY DEF Actor, ActorType
<1>2. /\ Record({j}, jobs', a) /\ j \in 1..created' /\ created' = created
      /\ jobs' = [jobs EXCEPT ![j] = AfterTransition(@, to, o, now + s)]
  BY DEF Transition
<1> HIDE DEF a
<1>3. \A i \in Job \ {j} : jobs'[i].status = jobs[i].status
  BY <1>2 DEF TypeOK
<1>4. QED BY <1>1, <1>2, <1>3, RecordLogs

LEMMA InsertLogs ==
  ASSUME TypeOK, NEW u, NEW op, NEW k, Insert(u, op, k)
  PROVE  LogStep
<1>1. /\ created + 1 \in Job /\ created + 1 \in 1..created'
      /\ Record({created + 1}, jobs', "console_user")
  BY DEF Insert, TypeOK
<1>2. \A i \in Job \ {created + 1} : jobs'[i].status = jobs[i].status
  BY DEF Insert, TypeOK
<1>3. "console_user" \in Actor
  BY DEF Actor
<1>4. QED BY <1>1, <1>2, <1>3, RecordLogs

LEMMA RenewLogs ==
  ASSUME TypeOK, NEW j \in Job, NEW o \in Owner, NEW s, Renew(j, o, s)
  PROVE  LogStep
<1>1. \A i \in Job \ {j} : jobs'[i].status = jobs[i].status
  BY DEF Renew, TypeOK
<1>2. QED BY <1>1, RecordLogs DEF Renew, Actor

LEMMA ReapLogs ==
  ASSUME TypeOK, Reap
  PROVE  LogStep
<1>1. /\ StaleJobs \in SUBSET Job /\ StaleJobs \subseteq 1..created' /\ "system" \in Actor
  BY DEF StaleJobs, TypeOK, Actor, Reap
<1>2. \A i \in Job \ StaleJobs : jobs'[i].status = jobs[i].status
  BY DEF Reap, Reaped
<1>3. QED BY <1>1, <1>2, RecordLogs DEF Reap

LEMMA ClaimLogs ==
  ASSUME TypeOK, NEW o \in Owner, Claim(o)
  PROVE  LogStep
<1>1. CASE Claimable(o) = {}
  BY <1>1, ReapLogs DEF Claim
<1>2. CASE Claimable(o) # {}
  <2>1. PICK j \in Claimable(o) : /\ jobs' = [Reaped EXCEPT ![j] = Claimed(j, o)]
                                  /\ RecordClaim(j, o)
                                  /\ created' = created
    BY <1>2 DEF Claim
  <2>2. j \in Existing /\ j \in Job /\ StaleJobs \subseteq Existing
    BY <2>1 DEF Claimable, Oldest, Mine, Waiting, TypeOK, StaleJobs
  <2>3. ASSUME NEW i \in Job PROVE LogKept(i) \/ \E b \in Actor : Logged(i, b) /\ i \in 1..created'
    <3>1. CASE i = j
      BY <2>1, <2>2, <3>1 DEF RecordClaim, Logged, Actor
    <3>2. CASE i # j /\ i \in StaleJobs
      <4>1. jobs'[i] = AfterReap(jobs[i], now) /\ Stale(jobs[i], now) /\ jobs[i] \in Row
        BY <2>1, <3>2 DEF Reaped, StaleJobs, TypeOK
      <4>2. jobs'[i].status = "expired"
        BY <4>1 DEF AfterReap, AfterTransition, Row
      <4>3. QED BY <2>1, <2>2, <3>2, <4>2 DEF RecordClaim, Logged, Actor
    <3>3. CASE i # j /\ i \notin StaleJobs
      BY <2>1, <2>2, <3>3 DEF RecordClaim, LogKept, Reaped
    <3>4. QED BY <3>1, <3>2, <3>3
  <2>4. events' = [i \in Job |-> events'[i]] /\ audited' = [i \in Job |-> audited'[i]]
    BY <2>1 DEF RecordClaim
  <2>5. QED BY <2>3, <2>4 DEF LogStep
<1>3. QED BY <1>1, <1>2

\* Every step leaves the logs in step with the jobs.
LEMMA StepLogs ==
  ASSUME TypeOK, [Next]_vars
  PROVE  LogStep
<1>1. CASE UNCHANGED vars
  BY <1>1, KeptLogs DEF vars
<1>2. CASE Refuse \/ ToggleHost \/ Tick
  BY <1>2, KeptLogs DEF Refuse, ToggleHost, Tick
<1>3. ASSUME NEW op \in Op, NEW k \in Key, NEW confirmed \in BOOLEAN, NEW u \in Requester,
             EnqueueDiscord(u, op, k, confirmed) \/ EnqueueConsole(u, op, k, confirmed)
      PROVE  LogStep
  <2>1. Refuse \/ Insert(u, op, k)
    BY <1>3 DEF EnqueueDiscord, EnqueueConsole
  <2>2. QED BY <1>2, <2>1, InsertLogs
<1>4. ASSUME NEW j \in Job, NEW o \in Owner, NEW to, NEW s, AgentTransition(j, to, o, s)
      PROVE  LogStep
  BY <1>4, TransitionLogs DEF AgentTransition, ActorType
<1>5. ASSUME NEW j \in Job, NEW o \in Owner, NEW to, McMainTransition(j, to, o)
      PROVE  LogStep
  BY <1>4, <1>5 DEF McMainTransition
<1>6. ASSUME NEW j \in Job, NEW to, SystemTransition(j, to) PROVE LogStep
  BY <1>6, TransitionLogs DEF SystemTransition, ActorType
<1>7. ASSUME NEW j \in Job, NEW u \in Console, Cancel(j, u) PROVE LogStep
  BY <1>7, TransitionLogs DEF Cancel, ActorType
<1>8. QED
  BY <1>1, <1>2, <1>3, <1>4, <1>5, <1>6, <1>7, ReapLogs, ClaimLogs, RenewLogs
     DEF Next, Requester

-----------------------------------------------------------------------------
(* The invariants *)

LEMMA TypeInit == Init => TypeOK
BY NoRowType DEF Init, TypeOK, NoRow, Status, ActiveStatus, TerminalStatus, Null

LEMMA JobsType ==
  ASSUME TypeOK, [Next]_vars
  PROVE  /\ created' \in 0..MaxJobs
         /\ jobs' \in [Job -> Row]
         /\ \A j \in Job : j \in 1..created' <=> jobs'[j].status \in Status
<1>1. CASE JobsKept
  BY <1>1 DEF JobsKept, TypeOK
<1>2. CASE JobInserted
  <2>1. PICK u \in Requester, op \in Op, k \in Key :
          /\ created < MaxJobs /\ created' = created + 1
          /\ jobs' = [jobs EXCEPT ![created + 1] =
                        [NoRow EXCEPT !.status = "queued", !.op = op, !.who = u, !.key = k]]
    BY <1>2 DEF JobInserted
  <2>2. [NoRow EXCEPT !.status = "queued", !.op = op, !.who = u, !.key = k] \in Row
    BY DEF NoRow, Row, Status, ActiveStatus, NoLease
  <2>3. [NoRow EXCEPT !.status = "queued", !.op = op, !.who = u, !.key = k].status \in Status
    BY DEF NoRow, Status, ActiveStatus
  <2>4. created' \in 0..MaxJobs /\ created + 1 \in Job
    BY <2>1 DEF TypeOK
  <2>5. jobs' \in [Job -> Row]
    BY <2>1, <2>2, <2>4 DEF TypeOK
  <2>6. ASSUME NEW j \in Job PROVE j \in 1..created' <=> jobs'[j].status \in Status
    <3>1. CASE j = created + 1
      BY <2>1, <2>3, <2>4, <3>1 DEF TypeOK
    <3>2. CASE j # created + 1
      BY <2>1, <2>4, <3>2 DEF TypeOK
    <3>3. QED BY <3>1, <3>2
  <2>7. QED BY <2>4, <2>5, <2>6
<1>3. CASE JobsChanged
  <2>1. \A r, t : RowStep(r, t) => r.status \in Status /\ t.status \in Status
    BY DEF RowStep, AllowedTransitions, IsHeld, HeldStatus, Status, ActiveStatus, TerminalStatus
  <2>2. QED BY <1>3, <2>1 DEF JobsChanged, TypeOK
<1>4. QED BY <1>1, <1>2, <1>3, StepKinds

LEMMA LogsType ==
  ASSUME TypeOK, [Next]_vars
  PROVE  events' \in [Job -> Seq(Event)] /\ audited' \in [Job -> Nat]
<1>1. LogStep
  BY StepLogs
<1>2. ASSUME NEW j \in Job PROVE events'[j] \in Seq(Event) /\ audited'[j] \in Nat
  <2>1. CASE LogKept(j)
    BY <2>1 DEF LogKept, TypeOK
  <2>2. ASSUME NEW a \in Actor, Logged(j, a), j \in 1..created'
        PROVE  events'[j] \in Seq(Event) /\ audited'[j] \in Nat
    <3>1. jobs'[j].status \in Status /\ jobs[j].status \in Status \cup {Null}
      BY <2>2, JobsType DEF TypeOK, Row
    <3>2. [from |-> jobs[j].status, to |-> jobs'[j].status, by |-> a] \in Event
      BY <3>1 DEF Event
    <3>3. QED BY <2>2, <3>2 DEF Logged, TypeOK
  <2>3. QED BY <1>1, <2>1, <2>2 DEF LogStep
<1>3. QED BY <1>1, <1>2 DEF LogStep

\* Only Refuse, ToggleHost and Tick touch the scalars.
LEMMA ScalarSteps ==
  ASSUME [Next]_vars
  PROVE  \/ UNCHANGED <<now, hostEnabled, refused>>
         \/ Refuse \/ ToggleHost \/ Tick
<1>1. ASSUME NEW op, NEW k, NEW u, NEW confirmed,
             EnqueueDiscord(u, op, k, confirmed) \/ EnqueueConsole(u, op, k, confirmed)
      PROVE  UNCHANGED <<now, hostEnabled, refused>> \/ Refuse
  BY <1>1 DEF EnqueueDiscord, EnqueueConsole, Insert
<1>2. ASSUME NEW j, NEW o, NEW to, NEW s,
             \/ AgentTransition(j, to, o, s) \/ SystemTransition(j, to)
             \/ McMainTransition(j, to, o) \/ Cancel(j, o) \/ Renew(j, o, s)
      PROVE  UNCHANGED <<now, hostEnabled, refused>>
  BY <1>2 DEF AgentTransition, SystemTransition, McMainTransition, Cancel, Transition, Renew
<1>3. ASSUME NEW o, Reap \/ Claim(o) PROVE UNCHANGED <<now, hostEnabled, refused>>
  BY <1>3 DEF Reap, Claim
<1>4. CASE UNCHANGED vars
  BY <1>4 DEF vars
<1>5. QED BY <1>1, <1>2, <1>3, <1>4 DEF Next

LEMMA ClockType ==
  ASSUME TypeOK, [Next]_vars
  PROVE  now' \in Nat /\ hostEnabled' \in BOOLEAN /\ refused' \in Nat
<1>1. now' \in Nat /\ refused' \in Nat
  BY ScalarSteps DEF TypeOK, Refuse, ToggleHost, Tick
<1>2. hostEnabled' = hostEnabled \/ hostEnabled' = ~hostEnabled
  BY ScalarSteps, Zenon DEF Refuse, ToggleHost, Tick
<1>3. hostEnabled' \in BOOLEAN
  BY <1>2, Zenon DEF TypeOK
<1>4. QED BY <1>1, <1>3

\* The tables only ever hold rows of their types, and the inserted jobs are
\* exactly those with a status, under every RPC of the job table.
THEOREM TypeCorrect == Spec => []TypeOK
<1>1. TypeOK /\ [Next]_vars => TypeOK'
  BY JobsType, LogsType, ClockType DEF TypeOK
<1>2. QED BY TypeInit, <1>1, PTL DEF Spec

\* What follows from the kind of a step about the parts of a row.
LEMMA RowStepFacts ==
  ASSUME NEW r, NEW s, RowStep(r, s)
  PROVE  /\ IsActive(r)
         /\ s.op = r.op /\ s.who = r.who /\ s.key = r.key
BY DEF RowStep, AllowedTransitions, IsHeld, IsActive, HeldStatus, ActiveStatus

\* The inductive invariant of the lock: it needs the type invariant only.
LEMMA LockStep ==
  ASSUME TypeOK, OneActivePerScope, [Next]_vars
  PROVE  OneActivePerScope'
<1>1. CASE JobsKept
  BY <1>1 DEF JobsKept, OneActivePerScope, Active, Scope
<1>2. CASE JobInserted
  <2>1. PICK u \in Requester, op \in Op, k \in Key :
          /\ ~ScopeBusy(op) /\ created < MaxJobs /\ created' = created + 1
          /\ jobs' = [jobs EXCEPT ![created + 1] =
                        [NoRow EXCEPT !.status = "queued", !.op = op, !.who = u, !.key = k]]
    BY <1>2 DEF JobInserted
  <2>2. created + 1 \in Job /\ created \in Nat
    BY <2>1 DEF TypeOK
  <2>3. jobs'[created + 1].op = op
    BY <2>1, <2>2 DEF TypeOK, NoRow
  <2>4. \A j \in Existing : j \in Job /\ j # created + 1 /\ jobs'[j] = jobs[j]
    BY <2>1, <2>2 DEF TypeOK
  <2>5. PICK n \in Job : n = created + 1
    BY <2>2
  <2>6. Existing' = Existing \cup {n} /\ ScopeOf(jobs'[n].op) = ScopeOf(op)
    BY <2>1, <2>2, <2>3, <2>5
  <2>7. \A j \in Existing : ~(IsActive(jobs'[j]) /\ ScopeOf(jobs'[j].op) = ScopeOf(op))
    BY <2>1, <2>4 DEF ScopeBusy, Active, Scope
  <2>8. \A i, j \in Existing : IsActive(jobs'[i]) /\ IsActive(jobs'[j])
                              /\ ScopeOf(jobs'[i].op) = ScopeOf(jobs'[j].op) => i = j
    BY <2>4 DEF OneActivePerScope, Active, Scope
  <2>9. QED BY <2>6, <2>7, <2>8 DEF OneActivePerScope, Active, Scope
<1>3. CASE JobsChanged
  <2>1. \A j \in Existing : Active(j)' => Active(j) /\ Scope(j)' = Scope(j)
    BY <1>3, RowStepFacts DEF JobsChanged, Active, Scope, TypeOK
  <2>2. QED BY <1>3, <2>1 DEF JobsChanged, OneActivePerScope
<1>4. QED BY <1>1, <1>2, <1>3, StepKinds

\* At most one active job per lock scope, for any number of users, keys, agents
\* and jobs: the advisory lock and the check for a conflicting job suffice, and
\* no transition, renewal, claim or reaping ever revives a job.
THEOREM LockIsExclusive == Spec => []OneActivePerScope
<1>1. Init => OneActivePerScope
  BY DEF Init, OneActivePerScope
<1>2. TypeOK /\ OneActivePerScope /\ [Next]_vars => OneActivePerScope'
  BY LockStep
<1>3. QED BY <1>1, <1>2, TypeCorrect, PTL DEF Spec

LEMMA LeaseStep ==
  ASSUME TypeOK, LeaseMatchesStatus, [Next]_vars
  PROVE  LeaseMatchesStatus'
<1>1. CASE JobsKept
  BY <1>1 DEF JobsKept, LeaseMatchesStatus, Held
<1>2. CASE JobInserted
  <2>1. PICK u \in Requester, op \in Op, k \in Key :
          /\ created < MaxJobs /\ created' = created + 1
          /\ jobs' = [jobs EXCEPT ![created + 1] =
                        [NoRow EXCEPT !.status = "queued", !.op = op, !.who = u, !.key = k]]
    BY <1>2 DEF JobInserted
  <2>2. created + 1 \in Job /\ created \in Nat
    BY <2>1 DEF TypeOK
  <2>3. /\ jobs'[created + 1].owner = Null /\ jobs'[created + 1].expires = NoLease
        /\ jobs'[created + 1].status = "queued"
    BY <2>1, <2>2 DEF TypeOK, NoRow
  <2>4. \A j \in Existing : j \in Job /\ j # created + 1 /\ jobs'[j] = jobs[j]
    BY <2>1, <2>2 DEF TypeOK
  <2>5. Existing' = Existing \cup {created + 1}
    BY <2>1, <2>2
  <2>6. QED BY <2>3, <2>4, <2>5 DEF LeaseMatchesStatus, Held, IsHeld, HeldStatus
<1>3. CASE JobsChanged
  <2>1. ASSUME NEW j \in Existing
        PROVE  /\ jobs'[j].status \in {"queued", "cancelled"}
                    => jobs'[j].owner = Null /\ jobs'[j].expires = NoLease
               /\ IsHeld(jobs'[j]) => jobs'[j].owner \in Owner /\ jobs'[j].expires # NoLease
    <3>1. j \in Job
      BY DEF TypeOK
    <3>2. CASE jobs'[j] = jobs[j]
      BY <3>2 DEF LeaseMatchesStatus, Held
    <3>3. CASE RowStep(jobs[j], jobs'[j])
      BY <3>3 DEF LeaseMatchesStatus, Held, RowStep, IsHeld, HeldStatus, AllowedTransitions
    <3>4. QED BY <1>3, <3>1, <3>2, <3>3 DEF JobsChanged
  <2>2. QED BY <1>3, <2>1 DEF JobsChanged, LeaseMatchesStatus, Held
<1>4. QED BY <1>1, <1>2, <1>3, StepKinds

\* A job has an owner and a lease exactly while an agent holds it.
THEOREM LeaseIsCoherent == Spec => []LeaseMatchesStatus
<1>1. Init => LeaseMatchesStatus
  BY DEF Init, LeaseMatchesStatus
<1>2. TypeOK /\ LeaseMatchesStatus /\ [Next]_vars => LeaseMatchesStatus'
  BY LeaseStep
<1>3. QED BY <1>1, <1>2, TypeCorrect, PTL DEF Spec

LEMMA RequestStep ==
  ASSUME TypeOK, OneJobPerRequest, [Next]_vars
  PROVE  OneJobPerRequest'
<1>1. CASE JobsKept
  BY <1>1 DEF JobsKept, OneJobPerRequest, SameRequest
<1>2. CASE JobInserted
  <2>1. PICK u \in Requester, op \in Op, k \in Key :
          /\ ~Known(u, op, k) /\ created < MaxJobs /\ created' = created + 1
          /\ jobs' = [jobs EXCEPT ![created + 1] =
                        [NoRow EXCEPT !.status = "queued", !.op = op, !.who = u, !.key = k]]
    BY <1>2 DEF JobInserted
  <2>2. created + 1 \in Job /\ created \in Nat
    BY <2>1 DEF TypeOK
  <2>3. /\ jobs'[created + 1].op = op /\ jobs'[created + 1].who = u
        /\ jobs'[created + 1].key = k
    BY <2>1, <2>2 DEF TypeOK, NoRow
  <2>4. \A j \in Existing : j \in Job /\ j # created + 1 /\ jobs'[j] = jobs[j]
    BY <2>1, <2>2 DEF TypeOK
  <2>5. Existing' = Existing \cup {created + 1}
    BY <2>1, <2>2
  <2>6. QED BY <2>1, <2>3, <2>4, <2>5 DEF OneJobPerRequest, SameRequest, Known
<1>3. CASE JobsChanged
  <2>1. ASSUME NEW j \in Existing
        PROVE  /\ jobs'[j].op = jobs[j].op /\ jobs'[j].who = jobs[j].who
               /\ jobs'[j].key = jobs[j].key
    <3>1. j \in Job
      BY DEF TypeOK
    <3>2. jobs'[j] = jobs[j] \/ RowStep(jobs[j], jobs'[j])
      BY <1>3, <3>1 DEF JobsChanged
    <3>3. QED BY <3>2, RowStepFacts
  <2>2. QED BY <1>3, <2>1 DEF JobsChanged, OneJobPerRequest, SameRequest
<1>4. QED BY <1>1, <1>2, <1>3, StepKinds

\* The idempotency key works for ever: a request never makes two jobs.
THEOREM RequestsAreIdempotent == Spec => []OneJobPerRequest
<1>1. Init => OneJobPerRequest
  BY DEF Init, OneJobPerRequest
<1>2. TypeOK /\ OneJobPerRequest /\ [Next]_vars => OneJobPerRequest'
  BY RequestStep
<1>3. QED BY <1>1, <1>2, TypeCorrect, PTL DEF Spec

\* No RPC changes a job that has ended.
THEOREM EndedJobsStayEnded == Spec => TerminalIsFinal
<1>1. ASSUME TypeOK, [Next]_vars, NEW j \in Job, jobs[j].status \in TerminalStatus
      PROVE  jobs'[j] = jobs[j]
  <2>1. ~IsActive(jobs[j]) /\ j \in Existing
    BY <1>1, StatusFacts DEF IsActive, TypeOK, Status
  <2>2. CASE JobsKept
    BY <2>2 DEF JobsKept
  <2>3. CASE JobInserted
    BY <1>1, <2>1, <2>3 DEF JobInserted, TypeOK
  <2>4. CASE JobsChanged
    BY <1>1, <2>1, <2>4, RowStepFacts DEF JobsChanged
  <2>5. QED BY <1>1, <2>2, <2>3, <2>4, StepKinds
<1>2. TypeOK /\ [Next]_vars =>
        [\A j \in Job : jobs[j].status \in TerminalStatus => jobs'[j] = jobs[j]]_vars
  BY <1>1
<1>3. QED BY <1>2, TypeCorrect, PTL DEF Spec, TerminalIsFinal

-----------------------------------------------------------------------------
(* The trail *)

\* What TrailMatchesJob says of a log, its audit rows and the status of its job.
Replays(trail, n, status) ==
  /\ Len(trail) > 0
  /\ trail[1].from = Null /\ trail[1].to = "queued"
  /\ \A i \in 2..Len(trail) : trail[i].from = trail[i - 1].to
  /\ trail[Len(trail)].to = status
  /\ n = Len(trail)

\* The strengthening: a job that does not exist yet has left no trace, which is
\* why the log of a new job starts with its request.
TrailInv ==
  \A j \in Job : IF j \in Existing THEN Replays(events[j], audited[j], jobs[j].status)
                                   ELSE events[j] = <<>> /\ audited[j] = 0

\* An event that starts where the log ended prolongs the replay.
LEMMA ReplayGoesOn ==
  ASSUME NEW trail \in Seq(Event), NEW n, NEW status, NEW e \in Event,
         Replays(trail, n, status), e.from = status
  PROVE  Replays(Append(trail, e), n + 1, e.to)
<1> DEFINE longer == Append(trail, e)
<1>1. Len(trail) \in Nat /\ Len(longer) = Len(trail) + 1 /\ longer[Len(longer)] = e
  OBVIOUS
<1>2. \A i \in 1..Len(trail) : longer[i] = trail[i]
  OBVIOUS
<1>3. longer[1].from = Null /\ longer[1].to = "queued"
  BY <1>1, <1>2 DEF Replays
<1>4. ASSUME NEW i \in 2..Len(longer) PROVE longer[i].from = longer[i - 1].to
  <2>1. CASE i = Len(longer)
    <3>1. i - 1 = Len(trail) /\ Len(trail) \in 1..Len(trail)
      BY <1>1, <2>1 DEF Replays
    <3>2. longer[i - 1] = trail[Len(trail)] /\ longer[i] = e
      BY <1>1, <1>2, <2>1, <3>1
    <3>3. QED BY <3>2 DEF Replays
  <2>2. CASE i # Len(longer)
    <3>1. i \in 2..Len(trail) /\ i \in 1..Len(trail) /\ i - 1 \in 1..Len(trail)
      BY <1>1, <2>2
    <3>2. QED BY <1>2, <3>1 DEF Replays
  <2>3. QED BY <2>1, <2>2
<1>5. QED BY <1>1, <1>3, <1>4 DEF Replays

\* A job that comes into being is queued.
LEMMA NewJobIsQueued ==
  ASSUME TypeOK, [Next]_vars, NEW j \in Job, j \notin Existing, j \in 1..created'
  PROVE  jobs[j].status = Null /\ jobs'[j].status = "queued"
<1>1. jobs[j].status = Null
  BY DEF TypeOK, Row
<1>2. JobInserted
  BY StepKinds DEF JobsKept, JobsChanged
<1>3. PICK u \in Requester, op \in Op, k \in Key :
        /\ created' = created + 1
        /\ jobs' = [jobs EXCEPT ![created + 1] =
                      [NoRow EXCEPT !.status = "queued", !.op = op, !.who = u, !.key = k]]
  BY <1>2 DEF JobInserted
<1>4. j = created + 1
  BY <1>3 DEF TypeOK
<1>5. QED BY <1>1, <1>3, <1>4 DEF TypeOK, NoRow

LEMMA TrailStep ==
  ASSUME TypeOK, TrailInv, [Next]_vars
  PROVE  TrailInv'
<1>1. ASSUME NEW j \in Job
      PROVE  IF j \in 1..created' THEN Replays(events'[j], audited'[j], jobs'[j].status)
                                  ELSE events'[j] = <<>> /\ audited'[j] = 0
  <2>1. CASE LogKept(j)
    <3>1. j \in 1..created' <=> j \in Existing
      BY <2>1, JobsType DEF LogKept, TypeOK
    <3>2. QED BY <2>1, <3>1 DEF LogKept, TrailInv
  <2>2. ASSUME NEW a \in Actor, Logged(j, a), j \in 1..created'
        PROVE  Replays(events'[j], audited'[j], jobs'[j].status)
    <3> DEFINE e == [from |-> jobs[j].status, to |-> jobs'[j].status, by |-> a]
    <3>1. e \in Event /\ e.from = jobs[j].status /\ e.to = jobs'[j].status
      BY <2>2, JobsType DEF TypeOK, Row, Event
    <3>2. events'[j] = Append(events[j], e) /\ audited'[j] = audited[j] + 1
      BY <2>2 DEF Logged
    <3>3. CASE j \in Existing
      <4>1. Replays(events[j], audited[j], jobs[j].status) /\ events[j] \in Seq(Event)
        BY <3>3 DEF TrailInv, TypeOK
      <4> HIDE DEF e
      <4>2. Replays(Append(events[j], e), audited[j] + 1, e.to)
        BY <3>1, <4>1, ReplayGoesOn
      <4>3. QED BY <3>1, <3>2, <4>2
    <3>4. CASE j \notin Existing
      <4>1. jobs[j].status = Null /\ jobs'[j].status = "queued"
        BY <2>2, <3>4, NewJobIsQueued
      <4>2. events[j] = <<>> /\ audited[j] = 0 /\ events[j] \in Seq(Event)
        BY <3>4 DEF TrailInv, TypeOK
      <4> HIDE DEF e
      <4>3. Len(events'[j]) = 1 /\ events'[j][1] = e /\ audited'[j] = 1
        BY <3>1, <3>2, <4>2
      <4>4. QED BY <3>1, <4>1, <4>3 DEF Replays
    <3>5. QED BY <3>3, <3>4
  <2>3. QED BY <2>1, <2>2, StepLogs DEF LogStep
<1>2. QED BY <1>1 DEF TrailInv

\* The event log is an exact account of the job: whatever RPCs ran, replaying a
\* job's events gives its status, and each event has its audit row.
THEOREM TrailIsExact == Spec => []TrailMatchesJob
<1>1. Init => TrailInv
  BY DEF Init, TrailInv
<1>2. TypeOK /\ TrailInv /\ [Next]_vars => TrailInv'
  BY TrailStep
<1>3. TypeOK /\ TrailInv => TrailMatchesJob
  BY DEF TypeOK, TrailInv, TrailMatchesJob, Replays
<1>4. QED BY <1>1, <1>2, <1>3, TypeCorrect, PTL DEF Spec

-----------------------------------------------------------------------------
(* Who ends a lease *)

\* A step takes job j out of a lease that is alive, and leaves its event.
Alive(j) == Held(j) /\ jobs[j].expires > now
EndedBy(j, a) == Len(events'[j]) > 0 /\ events'[j][Len(events'[j])].by = a

LEMMA TransitionByOwner ==
  ASSUME TypeOK, NEW i \in Job, NEW to, NEW by \in ActorType, NEW o, NEW s,
         Transition(i, to, by, o, s),
         NEW j \in Job, Alive(j), jobs'[j].status # jobs[j].status
  PROVE  EndedBy(j, jobs[j].owner)
<1>1. i = j
  BY DEF Transition, TypeOK
<1>2. jobs[j].status \in HeldStatus /\ ~Lapsed(jobs[j], now)
  <2>1. now \in Nat /\ jobs[j].expires \in Nat
    BY DEF TypeOK, Row
  <2>2. QED BY <2>1 DEF Alive, Held, IsHeld, Lapsed
<1>3. by = "agent" /\ jobs[j].owner = o
  <2>1. MayTransition(jobs[j], to, by, o, now)
    BY <1>1 DEF Transition
  <2>2. QED BY <1>2, <2>1 DEF MayTransition, AllowedTransitions, HeldStatus, IsHeld
<1>4. PICK e : e.by = o /\ events'[j] = Append(events[j], e)
  BY <1>1, <1>3 DEF Transition, Record
<1>5. QED BY <1>3, <1>4 DEF EndedBy, TypeOK

\* The reaper, alone or within a claim, and a renewal leave a live lease alone.
LEMMA OthersKeepLiveLease ==
  ASSUME TypeOK, NEW j \in Job, Alive(j),
         \/ Reap
         \/ \E o \in Owner : Claim(o)
         \/ \E i \in Job, o \in Owner, s \in 1..Lease : Renew(i, o, s)
  PROVE  jobs'[j].status = jobs[j].status
<1>1. j \notin StaleJobs
  <2>1. now \in Nat /\ jobs[j].expires \in Nat
    BY DEF TypeOK, Row
  <2>2. QED BY <2>1 DEF Alive, StaleJobs, Stale, Lapsed
<1>2. Reaped \in [Job -> Row] /\ Reaped[j] = jobs[j]
  BY <1>1, ReapedRows DEF Reaped
<1>3. CASE Reap
  BY <1>2, <1>3 DEF Reap
<1>4. ASSUME NEW o \in Owner, Claim(o) PROVE jobs'[j].status = jobs[j].status
  <2>1. CASE Claimable(o) = {}
    BY <1>3, <1>4, <2>1 DEF Claim
  <2>2. CASE Claimable(o) # {}
    <3>1. PICK i \in Claimable(o) : jobs' = [Reaped EXCEPT ![i] = Claimed(i, o)]
      BY <1>4, <2>2 DEF Claim
    <3>2. CASE i # j
      BY <1>2, <3>1, <3>2
    <3>3. CASE i = j
      <4>1. Claimed(j, o) = AfterRenew(jobs[j], now + Lease)
        BY DEF Claimed, Alive
      <4>2. AfterRenew(jobs[j], now + Lease).status = jobs[j].status
        BY DEF AfterRenew, TypeOK, Row
      <4>3. QED BY <1>2, <3>1, <3>3, <4>1, <4>2
    <3>4. QED BY <3>2, <3>3
  <2>3. QED BY <2>1, <2>2
<1>5. ASSUME NEW i \in Job, NEW o \in Owner, NEW s \in 1..Lease, Renew(i, o, s)
      PROVE  jobs'[j].status = jobs[j].status
  BY <1>5 DEF Renew, AfterRenew, TypeOK, Row
<1>6. QED BY <1>3, <1>4, <1>5

LEMMA LiveLeaseStep ==
  ASSUME TypeOK, [Next]_vars, NEW j \in Job, Alive(j), jobs'[j].status # jobs[j].status
  PROVE  EndedBy(j, jobs[j].owner)
<1>1. ASSUME NEW i \in Job, NEW to, NEW by \in ActorType, NEW o, NEW s, Transition(i, to, by, o, s)
      PROVE  EndedBy(j, jobs[j].owner)
  BY <1>1, TransitionByOwner
<1>2. ASSUME NEW i \in Job, NEW o, NEW to, NEW s,
             \/ AgentTransition(i, to, o, s) \/ McMainTransition(i, to, o)
             \/ SystemTransition(i, to) \/ Cancel(i, o)
      PROVE  EndedBy(j, jobs[j].owner)
  BY <1>1, <1>2 DEF AgentTransition, McMainTransition, SystemTransition, Cancel, ActorType
<1>3. ASSUME NEW op \in Op, NEW k \in Key, NEW confirmed \in BOOLEAN, NEW u,
             EnqueueDiscord(u, op, k, confirmed) \/ EnqueueConsole(u, op, k, confirmed)
      PROVE  FALSE
  <2>1. CASE Refuse
    BY <2>1 DEF Refuse
  <2>2. CASE Insert(u, op, k)
    <3>1. j \in Existing
      BY StatusFacts DEF Alive, Held, IsHeld, TypeOK
    <3>2. QED BY <2>2, <3>1 DEF Insert, TypeOK
  <2>3. QED BY <1>3, <2>1, <2>2 DEF EnqueueDiscord, EnqueueConsole
<1>4. ~(UNCHANGED vars \/ ToggleHost \/ Tick)
  BY DEF vars, ToggleHost, Tick
<1>5. QED BY <1>2, <1>3, <1>4, OthersKeepLiveLease DEF Next

\* An agent within its lease is never overruled: not by the reaper, not by a user,
\* not by another agent, whatever the length of the lease and the number of jobs.
THEOREM LiveLeaseIsRespected == Spec => LiveLeaseEndsByOwner
<1>1. TypeOK /\ [Next]_vars =>
        [\A j \in Job :
           Held(j) /\ jobs[j].expires > now /\ jobs'[j].status # jobs[j].status
             => events'[j][Len(events'[j])].by = jobs[j].owner]_vars
  BY LiveLeaseStep DEF Alive, EndedBy
<1>2. QED BY <1>1, TypeCorrect, PTL DEF Spec, LiveLeaseEndsByOwner

-----------------------------------------------------------------------------
(* Who worked on a job *)

\* The event of job j is signed by a: an agent that touches a held job is its
\* owner, and the one that leases a queued job becomes its owner.
Fits(j, a) ==
  /\ Held(j) /\ a \in Owner => jobs[j].owner = a
  /\ jobs[j].status = "queued" /\ jobs'[j].status = "leased" => jobs'[j].owner = a
SignedStep == \A j \in Job : LogKept(j) \/ \E a \in Actor : Logged(j, a) /\ Fits(j, a)

LEMMA RecordSigned ==
  ASSUME NEW S \in SUBSET Job, NEW a \in Actor, Record(S, jobs', a),
         \A j \in S : Fits(j, a),
         \A j \in Job \ S : jobs'[j].status = jobs[j].status
  PROVE  SignedStep
BY DEF Record, Logged, LogKept, SignedStep

LEMMA TransitionSigned ==
  ASSUME TypeOK, NEW j \in Job, NEW to, NEW by \in ActorType, NEW o \in Owner \cup {Null}, NEW s,
         by = "agent" => o \in Owner,
         Transition(j, to, by, o, s)
  PROVE  SignedStep
<1> DEFINE a == IF by = "agent" THEN o ELSE by
           r == AfterTransition(jobs[j], to, o, now + s)
<1>1. /\ Record({j}, jobs', a) /\ MayTransition(jobs[j], to, by, o, now)
      /\ jobs' = [jobs EXCEPT ![j] = r] /\ jobs[j] \in Row
  BY DEF Transition, TypeOK
<1>2. a \in Actor /\ (a \in Owner => by = "agent" /\ a = o)
  BY DEF Actor, ActorType
<1>3. to = "leased" => by = "agent"
  BY <1>1 DEF MayTransition, AllowedTransitions
<1>4. r.status = to /\ (to = "leased" => r.owner = o)
  BY <1>1 DEF AfterTransition, Row
<1>5. by = "agent" /\ IsHeld(jobs[j]) => jobs[j].owner = o
  BY <1>1 DEF MayTransition
<1> HIDE DEF r
<1>6. jobs'[j] = r /\ \A i \in Job \ {j} : jobs'[i].status = jobs[i].status
  BY <1>1 DEF TypeOK
<1>7. Fits(j, a)
  BY <1>2, <1>3, <1>4, <1>5, <1>6 DEF Fits, Held
<1> HIDE DEF a
<1>8. {j} \in SUBSET Job /\ \A i \in {j} : Fits(i, a)
  BY <1>7 DEF Fits
<1>9. QED BY <1>1, <1>2, <1>6, <1>8, RecordSigned

LEMMA InsertSigned ==
  ASSUME TypeOK, NEW u, NEW op, NEW k, Insert(u, op, k)
  PROVE  SignedStep
<1>1. created + 1 \in Job /\ Record({created + 1}, jobs', "console_user")
  BY DEF Insert, TypeOK
<1>2. \A i \in Job \ {created + 1} : jobs'[i].status = jobs[i].status
  BY DEF Insert, TypeOK
<1>3. jobs[created + 1].status = Null
  BY <1>1 DEF TypeOK, Row
<1>4. Fits(created + 1, "console_user") /\ "console_user" \in Actor
  BY <1>3 DEF Fits, Actor, Null
<1>5. QED BY <1>1, <1>2, <1>4, RecordSigned DEF Fits

LEMMA RenewSigned ==
  ASSUME TypeOK, NEW j \in Job, NEW o \in Owner, NEW s, Renew(j, o, s)
  PROVE  SignedStep
<1>1. \A i \in Job \ {j} : jobs'[i].status = jobs[i].status
  BY DEF Renew, TypeOK
<1>2. Fits(j, o)
  BY DEF Renew, MayRenew, Fits, IsHeld, HeldStatus
<1>3. {j} \in SUBSET Job /\ \A i \in {j} : Fits(i, o)
  BY <1>2 DEF Fits
<1>4. Record({j}, jobs', o) /\ o \in Actor
  BY DEF Renew, Actor
<1>5. QED BY <1>1, <1>3, <1>4, RecordSigned

LEMMA ReapSigned ==
  ASSUME TypeOK, Reap
  PROVE  SignedStep
<1>1. StaleJobs \in SUBSET Job /\ "system" \in Actor
  BY DEF StaleJobs, TypeOK, Actor
<1>2. \A i \in Job \ StaleJobs : jobs'[i].status = jobs[i].status
  BY DEF Reap, Reaped
<1>3. \A i \in StaleJobs : Fits(i, "system")
  BY DEF StaleJobs, Stale, IsHeld, HeldStatus, Fits
<1>4. QED BY <1>1, <1>2, <1>3, RecordSigned DEF Reap, Fits

LEMMA ClaimSigned ==
  ASSUME TypeOK, NEW o \in Owner, Claim(o)
  PROVE  SignedStep
<1>1. CASE Claimable(o) = {}
  BY <1>1, ReapSigned DEF Claim
<1>2. CASE Claimable(o) # {}
  <2>1. PICK j \in Claimable(o) : /\ jobs' = [Reaped EXCEPT ![j] = Claimed(j, o)]
                                  /\ RecordClaim(j, o)
    BY <1>2 DEF Claim
  <2>2. j \in Job /\ (j \in Mine(o) \/ jobs[j].status = "queued")
    BY <2>1 DEF Claimable, Oldest, Mine, Waiting, TypeOK
  <2>3. jobs'[j] = Claimed(j, o) /\ jobs[j] \in Row
    BY <2>1, <2>2 DEF Reaped, TypeOK
  <2>4. Fits(j, o)
    <3>1. CASE j \in Mine(o)
      BY <3>1 DEF Mine, Fits, Held, IsHeld, HeldStatus
    <3>2. CASE jobs[j].status = "queued"
      <4>1. jobs'[j] = AfterTransition(jobs[j], "leased", o, now + Lease) /\ ~Held(j)
        BY <2>3, <3>2 DEF Claimed, Held, IsHeld, HeldStatus
      <4>2. jobs'[j].owner = o
        BY <2>3, <4>1 DEF AfterTransition, Row
      <4>3. QED BY <4>1, <4>2 DEF Fits
    <3>3. QED BY <2>2, <3>1, <3>2
  <2>5. ASSUME NEW i \in Job PROVE LogKept(i) \/ \E b \in Actor : Logged(i, b) /\ Fits(i, b)
    <3>1. CASE i = j
      BY <2>1, <2>4, <3>1 DEF RecordClaim, Logged, Actor
    <3>2. CASE i # j /\ i \in StaleJobs
      <4>1. jobs'[i] = AfterReap(jobs[i], now) /\ Stale(jobs[i], now) /\ jobs[i] \in Row
        BY <2>1, <3>2 DEF Reaped, StaleJobs, TypeOK
      <4>2. jobs'[i].status = "expired"
        BY <4>1 DEF AfterReap, AfterTransition, Row
      <4>3. Fits(i, "system")
        BY <4>1, <4>2 DEF Fits
      <4>4. QED BY <2>1, <3>2, <4>2, <4>3 DEF RecordClaim, Logged, Actor
    <3>3. CASE i # j /\ i \notin StaleJobs
      BY <2>1, <3>3 DEF RecordClaim, LogKept, Reaped
    <3>4. QED BY <3>1, <3>2, <3>3
  <2>6. QED BY <2>5 DEF SignedStep
<1>3. QED BY <1>1, <1>2

\* Every event is signed by the agent that was entitled to it.
LEMMA StepSigned ==
  ASSUME TypeOK, [Next]_vars
  PROVE  SignedStep
<1>1. CASE UNCHANGED vars \/ Refuse \/ ToggleHost \/ Tick
  BY <1>1 DEF vars, Refuse, ToggleHost, Tick, SignedStep, LogKept
<1>2. ASSUME NEW op \in Op, NEW k \in Key, NEW confirmed \in BOOLEAN, NEW u \in Requester,
             EnqueueDiscord(u, op, k, confirmed) \/ EnqueueConsole(u, op, k, confirmed)
      PROVE  SignedStep
  <2>1. Refuse \/ Insert(u, op, k)
    BY <1>2 DEF EnqueueDiscord, EnqueueConsole
  <2>2. QED BY <1>1, <2>1, InsertSigned
<1>3. ASSUME NEW j \in Job, NEW o \in Owner, NEW to, NEW s, AgentTransition(j, to, o, s)
      PROVE  SignedStep
  BY <1>3, TransitionSigned DEF AgentTransition, ActorType
<1>4. ASSUME NEW j \in Job, NEW o \in Owner, NEW to, McMainTransition(j, to, o)
      PROVE  SignedStep
  BY <1>3, <1>4 DEF McMainTransition
<1>5. ASSUME NEW j \in Job, NEW to, SystemTransition(j, to) PROVE SignedStep
  BY <1>5, TransitionSigned DEF SystemTransition, ActorType
<1>6. ASSUME NEW j \in Job, NEW u \in Console, Cancel(j, u) PROVE SignedStep
  BY <1>6, TransitionSigned DEF Cancel, ActorType
<1>7. QED
  BY <1>1, <1>2, <1>3, <1>4, <1>5, <1>6, ReapSigned, ClaimSigned, RenewSigned
     DEF Next, Requester

\* Since it was last leased, only o has worked on the job with this trail.
LeasedSince(trail, o) ==
  \E l \in 1..Len(trail) :
    /\ trail[l].from = "queued" /\ trail[l].to = "leased"
    /\ \A m \in l..Len(trail) : trail[m].by \in Owner => trail[m].by = o

WorkedTrail(trail) ==
  \A i \in 1..Len(trail) :
    trail[i].from \in HeldStatus /\ trail[i].by \in Owner =>
      \E l \in 1..(i - 1) :
        /\ trail[l].from = "queued" /\ trail[l].to = "leased"
        /\ \A m \in l..i : trail[m].by \in Owner => trail[m].by = trail[i].by

\* The strengthening: the row's lease owner is the one the trail speaks of.
WorkInv ==
  \A j \in Job : /\ WorkedTrail(events[j])
                 /\ Held(j) => LeasedSince(events[j], jobs[j].owner)

\* An event appended to a trail, by the lease holder or by nobody's agent.
LEMMA WorkGoesOn ==
  ASSUME NEW trail \in Seq(Event), NEW e \in Event, NEW o, WorkedTrail(trail),
         e.from \in HeldStatus => LeasedSince(trail, o) /\ (e.by \in Owner => e.by = o)
  PROVE  /\ WorkedTrail(Append(trail, e))
         /\ e.from \in HeldStatus => LeasedSince(Append(trail, e), o)
         /\ e.from = "queued" /\ e.to = "leased" => LeasedSince(Append(trail, e), e.by)
<1> DEFINE longer == Append(trail, e)
<1>1. Len(trail) \in Nat /\ Len(longer) = Len(trail) + 1 /\ longer[Len(longer)] = e
  OBVIOUS
<1>2. \A i \in 1..Len(trail) : longer[i] = trail[i]
  OBVIOUS
<1> HIDE DEF longer
<1>3. e.from = "queued" /\ e.to = "leased" => LeasedSince(longer, e.by)
  <2> SUFFICES ASSUME e.from = "queued", e.to = "leased" PROVE LeasedSince(longer, e.by)
    OBVIOUS
  <2>1. Len(longer) \in 1..Len(longer) /\ \A m \in Len(longer)..Len(longer) : longer[m] = e
    BY <1>1
  <2>2. QED BY <1>1, <2>1 DEF LeasedSince
<1>4. ASSUME e.from \in HeldStatus
      PROVE  \E l \in 1..Len(trail) :
               /\ longer[l].from = "queued" /\ longer[l].to = "leased"
               /\ \A m \in l..Len(longer) : longer[m].by \in Owner => longer[m].by = o
  <2>1. PICK l \in 1..Len(trail) :
          /\ trail[l].from = "queued" /\ trail[l].to = "leased"
          /\ \A m \in l..Len(trail) : trail[m].by \in Owner => trail[m].by = o
    BY <1>4 DEF LeasedSince
  <2>2. ASSUME NEW m \in l..Len(longer), longer[m].by \in Owner PROVE longer[m].by = o
    <3>1. CASE m = Len(longer)
      BY <1>1, <1>4, <2>2, <3>1
    <3>2. CASE m # Len(longer)
      <4>1. m \in l..Len(trail) /\ m \in 1..Len(trail)
        BY <1>1, <3>2
      <4>2. QED BY <1>2, <2>1, <2>2, <4>1
    <3>3. QED BY <3>1, <3>2
  <2>3. QED BY <1>2, <2>1, <2>2
<1>5. e.from \in HeldStatus => LeasedSince(longer, o)
  <2> SUFFICES ASSUME e.from \in HeldStatus PROVE LeasedSince(longer, o)
    OBVIOUS
  <2>1. 1..Len(trail) \subseteq 1..Len(longer)
    BY <1>1
  <2>2. QED BY <1>4, <2>1 DEF LeasedSince
<1>6. ASSUME NEW i \in 1..Len(longer), longer[i].from \in HeldStatus, longer[i].by \in Owner
      PROVE  \E l \in 1..(i - 1) :
               /\ longer[l].from = "queued" /\ longer[l].to = "leased"
               /\ \A m \in l..i : longer[m].by \in Owner => longer[m].by = longer[i].by
  <2>1. CASE i = Len(longer)
    <3>1. e.from \in HeldStatus /\ e.by = o /\ longer[i].by = o /\ i - 1 = Len(trail)
      BY <1>1, <1>6, <2>1
    <3>2. QED BY <1>4, <2>1, <3>1
  <2>2. CASE i # Len(longer)
    <3>1. i \in 1..Len(trail) /\ longer[i] = trail[i]
      BY <1>1, <1>2, <2>2
    <3>2. PICK l \in 1..(i - 1) :
            /\ trail[l].from = "queued" /\ trail[l].to = "leased"
            /\ \A m \in l..i : trail[m].by \in Owner => trail[m].by = trail[i].by
      BY <1>6, <3>1 DEF WorkedTrail
    <3>3. \A m \in l..i : longer[m] = trail[m]
      BY <1>1, <1>2, <3>1
    <3>4. l \in l..i
      BY <1>1, <3>1
    <3>5. QED BY <3>1, <3>2, <3>3, <3>4
  <2>3. QED BY <2>1, <2>2
<1>7. WorkedTrail(longer)
  BY <1>6 DEF WorkedTrail
<1>8. QED BY <1>3, <1>5, <1>7 DEF longer

\* A row becomes held by being leased, and stays with its owner while it is held.
LEMMA HeldRows ==
  ASSUME TypeOK, [Next]_vars, NEW j \in Job, IsHeld(jobs'[j])
  PROVE  \/ Held(j) /\ jobs'[j].owner = jobs[j].owner
         \/ jobs[j].status = "queued" /\ jobs'[j].status = "leased"
<1>1. CASE JobsKept
  BY <1>1 DEF JobsKept, Held
<1>2. CASE JobInserted
  <2>1. PICK u \in Requester, op \in Op, k \in Key :
          /\ created < MaxJobs /\ created' = created + 1
          /\ jobs' = [jobs EXCEPT ![created + 1] =
                        [NoRow EXCEPT !.status = "queued", !.op = op, !.who = u, !.key = k]]
    BY <1>2 DEF JobInserted
  <2>2. j # created + 1
    BY <2>1 DEF IsHeld, HeldStatus, NoRow, TypeOK
  <2>3. QED BY <2>1, <2>2 DEF Held, TypeOK
<1>3. CASE JobsChanged
  <2>1. jobs'[j] = jobs[j] \/ RowStep(jobs[j], jobs'[j])
    BY <1>3 DEF JobsChanged
  <2>2. QED BY <2>1 DEF RowStep, Held, IsHeld, HeldStatus, AllowedTransitions
<1>4. QED BY <1>1, <1>2, <1>3, StepKinds

LEMMA WorkStep ==
  ASSUME TypeOK, WorkInv, [Next]_vars
  PROVE  WorkInv'
<1>1. ASSUME NEW j \in Job
      PROVE  /\ WorkedTrail(events'[j])
             /\ IsHeld(jobs'[j]) => LeasedSince(events'[j], jobs'[j].owner)
  <2>1. CASE LogKept(j)
    <3>1. WorkedTrail(events[j]) /\ events'[j] = events[j] /\ jobs'[j].status = jobs[j].status
      BY <2>1 DEF WorkInv, LogKept
    <3>2. IsHeld(jobs'[j]) => Held(j) /\ jobs'[j].owner = jobs[j].owner
      BY <3>1, HeldRows DEF IsHeld, HeldStatus
    <3>3. QED BY <3>1, <3>2 DEF WorkInv
  <2>2. ASSUME NEW a \in Actor, Logged(j, a), Fits(j, a)
        PROVE  /\ WorkedTrail(events'[j])
               /\ IsHeld(jobs'[j]) => LeasedSince(events'[j], jobs'[j].owner)
    <3> DEFINE e == [from |-> jobs[j].status, to |-> jobs'[j].status, by |-> a]
    <3>1. /\ events'[j] = Append(events[j], e) /\ events[j] \in Seq(Event)
          /\ e.from = jobs[j].status /\ e.to = jobs'[j].status /\ e.by = a
      BY <2>2 DEF Logged, TypeOK
    <3>2. e \in Event
      <4>1. events'[j] \in Seq(Event)
        BY LogsType
      <4>2. Len(events'[j]) \in 1..Len(events'[j]) /\ events'[j][Len(events'[j])] = e
        BY <3>1
      <4>3. QED BY <4>1, <4>2
    <3> HIDE DEF e
    <3>3. e.from \in HeldStatus
            => LeasedSince(events[j], jobs[j].owner) /\ (e.by \in Owner => e.by = jobs[j].owner)
      BY <2>2, <3>1 DEF WorkInv, Held, IsHeld, Fits
    <3>4. WorkedTrail(events[j])
      BY DEF WorkInv
    <3>5. /\ WorkedTrail(events'[j])
          /\ e.from \in HeldStatus => LeasedSince(events'[j], jobs[j].owner)
          /\ e.from = "queued" /\ e.to = "leased" => LeasedSince(events'[j], a)
      BY <3>1, <3>2, <3>3, <3>4, WorkGoesOn
    <3>6. QED BY <2>2, <3>1, <3>5, HeldRows DEF Fits, Held, IsHeld
  <2>3. QED BY <2>1, <2>2, StepSigned DEF SignedStep
<1>2. QED BY <1>1 DEF WorkInv, Held

\* Only the agent that leased a job works on it: whatever agents claim, renew,
\* requeue and report, no event of a held job is signed by another agent.
THEOREM OnlyTheLeaseholderWorks == Spec => []WorkedByLeaseholder
<1>1. Init => WorkInv
  BY DEF Init, WorkInv, WorkedTrail, Held, IsHeld, HeldStatus, NoRow, Null
<1>2. TypeOK /\ WorkInv /\ [Next]_vars => WorkInv'
  BY WorkStep
<1>3. TypeOK /\ WorkInv => WorkedByLeaseholder
  BY DEF TypeOK, WorkInv, WorkedByLeaseholder, WorkedTrail
<1>4. QED BY <1>1, <1>2, <1>3, TypeCorrect, PTL DEF Spec

-----------------------------------------------------------------------------
(* The job table implements the lock *)

\* Who holds a scope: nobody, or its one active job.
HolderIs(s) ==
  \/ ActiveIn(s) = {} /\ Holder[s] = 0
  \/ Holder[s] \in Job /\ ActiveIn(s) = {Holder[s]}
HolderFits == /\ Holder = [s \in LockScope |-> Holder[s]]
              /\ \A s \in LockScope : HolderIs(s)

LEMMA HolderFacts == TypeOK /\ OneActivePerScope => HolderFits
<1> SUFFICES ASSUME TypeOK, OneActivePerScope PROVE HolderFits
  OBVIOUS
<1>1. ASSUME NEW s \in LockScope PROVE HolderIs(s)
  <2>1. Holder[s] = IF ActiveIn(s) = {} THEN 0 ELSE CHOOSE j \in ActiveIn(s) : TRUE
    BY <1>1 DEF Holder
  <2>2. CASE ActiveIn(s) = {}
    BY <2>1, <2>2 DEF HolderIs
  <2>3. CASE ActiveIn(s) # {}
    <3>1. Holder[s] \in ActiveIn(s)
      BY <2>1, <2>3
    <3>2. \A i, j \in ActiveIn(s) : i = j
      BY DEF ActiveIn, OneActivePerScope
    <3>3. Holder[s] \in Job
      BY <3>1 DEF ActiveIn, TypeOK
    <3>4. QED BY <3>1, <3>2, <3>3 DEF HolderIs
  <2>4. QED BY <2>2, <2>3
<1>2. QED BY <1>1 DEF HolderFits, Holder

LEMMA ScopeOfType == \A op : ScopeOf(op) \in LockScope
BY DEF ScopeOf, LockScope

\* An insertion is an acquisition of the scope by the new job.
LEMMA InsertAcquires ==
  ASSUME TypeOK, HolderFits, HolderFits', JobInserted
  PROVE  \E j \in Job, s \in LockScope : Lock!Acquire(j, s)
<1>1. PICK u \in Requester, op \in Op, k \in Key :
        /\ ~ScopeBusy(op) /\ created < MaxJobs /\ created' = created + 1
        /\ jobs' = [jobs EXCEPT ![created + 1] =
                      [NoRow EXCEPT !.status = "queued", !.op = op, !.who = u, !.key = k]]
  BY DEF JobInserted
<1> DEFINE n == created + 1
           s == ScopeOf(op)
<1>2. n \in Job /\ n \notin Existing /\ s \in LockScope /\ created \in Nat /\ n # 0
  BY <1>1, ScopeOfType DEF TypeOK
<1>3. jobs'[n].status = "queued" /\ jobs'[n].op = op
  BY <1>1, <1>2 DEF TypeOK, NoRow
<1>4. Existing' = Existing \cup {n} /\ \A j \in Existing : jobs'[j] = jobs[j]
  BY <1>1, <1>2 DEF TypeOK
<1>5. ActiveIn(s) = {}
  BY <1>1 DEF ActiveIn, ScopeBusy
<1>6. ActiveIn(s)' = {n}
  BY <1>3, <1>4, <1>5 DEF ActiveIn, Active, Scope, IsActive, ActiveStatus
<1>7. \A t \in LockScope \ {s} : ActiveIn(t)' = ActiveIn(t)
  BY <1>3, <1>4 DEF ActiveIn, Active, Scope, IsActive
<1>8. Finished' = Finished
  BY <1>3, <1>4 DEF Finished, TerminalStatus
<1>9. n \notin Finished
  BY <1>2 DEF Finished
<1> HIDE DEF n, s
<1>10. Holder[s] = 0 /\ Holder'[s] = n
  BY <1>2, <1>5, <1>6 DEF HolderFits, HolderIs
<1>11. ASSUME NEW t \in LockScope \ {s} PROVE Holder'[t] = Holder[t]
  BY <1>7, <1>11 DEF HolderFits, HolderIs
<1>12. \A t \in LockScope : Holder[t] # n
  <2>1. \A t \in LockScope : ActiveIn(t) \subseteq Existing
    BY DEF ActiveIn
  <2>2. QED BY <1>2, <2>1 DEF HolderFits, HolderIs
<1>13. Holder' = [Holder EXCEPT ![s] = n]
  BY <1>2, <1>10, <1>11 DEF HolderFits
<1>14. QED BY <1>2, <1>8, <1>9, <1>10, <1>12, <1>13 DEF Lock!Acquire

\* Changes of rows release the scopes of the jobs they end, and no others.
LEMMA ChangeReleases ==
  ASSUME TypeOK, TypeOK', HolderFits, HolderFits', JobsChanged
  PROVE  \E S \in SUBSET LockScope : Lock!Release(S)
<1> DEFINE S == {s \in LockScope : Holder[s] # 0 /\ Holder'[s] = 0}
<1>1. ASSUME NEW j \in Existing
      PROVE  /\ Active(j)' => Active(j) /\ Scope(j)' = Scope(j)
             /\ jobs[j].status \in TerminalStatus => jobs'[j].status \in TerminalStatus
             /\ Active(j) \/ jobs[j].status \in TerminalStatus
             /\ Active(j)' \/ jobs'[j].status \in TerminalStatus
  <2>1. j \in Job /\ Existing' = Existing
    BY DEF TypeOK, JobsChanged
  <2>2. /\ jobs[j].status \in ActiveStatus \cup TerminalStatus
        /\ jobs'[j].status \in ActiveStatus \cup TerminalStatus
    BY <2>1 DEF TypeOK, Status
  <2>3. jobs'[j] = jobs[j] \/ RowStep(jobs[j], jobs'[j])
    BY <2>1 DEF JobsChanged
  <2>4. Active(j)' => Active(j) /\ Scope(j)' = Scope(j)
    BY <2>3, RowStepFacts DEF Active, Scope
  <2>5. jobs[j].status \in TerminalStatus => jobs'[j].status \in TerminalStatus
    BY <2>3, RowStepFacts, StatusFacts DEF IsActive
  <2>6. QED BY <2>2, <2>4, <2>5 DEF Active, IsActive
<1>2. Existing' = Existing
  BY DEF JobsChanged
<1>3. \A s \in LockScope : ActiveIn(s)' \subseteq ActiveIn(s)
  BY <1>1, <1>2 DEF ActiveIn
<1>4. ASSUME NEW s \in LockScope PROVE Holder'[s] = IF s \in S THEN 0 ELSE Holder[s]
  BY <1>3, <1>4 DEF HolderFits, HolderIs
<1>5. Finished' = Finished \cup {Holder[s] : s \in S}
  <2>1. ASSUME NEW j \in Finished' PROVE j \in Finished \/ \E s \in S : j = Holder[s]
    <3>1. j \in Existing /\ jobs'[j].status \in TerminalStatus /\ j # 0
      BY <1>2 DEF Finished, TypeOK
    <3>2. CASE jobs[j].status \in TerminalStatus
      BY <3>1, <3>2 DEF Finished
    <3>3. CASE Active(j)
      <4>1. PICK s \in LockScope : s = Scope(j)
        BY ScopeOfType DEF Scope
      <4>2. j \in ActiveIn(s) /\ j \notin ActiveIn(s)'
        BY <3>1, <3>3, <4>1, StatusFacts DEF ActiveIn, Active, IsActive
      <4>3. Holder[s] = j /\ Holder'[s] # j
        BY <4>2 DEF HolderFits, HolderIs
      <4>4. QED BY <1>4, <3>1, <4>3
    <3>4. QED BY <1>1, <3>1, <3>2, <3>3
  <2>2. Finished \subseteq Finished'
    BY <1>1, <1>2 DEF Finished
  <2>3. ASSUME NEW s \in S PROVE Holder[s] \in Finished'
    <3>1. Holder[s] \in ActiveIn(s) /\ ActiveIn(s)' = {}
      BY <2>3 DEF HolderFits, HolderIs
    <3>2. PICK j \in Existing : j = Holder[s] /\ Active(j) /\ Scope(j) = s
      BY <3>1 DEF ActiveIn
    <3>3. ~(Active(j)' /\ Scope(j)' = s)
      BY <1>2, <3>1, <3>2 DEF ActiveIn
    <3>4. jobs'[j].status \in TerminalStatus
      BY <1>1, <3>2, <3>3
    <3>5. QED BY <1>2, <3>2, <3>4 DEF Finished
  <2>4. QED BY <2>1, <2>2, <2>3
<1>6. S \in SUBSET LockScope /\ \A s \in S : Holder[s] # 0
  OBVIOUS
<1> HIDE DEF S
<1>7. Holder' = [s \in LockScope |-> IF s \in S THEN 0 ELSE Holder[s]]
  BY <1>4 DEF HolderFits
<1>8. QED BY <1>5, <1>6, <1>7 DEF Lock!Release

LEMMA ImplementsStep ==
  ASSUME TypeOK, TypeOK', HolderFits, HolderFits', [Next]_vars
  PROVE  [Lock!Next]_(Lock!vars)
<1>1. CASE JobsKept
  BY <1>1 DEF JobsKept, Holder, Finished, ActiveIn, Active, Scope, Lock!vars
<1>2. CASE JobInserted
  BY <1>2, InsertAcquires DEF Lock!Next
<1>3. CASE JobsChanged
  BY <1>3, ChangeReleases DEF Lock!Next
<1>4. QED BY <1>1, <1>2, <1>3, StepKinds

\* The job table refines the abstract lock: seen through the active jobs, every
\* RPC acquires one free scope for a new job, releases the scopes of jobs that end
\* for ever, or changes nothing.
THEOREM TableImplementsLock == Spec => ImplementsScopeLock
<1>1. Init => Lock!Init
  BY DEF Init, Lock!Init, Holder, Finished, ActiveIn
<1>2. TypeOK /\ TypeOK' /\ HolderFits /\ HolderFits' /\ [Next]_vars => [Lock!Next]_(Lock!vars)
  BY ImplementsStep
<1>3. QED
  BY <1>1, <1>2, HolderFacts, TypeCorrect, LockIsExclusive, PTL
     DEF Spec, ImplementsScopeLock, Lock!Spec
=============================================================================
