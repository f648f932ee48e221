-------------------------- MODULE McMainLifecycle --------------------------
(***************************************************************************)
(* One mc-main lifecycle job from the queue to the container and back: the *)
(* operation worker (Go), the agent API and the job table behind it, the   *)
(* request and result files between worker and helper, the root helper     *)
(* (Python) and the container it drives.                                   *)
(*                                                                         *)
(* The worker talks to the API over a network that loses and delays: a     *)
(* call it gave up on may still be accepted later, and what the API        *)
(* accepted may be executed later again.  The worker bounds how long it    *)
(* waits, at every step.  Worker and helper may die at any step, and a     *)
(* reboot empties /run, where the files are.                               *)
(***************************************************************************)
EXTENDS JobTable, FiniteSets

CONSTANTS
  Op,             \* the lifecycle operations that are requested
  Lease,          \* lease length in ticks (300 s)
  Skew,           \* oldest timestamp the API accepts, in ticks (300 s)
  CallTimeout,    \* longest wait for an answer of the API (10 s)
  ResultTimeout,  \* longest wait for a result file (at most 240 s)
  Pause,          \* longest the worker takes for a step on its own files
  RequestMaxAge,  \* oldest request file the helper accepts, in ticks (30 s)
  MaxJobs,        \* bound: jobs ever created
  MaxNow,         \* bound: the clock
  MaxFaults       \* bound: calls given up, processes killed, reboots of the host

Job == 1..MaxJobs
Worker == "worker"      \* the lease owner of the only worker
Absent == 0 - 1         \* no such file

ASSUME LifecycleAssumption ==
  /\ Op \subseteq LifecycleOps
  /\ Lease \in Nat /\ Skew \in Nat /\ RequestMaxAge \in Nat
  /\ CallTimeout \in Nat /\ ResultTimeout \in Nat /\ Pause \in Nat
  /\ 3 * CallTimeout + ResultTimeout + 2 * Pause < Lease
  /\ MaxJobs \in Nat /\ MaxNow \in Nat /\ MaxFaults \in Nat

VARIABLES
  now,        \* the clock
  created,    \* jobs inserted so far
  jobs,       \* operation_jobs: status, operation, lease
  worker,     \* where the worker is in runOnce, for which job, and until when
  call,       \* the API call it waits for
  reply,      \* the answer to it that the worker has not read yet
  late,       \* calls it gave up on that the API may still accept or execute
  requests,   \* request files: when each was written
  results,    \* result files
  helper,     \* where the helper is in process_request, and for which job
  container,  \* the state of mc-main
  faults,     \* calls given up, processes killed and reboots so far
  \* History, for the properties only.
  begun,      \* how often the helper began to execute each job
  killed,     \* how often it was killed while executing it
  reached     \* jobs during which mc-main was really in the state asked for

dbVars == <<created, jobs>>
netVars == <<call, reply, late>>
fileVars == <<requests, results>>
hostVars == <<helper, container, begun, killed, reached>>
vars == <<now, dbVars, worker, netVars, fileVars, hostVars, faults>>

NoRow == [status |-> Null, op |-> Null, owner |-> Null, expires |-> NoLease]
NoCall == [kind |-> Null]
NoReply == [says |-> Null, job |-> 0]
Idle == [pc |-> "idle", job |-> 0, until |-> 0]
Down == [pc |-> "down", job |-> 0, until |-> 0]
Free == [pc |-> "idle", job |-> 0]

Init ==
  /\ now = 0
  /\ created = 0
  /\ jobs = [j \in Job |-> NoRow]
  /\ worker = Idle
  /\ call = NoCall /\ reply = NoReply /\ late = {}
  /\ requests = [j \in Job |-> Absent]
  /\ results = [j \in Job |-> Null]
  /\ helper = Free
  /\ container \in {"stopped", "healthy"}
  /\ faults = 0
  /\ begun = [j \in Job |-> 0]
  /\ killed = [j \in Job |-> 0]
  /\ reached = {}

-----------------------------------------------------------------------------
(* The job table *)

\* enqueue_discord_operation_job when it creates a job: all three operations
\* share the exclusive scope.
Enqueue(op) ==
  /\ created < MaxJobs
  /\ \A j \in Job : ~IsActive(jobs[j])
  /\ created' = created + 1
  /\ jobs' = [jobs EXCEPT ![created + 1] =
                [NoRow EXCEPT !.status = "queued", !.op = op]]
  /\ UNCHANGED <<now, worker, netVars, fileVars, hostVars, faults>>

Oldest(S) == {j \in S : \A k \in S : j <= k}
Mine == {j \in Job : MayRenew(jobs[j], Worker, now)}
Waiting == {j \in Job : jobs[j].status = "queued"}
Claimable == IF Mine # {} THEN Oldest(Mine) ELSE Oldest(Waiting)

\* What claim_mc_main_operation_job makes of a row: lapsed leases are reaped,
\* the row it hands out is renewed or leased.
AfterClaim(j) ==
  IF j \notin Claimable THEN AfterReap(jobs[j], now)
  ELSE IF IsHeld(jobs[j]) THEN AfterRenew(jobs[j], now + Lease)
  ELSE AfterTransition(jobs[j], "leased", Worker, now + Lease)

\* transition_mc_main_operation_job, for what the worker sends: the status the
\* worker expects is compared before transition_operation_job runs.
Accepts(c) ==
  /\ jobs[c.job].status = c.from
  /\ MayTransition(jobs[c.job], c.to, "agent", Worker, now)

-----------------------------------------------------------------------------
(* The API: the timestamp check, then, an await later, the RPC *)

\* authenticateOperationAgentWithSecrets: the clock skew of a signed call.
Fresh(c) == now - c.sentAt <= Skew

\* The calls under way that the worker still waits for, and all of them.
Awaited == IF call = NoCall THEN {} ELSE {call}
UnderWay == Awaited \cup late

\* The API is done with call c; nobody reads the answer to a late one.
Answers(c, says, j) ==
  IF c \in Awaited
  THEN call' = NoCall /\ reply' = [says |-> says, job |-> j] /\ UNCHANGED late
  ELSE late' = late \ {c} /\ UNCHANGED <<call, reply>>

\* The call is authenticated and its nonce recorded; its timestamp is not
\* looked at again.
ApiAccepts(c) ==
  /\ c.stage = "sent"
  /\ LET d == [c EXCEPT !.stage = "accepted", !.sentAt = 0] IN
     IF ~Fresh(c) THEN Answers(c, "no", 0)
     ELSE IF c \in Awaited THEN call' = d /\ UNCHANGED <<reply, late>>
     ELSE late' = (late \ {c}) \cup {d} /\ UNCHANGED <<call, reply>>
  /\ UNCHANGED <<now, dbVars, worker, fileVars, hostVars, faults>>

ApiClaims(c) ==
  /\ c.stage = "accepted" /\ c.kind = "claim"
  /\ jobs' = [j \in Job |-> AfterClaim(j)]
  /\ \/ Claimable = {} /\ Answers(c, "no", 0)
     \/ \E j \in Claimable : Answers(c, AfterClaim(j).status, j)
  /\ UNCHANGED <<now, created, worker, fileVars, hostVars, faults>>

ApiTransitions(c) ==
  /\ c.stage = "accepted" /\ c.kind = "transition"
  /\ IF Accepts(c)
     THEN /\ jobs' = [jobs EXCEPT ![c.job] = AfterTransition(@, c.to, Worker, NoLease)]
          /\ Answers(c, "yes", 0)
     ELSE Answers(c, "no", 0) /\ UNCHANGED jobs
  /\ UNCHANGED <<now, created, worker, fileVars, hostVars, faults>>

Api(c) == ApiAccepts(c) \/ ApiClaims(c) \/ ApiTransitions(c)

-----------------------------------------------------------------------------
(* The worker: runOnce *)

At(pc) == worker.pc = pc
Calling == {"claiming", "starting", "finishing"}

\* The mutation: loadConfig lets a result be awaited as long as the lease.
PatienceOfLease(pc) ==
  CASE pc \in Calling -> CallTimeout
    [] pc = "waiting" -> Lease
    [] OTHER -> Pause

\* How long the worker stays where it is: the timeout of operationHTTPClient,
\* resultTimeout, or the time its own file operations take.
Patience(pc) ==
  CASE pc \in Calling -> CallTimeout
    [] pc = "waiting" -> ResultTimeout
    [] OTHER -> Pause

Goto(pc, j) == worker' = [pc |-> pc, job |-> j, until |-> now + Patience(pc)]

\* nth tells calls apart that were sent at the same time.
Claim == [kind |-> "claim", sentAt |-> now, nth |-> faults, stage |-> "sent"]

Transition(j, from, to) ==
  [kind |-> "transition", job |-> j, from |-> from, to |-> to,
   sentAt |-> now, nth |-> faults, stage |-> "sent"]

\* terminalTransition
Report(j, to) ==
  /\ Goto("finishing", j)
  /\ call' = Transition(j, "running", to)
  /\ UNCHANGED <<reply, late>>

SendClaim ==
  /\ At("idle")
  /\ Goto("claiming", 0)
  /\ call' = Claim
  /\ UNCHANGED <<now, dbVars, reply, late, fileVars, hostVars, faults>>

Answered(pc) == At(pc) /\ reply # NoReply /\ reply' = NoReply

\* The answer to a claim: nothing, a leased job to start, a running one to
\* resume.
ClaimAnswered ==
  /\ Answered("claiming")
  /\ CASE reply.says = "leased" -> /\ Goto("starting", reply.job)
                                  /\ call' = Transition(reply.job, "leased", "running")
       [] reply.says = "running" -> Goto("probing", reply.job) /\ UNCHANGED call
       [] OTHER -> worker' = Idle /\ UNCHANGED call
  /\ UNCHANGED <<now, dbVars, late, fileVars, hostVars, faults>>

StartAnswered ==
  /\ Answered("starting")
  /\ IF reply.says = "yes" THEN Goto("publishing", worker.job) ELSE worker' = Idle
  /\ UNCHANGED <<now, dbVars, call, late, fileVars, hostVars, faults>>

\* executeThroughIPC of a job the worker has just started.
Publish ==
  /\ At("publishing")
  /\ LET j == worker.job IN
     \/ /\ requests[j] = Absent /\ results[j] = Null
        /\ requests' = [requests EXCEPT ![j] = now]
        /\ Goto("waiting", j)
        /\ UNCHANGED netVars
     \/ \* residue, or the file could not be written
        /\ Report(j, "failed")
        /\ UNCHANGED requests
  /\ UNCHANGED <<now, dbVars, results, hostVars, faults>>

\* The mutation: a resumed job is published again when its request is gone.
ProbeFirstRepublishing ==
  /\ At("probing")
  /\ Goto("waiting", worker.job)
  /\ requests' = [requests EXCEPT ![worker.job] = IF @ = Absent THEN now ELSE @]
  /\ UNCHANGED <<now, dbVars, netVars, results, hostVars, faults>>

\* executeThroughIPC of a resumed job looks for the request file, then for
\* the result file.
Evidence(look, j) ==
  IF look = 1 THEN requests[j] # Absent ELSE results[j] # Null

ProbeFirst ==
  /\ At("probing")
  /\ Goto(IF Evidence(1, worker.job) THEN "waiting" ELSE "probing_again", worker.job)
  /\ UNCHANGED <<now, dbVars, netVars, fileVars, hostVars, faults>>

ProbeSecond ==
  /\ At("probing_again")
  /\ IF Evidence(2, worker.job)
     THEN Goto("waiting", worker.job) /\ UNCHANGED netVars
     ELSE Report(worker.job, "failed")
  /\ UNCHANGED <<now, dbVars, fileVars, hostVars, faults>>

\* The mutation: a result is a success whatever it says.
ReadResultAsSuccess ==
  /\ At("waiting")
  /\ results[worker.job] # Null
  /\ Report(worker.job, "succeeded")
  /\ UNCHANGED <<now, dbVars, fileVars, hostVars, faults>>

ReadResult ==
  /\ At("waiting")
  /\ results[worker.job] # Null
  /\ IF results[worker.job] = "ok" THEN Report(worker.job, "succeeded")
                                   ELSE Report(worker.job, "failed")
  /\ UNCHANGED <<now, dbVars, fileVars, hostVars, faults>>

\* The mutation: no timeout once the request is gone.
DeadlineOfRequest ==
  /\ At("waiting")
  /\ requests[worker.job] # Absent
  /\ requests' = [requests EXCEPT ![worker.job] = Absent]
  /\ Report(worker.job, "failed")
  /\ UNCHANGED <<now, dbVars, results, hostVars, faults>>

\* The result timeout removes the request before it reports.
Deadline ==
  /\ At("waiting")
  /\ requests' = [requests EXCEPT ![worker.job] = Absent]
  /\ Report(worker.job, "failed")
  /\ UNCHANGED <<now, dbVars, results, hostVars, faults>>

\* The request file is removed only when the terminal transition was accepted.
FinishAnswered ==
  /\ Answered("finishing")
  /\ requests' = IF reply.says = "yes" THEN [requests EXCEPT ![worker.job] = Absent]
                                       ELSE requests
  /\ worker' = Idle
  /\ UNCHANGED <<now, dbVars, call, late, results, hostVars, faults>>

-----------------------------------------------------------------------------
(* The network, crashes and time *)

\* The worker stops waiting, and goes where w says: the call, if the API has
\* not answered it, stays under way.
LetsGo(w) ==
  /\ worker' = w
  /\ call' = NoCall /\ reply' = NoReply
  /\ late' = late \cup Awaited

\* The HTTP timeout, an error of the API, or an answer that is lost.
GiveUp ==
  /\ worker.pc \in Calling
  /\ faults < MaxFaults
  /\ faults' = faults + 1
  /\ LetsGo(Idle)
  /\ UNCHANGED <<now, dbVars, fileVars, hostVars>>

LoseLate ==
  /\ \E c \in late : late' = late \ {c}
  /\ UNCHANGED <<now, dbVars, worker, call, reply, fileVars, hostVars, faults>>

\* A crash, or SIGTERM while a result is awaited: the job stays as it is.
WorkerStops ==
  /\ worker.pc \notin {"idle", "down"}
  /\ faults < MaxFaults
  /\ faults' = faults + 1
  /\ LetsGo(Down)
  /\ UNCHANGED <<now, dbVars, fileVars, hostVars>>

WorkerRestarts ==
  /\ At("down")
  /\ worker' = Idle
  /\ UNCHANGED <<now, dbVars, netVars, fileVars, hostVars, faults>>

\* Time does not pass the instant until which the worker stays where it is.
Tick ==
  /\ now < MaxNow
  /\ worker.pc \in {"idle", "down"} \/ now < worker.until
  /\ now' = now + 1
  /\ UNCHANGED <<dbVars, worker, netVars, fileVars, hostVars, faults>>

-----------------------------------------------------------------------------
(* The helper: process_request, one docker command per step *)

HelperAt(pc) == helper.pc = pc
HelperGoto(pc, j) == helper' = [pc |-> pc, job |-> j]
Executing == {"stopping", "stop_wait", "starting", "start_wait"}

\* inspect_state reports the container, or not_found when docker inspect fails.
Seen == {container, "not_found"}
SeenStopped == {"stopped", "not_found"}

\* write_result comes before the request is unlinked.
Outcome(ok) == HelperGoto(IF ok THEN "report_ok" ELSE "report_error", helper.job)

FirstStep(op) == IF op = "start_backend" THEN "starting" ELSE "stopping"
HelperFrame == UNCHANGED <<now, dbVars, worker, netVars, faults>>

HelperPicks(j) ==
  /\ HelperAt("idle")
  /\ requests[j] # Absent
  /\ IF now - requests[j] <= RequestMaxAge
     THEN /\ HelperGoto(FirstStep(jobs[j].op), j)
          /\ begun' = [begun EXCEPT ![j] = @ + 1]
          /\ UNCHANGED requests
     ELSE /\ requests' = [requests EXCEPT ![j] = Absent]
          /\ UNCHANGED <<helper, begun>>
  /\ HelperFrame /\ UNCHANGED <<results, container, killed, reached>>

\* graceful_stop is done: a stop reports, a restart goes on to start.
Stopped ==
  /\ IF jobs[helper.job].op = "stop_backend" THEN Outcome(TRUE)
                                             ELSE HelperGoto("starting", helper.job)
  /\ reached' = IF jobs[helper.job].op = "stop_backend" /\ container = "stopped"
                THEN reached \cup {helper.job} ELSE reached

\* graceful_stop: inspect, then docker kill --signal=TERM, which may fail.
HelperStops ==
  /\ HelperAt("stopping")
  /\ \E seen \in Seen :
       \/ seen \in SeenStopped /\ Stopped
       \/ /\ seen \notin SeenStopped
          /\ HelperGoto("stop_wait", helper.job) \/ Outcome(FALSE)
          /\ UNCHANGED reached
  /\ HelperFrame /\ UNCHANGED <<fileVars, container, begun, killed>>

\* wait_stopped, until it sees the container stopped or its 60 s are over.
HelperAwaitsStop ==
  /\ HelperAt("stop_wait")
  /\ \/ \E seen \in Seen : seen \in SeenStopped /\ Stopped
     \/ container # "stopped" /\ Outcome(FALSE) /\ UNCHANGED reached
  /\ HelperFrame /\ UNCHANGED <<fileVars, container, begun, killed>>

Healthy ==
  /\ Outcome(TRUE)
  /\ reached' = IF container = "healthy" THEN reached \cup {helper.job} ELSE reached

\* safe_start: inspect, then docker start, which may fail.
HelperStarts ==
  /\ HelperAt("starting")
  /\ \E seen \in Seen :
       \/ seen = "healthy" /\ Healthy /\ UNCHANGED container
       \/ seen = "unhealthy" /\ Outcome(FALSE) /\ UNCHANGED <<container, reached>>
       \/ /\ seen \in SeenStopped
          /\ \/ Outcome(FALSE) /\ UNCHANGED container
             \/ /\ HelperGoto("start_wait", helper.job)
                /\ container' = IF container = "stopped" THEN "unhealthy" ELSE container
          /\ UNCHANGED reached
  /\ HelperFrame /\ UNCHANGED <<fileVars, begun, killed>>

\* wait_healthy, until it sees healthy, or stopped, or its 120 s are over.
HelperAwaitsHealth ==
  /\ HelperAt("start_wait")
  /\ \/ container = "healthy" /\ Healthy
     \/ Outcome(FALSE) /\ UNCHANGED reached
  /\ HelperFrame /\ UNCHANGED <<fileVars, container, begun, killed>>

\* A docker command that does not return in time raises; the handler of
\* process_request reports executor_internal_error.
HelperRaises ==
  /\ helper.pc \in Executing
  /\ Outcome(FALSE)
  /\ HelperFrame /\ UNCHANGED <<fileVars, container, begun, killed, reached>>

HelperWritesResult ==
  /\ helper.pc \in {"report_ok", "report_error"}
  /\ results' = [results EXCEPT ![helper.job] =
                   IF helper.pc = "report_ok" THEN "ok" ELSE "error"]
  /\ HelperGoto("unlinking", helper.job)
  /\ HelperFrame /\ UNCHANGED <<requests, container, begun, killed, reached>>

HelperUnlinks ==
  /\ HelperAt("unlinking")
  /\ requests' = [requests EXCEPT ![helper.job] = Absent]
  /\ helper' = Free
  /\ HelperFrame /\ UNCHANGED <<results, container, begun, killed, reached>>

HelperKilled ==
  /\ ~HelperAt("idle")
  /\ faults < MaxFaults
  /\ faults' = faults + 1
  /\ killed' = [killed EXCEPT ![helper.job] = @ + 1]
  /\ helper' = Free
  /\ UNCHANGED <<now, dbVars, worker, netVars, fileVars, container, begun, reached>>

\* mc-main starts up, degrades and exits on its own or on SIGTERM.
ContainerMoves ==
  /\ \/ container = "unhealthy" /\ container' \in {"healthy", "stopped"}
     \/ container = "healthy" /\ container' \in {"unhealthy", "stopped"}
  /\ UNCHANGED <<now, dbVars, worker, netVars, fileVars, helper, begun, killed, reached, faults>>

\* /run does not survive; neither do the processes.
Reboot ==
  /\ faults < MaxFaults
  /\ faults' = faults + 1
  /\ requests' = [j \in Job |-> Absent]
  /\ results' = [j \in Job |-> Null]
  /\ helper' = Free
  /\ container' = "stopped"
  /\ LetsGo(Down)
  /\ UNCHANGED <<now, dbVars, begun, killed, reached>>
-----------------------------------------------------------------------------
WorkerStep ==
  \/ SendClaim \/ ClaimAnswered \/ StartAnswered \/ Publish
  \/ ProbeFirst \/ ProbeSecond \/ ReadResult \/ Deadline \/ FinishAnswered
  \/ WorkerRestarts

HelperStep ==
  \/ \E j \in Job : HelperPicks(j)
  \/ HelperStops \/ HelperAwaitsStop \/ HelperStarts \/ HelperAwaitsHealth
  \/ HelperRaises \/ HelperWritesResult \/ HelperUnlinks

Next ==
  \/ \E op \in Op : Enqueue(op)
  \/ WorkerStep
  \/ \E c \in UnderWay : Api(c)
  \/ GiveUp \/ LoseLate \/ WorkerStops
  \/ HelperStep \/ HelperKilled
  \/ ContainerMoves \/ Reboot
  \/ Tick

Spec == Init /\ [][Next]_vars

\* The worker's loop and the helper's timer keep running (systemd restarts the
\* worker), and a call the worker waits for is answered.
Fairness == /\ WF_vars(WorkerStep) /\ WF_vars(HelperStep)
            /\ WF_vars(\E c \in Awaited : Api(c))
FairSpec == Spec /\ Fairness

-----------------------------------------------------------------------------
(* Properties *)

\* A lifecycle action is executed at most once per job, however often the
\* worker crashes, restarts, loses answers or has its old calls served late;
\* only a helper that is itself killed in the middle may begin again.
ExecutedAtMostOnce == \A j \in Job : begun[j] <= 1 + killed[j]

\* A job that succeeded was executed, and for a start or a restart mc-main was
\* healthy when the helper said so: no lost, late or foreign answer can make a
\* job succeed.
SuccessIsEarned ==
  \A j \in Job : jobs[j].status = "succeeded" =>
    /\ begun[j] > 0
    /\ jobs[j].op # "stop_backend" => j \in reached

\* The lease never runs out under the worker: no job is expired while the
\* worker is past its claim of it, however late other claims of the worker are
\* accepted and executed.  The reaper runs in every claim; what protects the
\* job is that all the waits of runOnce together are shorter than the lease.
NotReapedWhileWorking ==
  [][\A j \in Job :
       worker.job = j /\ worker.pc \notin {"idle", "down"} /\ IsHeld(jobs[j])
         => jobs'[j].status # "expired"]_vars

\* Every job that is created comes to an end, once faults have ended.
EveryJobEnds ==
  \A j \in Job : jobs[j].status = "queued" ~> jobs[j].status \in TerminalStatus
=============================================================================
