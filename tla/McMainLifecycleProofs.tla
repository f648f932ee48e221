----------------------- MODULE McMainLifecycleProofs -----------------------
(***************************************************************************)
(* Proofs about the mc-main lifecycle, for any number of jobs and faults,  *)
(* any clock skew the API accepts, and any timeouts of the worker that     *)
(* together are shorter than the lease.                                    *)
(*                                                                         *)
(* A job leaves Before, the statuses in which nothing was done for it yet, *)
(* once; whatever exists of it elsewhere (request, result, call) dates     *)
(* from then on.                                                           *)
(***************************************************************************)
EXTENDS McMainLifecycle, TLAPS

USE LifecycleAssumption DEF LifecycleAssumption, Job

-----------------------------------------------------------------------------
(* The invariant *)

RowType == [status : Status \cup {Null}, op : LifecycleOps \cup {Null},
            owner : {Worker, Null}, expires : Nat]

Stage == {"sent", "accepted"}
ClaimCall == [kind : {"claim"}, sentAt : Nat, nth : Nat, stage : Stage]
TransitionCall ==
  [kind : {"transition"}, job : Job, from : {"leased", "running"},
   to : {"running", "succeeded", "failed"}, sentAt : Nat, nth : Nat, stage : Stage]
Call == ClaimCall \cup TransitionCall
Reply == [says : {Null, "no", "yes", "leased", "running"}, job : Job \cup {0}]

InHand == {"starting", "publishing", "probing", "probing_again", "waiting", "finishing"}
Busy(j) == helper.pc # "idle" /\ helper.job = j

TableTypes ==
  /\ now \in Nat /\ created \in 0..MaxJobs
  /\ jobs \in [Job -> RowType]
  /\ \A j \in Job : j > created => jobs[j].status = Null

WorkerTypes ==
  /\ worker \in [pc : InHand \cup {"idle", "claiming", "down"}, job : Job \cup {0}, until : Nat]
  /\ worker.pc \in InHand => worker.job \in Job
  /\ worker.pc \notin InHand => worker.job = 0
  /\ call \in Call \cup {NoCall} /\ reply \in Reply /\ late \subseteq Call
  /\ call # NoCall => worker.pc \in Calling /\ reply = NoReply
  /\ reply # NoReply => worker.pc \in Calling
  /\ At("claiming") /\ call # NoCall => call \in ClaimCall
  /\ worker.pc \in {"starting", "finishing"} /\ call # NoCall =>
       call \in TransitionCall /\ call.job = worker.job
  /\ At("starting") /\ call # NoCall => call.from = "leased" /\ call.to = "running"
  /\ IF reply.says \in {"leased", "running"} THEN At("claiming") /\ reply.job \in Job
                                            ELSE reply.job = 0

HostTypes ==
  /\ requests \in [Job -> Int] /\ results \in [Job -> {Null, "ok", "error"}]
  /\ helper \in [pc : Executing \cup {"idle", "report_ok", "report_error", "unlinking"}, job : Job \cup {0}]
  /\ ~HelperAt("idle") => helper.job \in Job
  /\ begun \in [Job -> Nat] /\ killed \in [Job -> Nat]

TypesInv == TableTypes /\ WorkerTypes /\ HostTypes

\* The worker was told, or is about to be told, that its job is now running.
Starts == At("publishing") \/ (At("starting") /\ reply.says = "yes")

\* Nothing was done yet for a job that was not started, nor for one about to be published.
Before == {Null, "queued", "leased"}
Untouched(j) == begun[j] = 0 /\ requests[j] = Absent /\ results[j] = Null /\ ~Busy(j)

ExecInv ==
  /\ \A j \in Job : jobs[j].status \in Before => Untouched(j)
  /\ Starts => Untouched(worker.job) /\ jobs[worker.job].status \notin Before
  /\ \A j \in Job : requests[j] # Absent /\ ~Busy(j) => begun[j] <= killed[j]
  /\ ExecutedAtMostOnce

\* Whatever says that a job succeeded, the job has earned it.
Earned(j) == begun[j] > 0 /\ (jobs[j].op # "stop_backend" => j \in reached)

EarnInv ==
  /\ ~HelperAt("idle") => begun[helper.job] > 0
  /\ HelperAt("report_ok") => Earned(helper.job)
  /\ \A j \in Job : results[j] = "ok" => Earned(j)
  /\ \A c \in late \cup {call} : c \in TransitionCall /\ c.to = "succeeded" => Earned(c.job)
  /\ SuccessIsEarned

\* The job the worker works for, or was just handed.
Hand == IF At("claiming") THEN reply.job ELSE worker.job

\* The longest the rest of runOnce takes, once the worker is done where it is.
Rest(pc) ==
  CASE pc = "claiming" -> 2 * CallTimeout + ResultTimeout + 2 * Pause
    [] pc \in {"starting", "probing"} -> Pause + ResultTimeout + CallTimeout
    [] pc \in {"publishing", "probing_again"} -> ResultTimeout + CallTimeout
    [] pc = "waiting" -> CallTimeout
    [] OTHER -> 0

\* The lease of the job in hand outlives all that the worker may still wait for.
LeaseInv ==
  /\ \A j \in Job : jobs[j].expires <= now + Lease
  /\ worker.pc \notin {"idle", "down"} => now <= worker.until
  /\ At("claiming") => worker.until <= now + CallTimeout
  /\ Hand \in Job =>
       /\ jobs[Hand].status \notin {Null, "queued"}
       /\ IsHeld(jobs[Hand]) => worker.until + Rest(worker.pc) < jobs[Hand].expires

Inv == TypesInv /\ ExecInv /\ EarnInv /\ LeaseInv
IInv == Inv /\ faults \in Nat

-----------------------------------------------------------------------------
(* The API *)

\* No call takes a job back to Before, or changes what it is about.
Advance(r, s) ==
  /\ s.op = r.op
  /\ s.status \in Before => r.status \in Before
  /\ s.status = Null <=> r.status = Null
  /\ s.status = "queued" => r.status = "queued"

LEMMA InitInv == Init => IInv
BY DEF Init, IInv, Inv, TypesInv, TableTypes, WorkerTypes, HostTypes, ExecInv, EarnInv, LeaseInv, Starts, Hand, NoRow,
       NoCall, NoReply, Reply, Idle, Free, Calling, Stage, RowType, Call, ClaimCall, TransitionCall, Before, Untouched, Busy, Earned, At, HelperAt, InHand, Executing, IsHeld, HeldStatus,
       Absent, NoLease, Null, ExecutedAtMostOnce, SuccessIsEarned

\* What the claim makes of each row.
LEMMA ClaimRow ==
  ASSUME TableTypes, NEW j \in Job
  PROVE  /\ AfterClaim(j) \in RowType /\ Advance(jobs[j], AfterClaim(j))
         /\ AfterClaim(j).status = "succeeded" => jobs[j].status = "succeeded"
         /\ j \in Claimable => /\ AfterClaim(j).status \in HeldStatus
                               /\ AfterClaim(j).expires = now + Lease
         /\ AfterClaim(j).status = "expired" => jobs[j].status = "expired" \/ Stale(jobs[j], now)
         /\ AfterClaim(j).expires \in {jobs[j].expires, now + Lease}
         /\ IsHeld(AfterClaim(j)) => IsHeld(jobs[j]) \/ jobs[j].status = "queued"
<1>1. jobs[j] \in RowType /\ now \in Nat /\ now + Lease \in Nat
  <2>1. jobs[j] \in RowType
    BY DEF TableTypes
  <2>2. now \in Nat
    BY DEF TableTypes
  <2>3. Lease \in Nat
    OBVIOUS
  <2>4. QED BY <2>1, <2>2, <2>3
<1>2. j \in Claimable => IsHeld(jobs[j]) \/ jobs[j].status = "queued"
  BY DEF Claimable, Mine, Waiting, Oldest, MayRenew
<1>3. CASE j \notin Claimable
  BY <1>1, <1>3 DEF AfterClaim, AfterReap, AfterTransition, Stale, IsHeld, HeldStatus, RowType, Advance,
                    Before, Status, ActiveStatus, TerminalStatus, Null
<1>4. CASE j \in Claimable /\ IsHeld(jobs[j])
  BY <1>1, <1>4 DEF AfterClaim, AfterRenew, IsHeld, HeldStatus, RowType, Advance, Status, ActiveStatus,
                    TerminalStatus, Null
<1>5. CASE j \in Claimable /\ jobs[j].status = "queued"
  BY <1>1, <1>5 DEF AfterClaim, AfterTransition, IsHeld, HeldStatus, RowType, Advance, Before, Status,
                    ActiveStatus, TerminalStatus, Null
<1>6. QED BY <1>2, <1>3, <1>4, <1>5

LEMMA ClaimTable ==
  ASSUME TableTypes, jobs' = [j \in Job |-> AfterClaim(j)]
  PROVE  /\ jobs' \in [Job -> RowType]
         /\ \A j \in Job : /\ Advance(jobs[j], jobs'[j])
                           /\ jobs'[j].status = "succeeded" => jobs[j].status = "succeeded"
BY ClaimRow

LEMMA TransitionTable ==
  ASSUME TableTypes, NEW c \in TransitionCall,
         IF Accepts(c) THEN jobs' = [jobs EXCEPT ![c.job] = AfterTransition(@, c.to, Worker, NoLease)]
                       ELSE jobs' = jobs
  PROVE  /\ jobs' \in [Job -> RowType]
         /\ \A j \in Job :
              /\ Advance(jobs[j], jobs'[j])
              /\ jobs'[j].status = "succeeded" => jobs[j].status = "succeeded" \/ (j = c.job /\ c.to = "succeeded")
              /\ jobs'[j].status = "expired" => jobs[j].status = "expired"
              /\ jobs'[j].expires = jobs[j].expires
              /\ IsHeld(jobs'[j]) => IsHeld(jobs[j])
         /\ Accepts(c) => jobs[c.job].status = c.from /\ jobs'[c.job].status = c.to
<1>1. c.job \in Job /\ c.to \in {"running", "succeeded", "failed"} /\ c.from \in {"leased", "running"}
  BY DEF TransitionCall
<1>2. CASE Accepts(c)
  <2> DEFINE r == AfterTransition(jobs[c.job], c.to, Worker, NoLease)
  <2>1. jobs' = [jobs EXCEPT ![c.job] = r]
    BY <1>2
  <2>2. jobs[c.job] \in RowType /\ jobs[c.job].status = c.from
    BY <1>1, <1>2 DEF TableTypes, Accepts
  <2>3. MayTransition(jobs[c.job], c.to, "agent", Worker, now)
    BY <1>2 DEF Accepts
  <2>4. /\ r \in RowType /\ r.status = c.to /\ r.op = jobs[c.job].op /\ r.expires = jobs[c.job].expires
        /\ jobs[c.job].status \in HeldStatus
    BY <1>1, <2>2 DEF AfterTransition, RowType, Status, ActiveStatus, TerminalStatus, HeldStatus
  <2> HIDE DEF r
  <2>5. Advance(jobs[c.job], r)
    BY <1>1, <2>2, <2>3, <2>4 DEF Advance, Before, Null, HeldStatus, MayTransition, AllowedTransitions
  <2>6. \A j \in Job : jobs'[j] = IF j = c.job THEN r ELSE jobs[j]
    BY <2>1 DEF TableTypes
  <2>7. QED BY <1>1, <1>2, <2>1, <2>2, <2>4, <2>5, <2>6 DEF TableTypes, Advance, IsHeld
<1>3. CASE ~Accepts(c)
  BY <1>3 DEF TableTypes, Advance
<1>4. QED BY <1>2, <1>3

-----------------------------------------------------------------------------
(* Steps away from the helper *)

\* What they may do to jobs, files and calls without disturbing ExecInv and EarnInv.
LEMMA ExecKept ==
  ASSUME Inv, UNCHANGED <<helper, begun, killed>>,
         \A j \in Job : jobs'[j].status \in Before => jobs[j].status \in Before,
         \A j \in Job : requests'[j] \in {requests[j], Absent} /\ results'[j] \in {results[j], Null},
         Starts' => \/ Starts /\ worker'.job = worker.job
                    \/ /\ Untouched(worker'.job) /\ worker'.job \in Job
                       /\ jobs'[worker'.job].status \notin Before
  PROVE  ExecInv'
<1>1. \A j \in Job : Untouched(j) => Untouched(j)'
  BY DEF Untouched, Busy
<1>2. Starts' => (Untouched(worker.job) /\ jobs[worker.job].status \notin Before)'
  <2>1. CASE Starts /\ worker'.job = worker.job
    <3>1. worker.job \in Job /\ Untouched(worker.job) /\ jobs[worker.job].status \notin Before
      BY <2>1 DEF Inv, TypesInv, WorkerTypes, ExecInv, Starts, At, InHand
    <3>2. QED BY <1>1, <2>1, <3>1 DEF Untouched, Busy
  <2>2. QED BY <1>1, <2>1 DEF Untouched, Busy
<1>3. QED BY <1>1, <1>2 DEF Inv, ExecInv, ExecutedAtMostOnce, Busy

LEMMA EarnKept ==
  ASSUME Inv, UNCHANGED <<helper, begun, reached>>,
         \A j \in Job : jobs'[j].op = jobs[j].op \/ begun[j] = 0,
         \A j \in Job : results'[j] \in {results[j], Null},
         \A c \in late' \cup {call'} : c \in TransitionCall /\ c.to = "succeeded" =>
           c \in late \cup {call} \/ Earned(c.job),
         \A j \in Job : jobs'[j].status = "succeeded" => jobs[j].status = "succeeded" \/ Earned(j)
  PROVE  EarnInv'
<1>1. \A j \in Job : Earned(j) => Earned(j)'
  <2>1. \A j \in Job : begun[j] \in Nat
    BY DEF Inv, TypesInv, HostTypes
  <2>2. QED BY <2>1 DEF Earned
<1>2. ~HelperAt("idle") => helper.job \in Job
  BY DEF Inv, TypesInv, HostTypes
<1>3. \A c \in TransitionCall : c.job \in Job
  BY DEF TransitionCall
<1>4. /\ (~HelperAt("idle"))' => begun'[helper'.job] > 0
      /\ HelperAt("report_ok")' => Earned(helper.job)'
  BY <1>1, <1>2 DEF Inv, EarnInv, HelperAt, Earned
<1>5. \A j \in Job : results'[j] = "ok" => Earned(j)'
  BY <1>1 DEF Inv, EarnInv, Null
<1>6. \A c \in late' \cup {call'} : c \in TransitionCall /\ c.to = "succeeded" => Earned(c.job)'
  BY <1>1, <1>3 DEF Inv, EarnInv
<1>7. SuccessIsEarned'
  BY <1>1 DEF Inv, EarnInv, SuccessIsEarned, Earned
<1>8. QED BY <1>4, <1>5, <1>6, <1>7 DEF EarnInv

\* The worker moves on without the API.
LEMMA WorkerMoves ==
  ASSUME Inv, UNCHANGED <<now, created, jobs, results, helper, begun, killed, reached>>,
         requests' \in [Job -> Int],
         \A j \in Job : requests'[j] \in {requests[j], Absent},
         WorkerTypes', LeaseInv',
         Starts' => Starts /\ worker'.job = worker.job,
         \A c \in late' \cup {call'} : c \in TransitionCall /\ c.to = "succeeded" =>
           c \in late \cup {call} \/ Earned(c.job)
  PROVE  Inv'
<1>1. TableTypes' /\ HostTypes'
  BY DEF Inv, TypesInv, TableTypes, HostTypes, HelperAt
<1>2. ExecInv'
  BY ExecKept
<1>3. EarnInv'
  BY EarnKept DEF Inv, EarnInv, SuccessIsEarned
<1>4. QED BY <1>1, <1>2, <1>3 DEF Inv, TypesInv

LEMMA RestTimes ==
  /\ Rest("claiming") = 2 * CallTimeout + ResultTimeout + 2 * Pause
  /\ Rest("starting") = Pause + ResultTimeout + CallTimeout
  /\ Rest("probing") = Pause + ResultTimeout + CallTimeout
  /\ Rest("publishing") = ResultTimeout + CallTimeout
  /\ Rest("probing_again") = ResultTimeout + CallTimeout
  /\ Rest("waiting") = CallTimeout
  /\ Rest("finishing") = 0 /\ Rest("idle") = 0 /\ Rest("down") = 0
BY DEF Rest

LEMMA PatienceTimes ==
  /\ Patience("claiming") = CallTimeout /\ Patience("starting") = CallTimeout
  /\ Patience("finishing") = CallTimeout /\ Patience("waiting") = ResultTimeout
  /\ Patience("publishing") = Pause /\ Patience("probing") = Pause /\ Patience("probing_again") = Pause
BY DEF Patience, Calling

LEMMA RestType == TypesInv => Rest(worker.pc) \in Nat
BY RestTimes DEF TypesInv, WorkerTypes, InHand

\* Where it goes next, it stays within what was left of its time.
LEMMA GotoStep ==
  ASSUME Inv, NEW p \in InHand, NEW j \in Job, Goto(p, j), j = Hand, worker.pc \notin {"idle", "down"},
         UNCHANGED <<now, jobs>>,
         \/ worker.pc = "claiming" /\ p \in {"starting", "probing"}
         \/ worker.pc = "starting" /\ p = "publishing"
         \/ worker.pc \in {"publishing", "probing", "probing_again"} /\ p = "waiting"
         \/ worker.pc = "probing" /\ p = "probing_again"
         \/ worker.pc \in {"publishing", "probing_again", "waiting"} /\ p = "finishing"
  PROVE  /\ worker' \in [pc : {p}, job : {j}, until : Nat]
         /\ LeaseInv'
<1>1. worker' = [pc |-> p, job |-> j, until |-> now + Patience(p)] /\ now \in Nat /\ Patience(p) \in Nat
  BY DEF Goto, Patience, Inv, TypesInv, TableTypes
<1>2. worker'.pc = p /\ worker'.job = j /\ worker'.until = now + Patience(p)
  BY <1>1
<1>3. now <= worker.until /\ worker.until \in Nat
  BY DEF Inv, LeaseInv, TypesInv, WorkerTypes
<1>4. worker'.until + Rest(p) <= worker.until + Rest(worker.pc)
  BY <1>1, <1>2, <1>3, RestTimes, PatienceTimes
<1>5. Hand' = j
  BY <1>2 DEF Hand, At, InHand
<1>6. jobs[j].expires \in Nat /\ Rest(p) \in Nat /\ Rest(worker.pc) \in Nat
  BY RestType, RestTimes DEF InHand, Inv, TypesInv, TableTypes, RowType
<1>7. IsHeld(jobs'[j]) => worker'.until + Rest(p) < jobs'[j].expires
  <2>1. IsHeld(jobs[j]) => worker.until + Rest(worker.pc) < jobs[j].expires
    BY DEF Inv, LeaseInv
  <2>2. worker'.until \in Nat
    BY <1>1, <1>2
  <2>3. QED BY <1>3, <1>4, <1>6, <2>1, <2>2
<1>8. jobs'[j].status \notin {Null, "queued"} /\ \A k \in Job : jobs'[k].expires <= now' + Lease
  BY DEF Inv, LeaseInv
<1>9. worker'.pc \notin {"idle", "down"} => now' <= worker'.until
  BY <1>1, <1>2
<1>10. ~At("claiming")'
  BY <1>2 DEF At, InHand
<1>11. QED BY <1>1, <1>2, <1>5, <1>7, <1>8, <1>9, <1>10 DEF LeaseInv

\* It reports the end of its job.
LEMMA ReportStep ==
  ASSUME Inv, faults \in Nat, worker.pc \in {"publishing", "probing_again", "waiting"},
         NEW to \in {"succeeded", "failed"},
         Report(worker.job, to), to = "succeeded" => Earned(worker.job),
         UNCHANGED <<now, created, jobs, results, helper, begun, killed, reached>>,
         requests' = requests \/ requests' = [requests EXCEPT ![worker.job] = Absent]
  PROVE  Inv'
<1> DEFINE c == Transition(worker.job, "running", to)
<1>1. worker.job \in Job /\ now \in Nat /\ Hand = worker.job /\ reply = NoReply
  BY DEF Inv, TypesInv, WorkerTypes, TableTypes, InHand, Hand, At, Calling
<1>2. c \in TransitionCall /\ c.job = worker.job /\ c.to = to
  BY <1>1 DEF Transition, TransitionCall, Stage
<1>3. call' = c /\ Goto("finishing", worker.job) /\ reply' = reply /\ late' = late
  BY DEF Report
<1> HIDE DEF c
<1>4. worker' \in [pc : {"finishing"}, job : {worker.job}, until : Nat] /\ LeaseInv'
  BY <1>1, <1>3, GotoStep DEF InHand
<1>5. WorkerTypes'
  BY <1>1, <1>2, <1>3, <1>4 DEF Inv, TypesInv, WorkerTypes, Call, At, InHand, Calling, Reply, NoReply, Null
<1>6. requests' \in [Job -> Int] /\ \A j \in Job : requests'[j] \in {requests[j], Absent}
  <2>1. requests \in [Job -> Int] /\ Absent \in Int
    BY DEF Inv, TypesInv, HostTypes, Absent
  <2>2. QED BY <1>1, <2>1
<1>7. ~Starts'
  BY <1>4 DEF Starts, At
<1>8. QED BY <1>2, <1>3, <1>4, <1>5, <1>6, <1>7, WorkerMoves

-----------------------------------------------------------------------------
(* Steps of the API *)

\* The answer goes to the worker, or to nobody.
LEMMA AnswersKept ==
  ASSUME Inv, NEW c \in UnderWay, NEW says \in {"no", "yes", "leased", "running"}, NEW j \in Job \cup {0},
         Answers(c, says, j), UNCHANGED worker,
         IF says \in {"leased", "running"} THEN j \in Job /\ (c = call => At("claiming")) ELSE j = 0
  PROVE  /\ WorkerTypes'
         /\ c \in Call /\ call' \in {call, NoCall} /\ late' \subseteq late
         /\ \/ reply' = reply
            \/ /\ c = call /\ call # NoCall /\ reply = NoReply
               /\ reply' = [says |-> says, job |-> j]
<1>1. c \in Call /\ (c \in Awaited => c = call /\ call # NoCall)
  BY DEF UnderWay, Awaited, Inv, TypesInv, WorkerTypes
<1>2. CASE c \in Awaited
  <2>1. call' = NoCall /\ reply' = [says |-> says, job |-> j] /\ late' = late
    BY <1>2 DEF Answers
  <2>2. reply' \in Reply /\ reply'.says = says /\ reply'.job = j /\ reply' # NoReply
    BY <2>1 DEF Reply, NoReply, Null
  <2>3. WorkerTypes'
    BY <1>1, <1>2, <2>1, <2>2 DEF Inv, TypesInv, WorkerTypes, At
  <2>4. QED BY <1>1, <1>2, <2>1, <2>3 DEF Inv, TypesInv, WorkerTypes
<1>3. CASE c \notin Awaited
  <2>1. late' = late \ {c} /\ UNCHANGED <<call, reply>>
    BY <1>3 DEF Answers
  <2>2. WorkerTypes'
    BY <2>1 DEF Inv, TypesInv, WorkerTypes, At
  <2>3. QED BY <1>1, <2>1, <2>2
<1>4. QED BY <1>2, <1>3

\* The RPC moves rows on, and the worker may learn of it.
LEMMA ApiStep ==
  ASSUME Inv, NEW c \in UnderWay, jobs' \in [Job -> RowType],
         \A j \in Job : /\ Advance(jobs[j], jobs'[j])
                        /\ jobs'[j].status = "succeeded" =>
                             jobs[j].status = "succeeded" \/ (c \in TransitionCall /\ j = c.job /\ c.to = "succeeded"),
         UNCHANGED <<now, created, worker, results, requests, helper, begun, killed, reached>>,
         WorkerTypes', LeaseInv', call' \in {call, NoCall}, late' \subseteq late,
         Starts' => Starts \/ ( /\ Untouched(worker.job) /\ worker.job \in Job
                               /\ jobs'[worker.job].status \notin Before )
  PROVE  Inv'
<1>1. c \in late \cup {call} /\ NoCall \notin TransitionCall
  BY DEF UnderWay, Awaited, NoCall, TransitionCall, Null
<1>2. TableTypes' /\ HostTypes'
  BY DEF Inv, TypesInv, TableTypes, HostTypes, HelperAt, Advance
<1>3. ExecInv'
  BY ExecKept DEF Advance, Inv, TypesInv, HostTypes
<1>4. \A j \in Job : jobs'[j].status = "succeeded" => jobs[j].status = "succeeded" \/ Earned(j)
  BY <1>1 DEF Inv, EarnInv
<1>5. EarnInv'
  BY <1>1, <1>4, EarnKept DEF Advance
<1>6. QED BY <1>2, <1>3, <1>5 DEF Inv, TypesInv

LEMMA ApiAcceptsStep ==
  ASSUME Inv, NEW c \in UnderWay, ApiAccepts(c)
  PROVE  Inv'
<1> DEFINE d == [c EXCEPT !.stage = "accepted", !.sentAt = 0]
<1>1. UNCHANGED <<now, created, jobs, worker, requests, results, helper, begun, killed, reached>>
  BY DEF ApiAccepts, dbVars, fileVars, hostVars
<1>2. c \in Call /\ (c \in Awaited => c = call /\ call # NoCall) /\ c \in late \cup {call}
  BY DEF UnderWay, Awaited, Inv, TypesInv, WorkerTypes
<1>3. CASE Answers(c, "no", 0)
  <2>1. WorkerTypes' /\ call' \in {call, NoCall} /\ late' \subseteq late /\ reply'.says \in {reply.says, "no"}
        /\ (reply'.job = reply.job \/ (reply = NoReply /\ reply'.job = 0))
    BY <1>1, <1>3, AnswersKept
  <2>2. Hand' = Hand
    BY <1>1, <2>1 DEF Hand, At, NoReply
  <2>3. LeaseInv'
    BY <1>1, <2>2 DEF Inv, LeaseInv, At
  <2>4. Starts' => Starts
    BY <1>1, <2>1 DEF Starts, At
  <2>5. NoCall \notin TransitionCall
    BY DEF NoCall, TransitionCall, Null
  <2>6. QED BY <1>1, <2>1, <2>3, <2>4, <2>5, WorkerMoves DEF Inv, TypesInv, HostTypes
<1>4. CASE \/ c \in Awaited /\ call' = d /\ UNCHANGED <<reply, late>>
           \/ c \notin Awaited /\ late' = (late \ {c}) \cup {d} /\ UNCHANGED <<call, reply>>
  <2>1. /\ c \in ClaimCall => d \in ClaimCall
        /\ c \in TransitionCall => d \in TransitionCall /\ d.job = c.job /\ d.to = c.to /\ d.from = c.from
    BY DEF ClaimCall, TransitionCall, Stage
  <2>2. d \in TransitionCall => c \in TransitionCall
    BY <1>2, <2>1 DEF Call, ClaimCall, TransitionCall
  <2>3. d \in Call
    BY <1>2, <2>1 DEF Call
  <2> HIDE DEF d
  <2>4. WorkerTypes'
    BY <1>1, <1>2, <1>4, <2>1, <2>3 DEF Inv, TypesInv, WorkerTypes, At
  <2>5. LeaseInv' /\ (Starts' => Starts)
    BY <1>1, <1>4 DEF Inv, LeaseInv, Hand, At, Starts
  <2>6. \A e \in late' \cup {call'} : e \in TransitionCall /\ e.to = "succeeded" =>
          e \in late \cup {call} \/ Earned(e.job)
    BY <1>2, <1>4, <2>1, <2>2 DEF Inv, EarnInv
  <2>7. QED BY <1>1, <2>4, <2>5, <2>6, WorkerMoves DEF Inv, TypesInv, HostTypes
<1>5. QED BY <1>3, <1>4 DEF ApiAccepts

\* The job in hand is not reaped, for its lease is alive; what it may be is renewed.
LEMMA ApiClaimsStep ==
  ASSUME Inv, NEW c \in UnderWay, ApiClaims(c)
  PROVE  Inv'
<1>1. /\ jobs' = [j \in Job |-> AfterClaim(j)] /\ c.kind = "claim"
      /\ UNCHANGED <<now, created, worker, requests, results, helper, begun, killed, reached>>
  BY DEF ApiClaims, fileVars, hostVars
<1>2. PICK says \in {"no", "leased", "running"}, k \in Job \cup {0} :
        /\ Answers(c, says, k)
        /\ IF says = "no" THEN k = 0 ELSE k \in Claimable /\ k \in Job
  <2>1. \A j \in Claimable : j \in Job /\ AfterClaim(j).status \in {"leased", "running"}
    BY ClaimRow DEF Claimable, Mine, Waiting, Oldest, HeldStatus, Inv, TypesInv
  <2>2. QED BY <2>1 DEF ApiClaims
<1>3. c = call /\ call # NoCall => At("claiming")
  BY <1>1 DEF Inv, TypesInv, WorkerTypes, Calling, TransitionCall, At
<1>4. c = call => call # NoCall
  BY <1>1 DEF NoCall, Null
<1>5. /\ WorkerTypes' /\ call' \in {call, NoCall} /\ late' \subseteq late
      /\ \/ reply' = reply
         \/ c = call /\ reply = NoReply /\ reply' = [says |-> says, job |-> k]
  BY <1>1, <1>2, <1>3, <1>4, AnswersKept
<1>6. Starts' => Starts
  BY <1>1, <1>5 DEF Starts, At
<1>7. jobs' \in [Job -> RowType] /\ \A j \in Job : jobs'[j] = AfterClaim(j)
  BY <1>1, ClaimTable DEF Inv, TypesInv
<1>8. now \in Nat /\ worker.until \in Nat /\ Rest(worker.pc) \in Nat /\ now + Lease \in Nat
  BY RestType DEF Inv, TypesInv, TableTypes, WorkerTypes
<1>9. \A j \in Job : jobs'[j].expires <= now' + Lease
  BY <1>1, <1>7, <1>8, ClaimRow DEF Inv, LeaseInv, TypesInv
<1>10. Hand' \in Job =>
         /\ jobs'[Hand'].status \notin {Null, "queued"}
         /\ IsHeld(jobs'[Hand']) => worker'.until + Rest(worker'.pc) < jobs'[Hand'].expires
  <2>1. CASE reply' = reply
    <3>1. SUFFICES ASSUME Hand \in Job
                   PROVE  /\ jobs'[Hand].status \notin {Null, "queued"}
                          /\ IsHeld(jobs'[Hand]) => worker.until + Rest(worker.pc) < jobs'[Hand].expires
      BY <1>1, <2>1 DEF Hand, At
    <3>2. /\ jobs[Hand].status \notin {Null, "queued"} /\ jobs[Hand].expires <= now + Lease
          /\ IsHeld(jobs[Hand]) => worker.until + Rest(worker.pc) < jobs[Hand].expires
      BY <3>1 DEF Inv, LeaseInv
    <3>3. /\ Advance(jobs[Hand], jobs'[Hand]) /\ jobs'[Hand].expires \in {jobs[Hand].expires, now + Lease}
          /\ IsHeld(jobs'[Hand]) => IsHeld(jobs[Hand])
      BY <1>7, <3>1, <3>2, ClaimRow DEF Inv, TypesInv
    <3>4. jobs[Hand].expires \in Nat
      BY <3>1 DEF Inv, TypesInv, TableTypes, RowType
    <3>5. QED BY <1>8, <3>2, <3>3, <3>4 DEF Advance
  <2>2. CASE c = call /\ reply' = [says |-> says, job |-> k] /\ k \in Claimable /\ k \in Job
    <3>1. At("claiming") /\ Hand' = k
      BY <1>1, <1>3, <1>4, <2>2 DEF Hand, At
    <3>2. jobs'[k].status \in HeldStatus /\ jobs'[k].expires = now + Lease
      BY <1>7, <2>2, ClaimRow DEF Inv, TypesInv
    <3>3. worker.until <= now + CallTimeout
      BY <3>1 DEF Inv, LeaseInv
    <3>4. Rest(worker.pc) = 2 * CallTimeout + ResultTimeout + 2 * Pause
      BY <3>1 DEF At, Rest
    <3>5. worker.until + Rest(worker.pc) < now + Lease
      BY <1>8, <3>3, <3>4
    <3>6. QED BY <1>1, <3>1, <3>2, <3>5 DEF HeldStatus, Null
  <2>3. CASE c = call /\ reply' = [says |-> says, job |-> k] /\ k = 0
    BY <1>1, <1>3, <1>4, <2>3 DEF Hand, At
  <2>4. QED BY <1>2, <1>5, <2>1, <2>2, <2>3
<1>11. LeaseInv'
  BY <1>1, <1>9, <1>10 DEF Inv, LeaseInv, At
<1>12. QED BY <1>1, <1>5, <1>6, <1>11, ClaimTable, ApiStep DEF Inv, TypesInv

LEMMA ApiTransitionsStep ==
  ASSUME Inv, NEW c \in UnderWay, ApiTransitions(c)
  PROVE  Inv'
<1>1. /\ c.kind = "transition"
      /\ UNCHANGED <<now, created, worker, requests, results, helper, begun, killed, reached>>
  BY DEF ApiTransitions, fileVars, hostVars
<1>2. c \in TransitionCall
  BY <1>1 DEF UnderWay, Awaited, Inv, TypesInv, WorkerTypes, Call, ClaimCall
<1>3. PICK says \in {"no", "yes"} : Answers(c, says, 0) /\ (says = "yes" => Accepts(c))
  BY DEF ApiTransitions
<1>4. /\ WorkerTypes' /\ call' \in {call, NoCall} /\ late' \subseteq late
      /\ \/ reply' = reply
         \/ c = call /\ call # NoCall /\ reply = NoReply /\ reply' = [says |-> says, job |-> 0]
  BY <1>1, <1>3, AnswersKept
<1>5. /\ jobs' \in [Job -> RowType]
      /\ \A j \in Job :
           /\ Advance(jobs[j], jobs'[j])
           /\ jobs'[j].status = "succeeded" => jobs[j].status = "succeeded" \/ (j = c.job /\ c.to = "succeeded")
           /\ jobs'[j].expires = jobs[j].expires
           /\ IsHeld(jobs'[j]) => IsHeld(jobs[j])
      /\ Accepts(c) => jobs[c.job].status = c.from /\ jobs'[c.job].status = c.to
  BY <1>2, TransitionTable DEF ApiTransitions, Inv, TypesInv
<1>6. Hand' = Hand
  BY <1>1, <1>4 DEF Hand, At, NoReply
<1>7. LeaseInv'
  BY <1>1, <1>5, <1>6 DEF Inv, LeaseInv, At, Advance
<1>8. Starts' => Starts \/ ( /\ Untouched(worker.job) /\ worker.job \in Job
                            /\ jobs'[worker.job].status \notin Before )
  <2>1. SUFFICES ASSUME Starts', ~Starts
                 PROVE  Untouched(worker.job) /\ worker.job \in Job /\ jobs'[worker.job].status \notin Before
    OBVIOUS
  <2>2. At("starting") /\ c = call /\ call # NoCall /\ says = "yes"
    BY <1>1, <1>4, <2>1 DEF Starts, At
  <2>3. worker.job \in Job /\ c.job = worker.job /\ c.from = "leased" /\ c.to = "running"
    BY <2>2 DEF Inv, TypesInv, WorkerTypes, At, InHand
  <2>4. jobs[worker.job].status = "leased" /\ jobs'[worker.job].status = "running"
    BY <1>3, <1>5, <2>2, <2>3
  <2>5. QED BY <2>3, <2>4 DEF Inv, ExecInv, Before, Null
<1>9. QED BY <1>1, <1>2, <1>4, <1>5, <1>7, <1>8, ApiStep

-----------------------------------------------------------------------------
(* The worker reads the answers *)

LEMMA ClaimAnsweredStep ==
  ASSUME Inv, faults \in Nat, ClaimAnswered
  PROVE  Inv'
<1>1. /\ At("claiming") /\ reply # NoReply /\ reply' = NoReply /\ call = NoCall /\ late' = late
      /\ UNCHANGED <<now, created, jobs, requests, results, helper, begun, killed, reached>>
  BY DEF ClaimAnswered, Answered, dbVars, fileVars, hostVars, Inv, TypesInv, WorkerTypes
<1>2. NoCall \notin TransitionCall /\ now \in Nat
  BY DEF NoCall, TransitionCall, Null, Inv, TypesInv, TableTypes
<1>3. CASE worker' = Idle /\ call' = call
  <2>1. WorkerTypes' /\ LeaseInv'
    BY <1>1, <1>3 DEF Inv, TypesInv, WorkerTypes, Idle, At, InHand, Reply, NoReply, Null, LeaseInv, Hand
  <2>2. ~Starts'
    BY <1>3 DEF Starts, Idle, At
  <2>3. QED BY <1>1, <1>2, <1>3, <2>1, <2>2, WorkerMoves DEF Inv, TypesInv, HostTypes
<1>4. ASSUME reply.says \in {"leased", "running"},
             \/ Goto("starting", reply.job) /\ call' = Transition(reply.job, "leased", "running")
             \/ Goto("probing", reply.job) /\ call' = call
      PROVE  Inv'
  <2> DEFINE j == reply.job
             t == Transition(j, "leased", "running")
  <2>1. j \in Job /\ Hand = j
    BY <1>1, <1>4 DEF Inv, TypesInv, WorkerTypes, Hand
  <2>2. t \in TransitionCall /\ t.job = j /\ t.from = "leased" /\ t.to = "running"
    BY <1>2, <2>1 DEF Transition, TransitionCall, Stage
  <2>3. LeaseInv' /\ \/ worker' \in [pc : {"starting"}, job : {j}, until : Nat] /\ call' = t
                     \/ worker' \in [pc : {"probing"}, job : {j}, until : Nat] /\ call' = NoCall
    <3>1. CASE Goto("starting", j) /\ call' = t
      BY <1>1, <2>1, <3>1, GotoStep DEF At, InHand
    <3>2. CASE Goto("probing", j) /\ call' = call
      BY <1>1, <2>1, <3>2, GotoStep DEF At, InHand
    <3>3. QED BY <1>4, <3>1, <3>2
  <2> HIDE DEF t, j
  <2>4. WorkerTypes'
    BY <1>1, <2>1, <2>2, <2>3 DEF Inv, TypesInv, WorkerTypes, At, InHand, Calling, Call, Reply, NoReply, Null
  <2>5. ~Starts'
    BY <1>1, <2>3 DEF Starts, At, NoReply, Null
  <2>6. \A e \in late' \cup {call'} : e \in TransitionCall /\ e.to = "succeeded" => e \in late \cup {call}
    BY <1>1, <1>2, <2>2, <2>3
  <2>7. QED BY <1>1, <2>3, <2>4, <2>5, <2>6, WorkerMoves DEF Inv, TypesInv, HostTypes
<1>5. QED BY <1>3, <1>4 DEF ClaimAnswered

LEMMA StartAnsweredStep ==
  ASSUME Inv, StartAnswered
  PROVE  Inv'
<1> DEFINE j == worker.job
<1>1. /\ At("starting") /\ reply # NoReply /\ reply' = NoReply /\ call = NoCall /\ call' = call /\ late' = late
      /\ UNCHANGED <<now, created, jobs, requests, results, helper, begun, killed, reached>>
      /\ j \in Job /\ Hand = j
  BY DEF StartAnswered, Answered, dbVars, fileVars, hostVars, Inv, TypesInv, WorkerTypes, At, InHand, Hand
<1>2. CASE worker' = Idle
  <2>1. WorkerTypes' /\ LeaseInv'
    BY <1>1, <1>2 DEF Inv, TypesInv, WorkerTypes, Idle, At, InHand, Reply, NoReply, Null, LeaseInv, Hand
  <2>2. ~Starts'
    BY <1>2 DEF Starts, Idle, At
  <2>3. QED BY <1>1, <2>1, <2>2, WorkerMoves DEF Inv, TypesInv, HostTypes
<1>3. CASE reply.says = "yes" /\ Goto("publishing", j)
  <2>1. worker' \in [pc : {"publishing"}, job : {j}, until : Nat] /\ LeaseInv'
    BY <1>1, <1>3, GotoStep DEF At, InHand
  <2>2. WorkerTypes'
    BY <1>1, <2>1 DEF Inv, TypesInv, WorkerTypes, At, InHand, Calling, Reply, NoReply, Null
  <2>3. Starts /\ worker'.job = j
    BY <1>1, <1>3, <2>1 DEF Starts
  <2>4. QED BY <1>1, <2>1, <2>2, <2>3, WorkerMoves DEF Inv, TypesInv, HostTypes
<1>4. QED BY <1>2, <1>3 DEF StartAnswered

LEMMA FinishAnsweredStep ==
  ASSUME Inv, FinishAnswered
  PROVE  Inv'
<1>1. /\ At("finishing") /\ reply # NoReply /\ reply' = NoReply /\ call = NoCall /\ call' = call /\ late' = late
      /\ worker' = Idle /\ worker.job \in Job
      /\ UNCHANGED <<now, created, jobs, results, helper, begun, killed, reached>>
      /\ requests' = requests \/ requests' = [requests EXCEPT ![worker.job] = Absent]
  BY DEF FinishAnswered, Answered, dbVars, hostVars, Inv, TypesInv, WorkerTypes, At, InHand
<1>2. requests' \in [Job -> Int] /\ \A j \in Job : requests'[j] \in {requests[j], Absent}
  <2>1. requests \in [Job -> Int] /\ Absent \in Int
    BY DEF Inv, TypesInv, HostTypes, Absent
  <2>2. QED BY <1>1, <2>1
<1>3. WorkerTypes' /\ LeaseInv'
  BY <1>1 DEF Inv, TypesInv, WorkerTypes, Idle, At, InHand, Reply, NoReply, Null, LeaseInv, Hand
<1>4. ~Starts'
  BY <1>1 DEF Starts, Idle, At
<1>5. QED BY <1>1, <1>2, <1>3, <1>4, WorkerMoves

-----------------------------------------------------------------------------
(* Steps of the helper *)

\* It gets on with the job: success is reported only where it was seen.
LEMMA HelperProgress ==
  ASSUME Inv, helper.pc \in Executing, NEW p \in Executing \cup {"report_ok", "report_error"},
         HelperGoto(p, helper.job), reached \subseteq reached',
         p = "report_ok" => jobs[helper.job].op = "stop_backend" \/ helper.job \in reached',
         UNCHANGED <<now, created, jobs, worker, call, reply, late, requests, results, begun, killed>>
  PROVE  Inv'
<1>1. /\ helper.pc # "idle" /\ p # "idle" /\ helper.job \in Job /\ helper' = [pc |-> p, job |-> helper.job]
      /\ helper \in [pc : Executing \cup {"idle", "report_ok", "report_error", "unlinking"}, job : Job \cup {0}]
  BY DEF Inv, TypesInv, HostTypes, HelperAt, Executing, HelperGoto
<1>2. TypesInv'
  BY <1>1 DEF Inv, TypesInv, TableTypes, WorkerTypes, HostTypes, HelperAt, At
<1>3. ExecInv'
  BY <1>1 DEF Inv, ExecInv, Starts, Untouched, Busy, ExecutedAtMostOnce, At
<1>4. EarnInv'
  <2>1. \A j \in Job : Earned(j) => Earned(j)'
    BY DEF Earned
  <2>2. begun[helper.job] > 0
    BY <1>1 DEF Inv, EarnInv, HelperAt
  <2>3. HelperAt("report_ok")' => Earned(helper.job)'
    BY <1>1, <2>2 DEF HelperAt, Earned
  <2>4. \A c \in TransitionCall : c.job \in Job
    BY DEF TransitionCall
  <2>5. \A c \in late' \cup {call'} : c \in TransitionCall /\ c.to = "succeeded" => Earned(c.job)'
    BY <2>1, <2>4 DEF Inv, EarnInv
  <2>6. QED BY <1>1, <2>1, <2>2, <2>3, <2>5 DEF Inv, EarnInv, HelperAt, SuccessIsEarned, Earned
<1>5. LeaseInv'
  BY DEF Inv, LeaseInv, Hand, At
<1>6. QED BY <1>2, <1>3, <1>4, <1>5 DEF Inv

LEMMA HelperPicksStep ==
  ASSUME Inv, NEW j \in Job, HelperPicks(j)
  PROVE  Inv'
<1>1. /\ HelperAt("idle") /\ requests[j] # Absent
      /\ UNCHANGED <<now, created, jobs, worker, call, reply, late, results, killed, reached>>
  BY DEF HelperPicks, HelperFrame, dbVars, netVars
<1>2. jobs[j].status \notin Before /\ begun[j] <= killed[j]
      /\ ~(Starts /\ worker.job = j)
  BY <1>1 DEF Inv, ExecInv, Starts, Untouched, Busy, HelperAt
<1>3. CASE /\ \E p \in {"starting", "stopping"} : helper' = [pc |-> p, job |-> j]
           /\ begun' = [begun EXCEPT ![j] = @ + 1] /\ requests' = requests
  <2>1. PICK p \in {"starting", "stopping"} : helper' = [pc |-> p, job |-> j]
    BY <1>3
  <2>2. /\ begun \in [Job -> Nat] /\ killed \in [Job -> Nat]
        /\ \A k \in Job : begun'[k] = IF k = j THEN begun[k] + 1 ELSE begun[k]
        /\ begun' \in [Job -> Nat]
    <3>1. begun \in [Job -> Nat] /\ killed \in [Job -> Nat]
      BY DEF Inv, TypesInv, HostTypes
    <3>2. QED BY <1>3, <3>1
  <2>3. TypesInv'
    BY <1>1, <1>3, <2>1, <2>2 DEF Inv, TypesInv, TableTypes, WorkerTypes, HostTypes, HelperAt, At, Executing
  <2>4. ExecInv'
    <3>1. \A k \in Job : Untouched(k) /\ k # j => Untouched(k)'
      BY <1>1, <1>3, <2>1, <2>2 DEF Starts, Untouched, Busy
    <3>2. ExecutedAtMostOnce'
      <4>1. \A k \in Job : begun[k] \in Nat /\ killed[k] \in Nat
        BY <2>2
      <4>2. \A k \in Job : begun[k] <= 1 + killed[k]
        BY DEF Inv, ExecInv, ExecutedAtMostOnce
      <4>3. \A k \in Job : begun'[k] <= 1 + killed[k]
        <5>1. SUFFICES ASSUME NEW k \in Job PROVE begun'[k] <= 1 + killed[k]
          OBVIOUS
        <5>2. begun'[k] = IF k = j THEN begun[k] + 1 ELSE begun[k]
          BY <2>2
        <5>3. begun[k] \in Nat /\ killed[k] \in Nat /\ begun[k] <= 1 + killed[k]
          BY <4>1, <4>2
        <5> HIDE DEF Job
        <5>4. CASE k = j
          BY <1>2, <5>2, <5>3, <5>4
        <5>5. CASE k # j
          BY <5>2, <5>3, <5>5
        <5>6. QED BY <5>4, <5>5
      <4>4. QED BY <1>1, <4>3 DEF ExecutedAtMostOnce
    <3>3. Starts' => (Untouched(worker.job) /\ jobs[worker.job].status \notin Before)'
      <4>1. Starts => worker.job \in Job
        BY DEF Inv, TypesInv, WorkerTypes, Starts, At, InHand
      <4>2. QED BY <1>1, <1>2, <3>1, <4>1 DEF Inv, ExecInv, At, Starts, Untouched, Busy
    <3>4. \A k \in Job : requests'[k] # Absent /\ ~Busy(k)' => begun'[k] <= killed'[k]
      BY <1>1, <1>3, <2>1, <2>2 DEF Inv, ExecInv, Busy, HelperAt
    <3>5. QED BY <1>1, <1>2, <3>1, <3>2, <3>3, <3>4 DEF Inv, ExecInv
  <2>5. EarnInv'
    <3>1. \A k \in Job : Earned(k) => Earned(k)'
      <4>1. \A k \in Job : begun[k] \in Nat
        BY <2>2
      <4>2. QED BY <1>1, <1>3, <2>2, <4>1 DEF Earned
    <3>2. \A c \in TransitionCall : c.job \in Job
      BY DEF TransitionCall
    <3>3. \A c \in late' \cup {call'} : c \in TransitionCall /\ c.to = "succeeded" => Earned(c.job)'
      BY <1>1, <3>1, <3>2 DEF Inv, EarnInv
    <3>4. QED BY <1>1, <2>1, <2>2, <3>1, <3>3 DEF Inv, EarnInv, HelperAt, SuccessIsEarned, Earned
  <2>6. QED BY <1>1, <2>3, <2>4, <2>5 DEF Inv, LeaseInv, Hand, At
<1>4. CASE requests' = [requests EXCEPT ![j] = Absent] /\ UNCHANGED <<helper, begun>>
  <2>1. requests' \in [Job -> Int] /\ \A k \in Job : requests'[k] \in {requests[k], Absent}
    <3>1. requests \in [Job -> Int] /\ Absent \in Int
      BY DEF Inv, TypesInv, HostTypes, Absent
    <3>2. QED BY <1>4, <3>1
  <2>2. WorkerTypes' /\ LeaseInv' /\ (Starts' => Starts)
    BY <1>1 DEF Inv, TypesInv, WorkerTypes, LeaseInv, Hand, Starts, At
  <2>3. QED BY <1>1, <1>4, <2>1, <2>2, WorkerMoves
<1>5. QED BY <1>3, <1>4 DEF HelperPicks, HelperGoto, FirstStep

LEMMA HelperWorks ==
  ASSUME Inv, HelperStops \/ HelperAwaitsStop \/ HelperStarts \/ HelperAwaitsHealth \/ HelperRaises
  PROVE  Inv'
<1>1. /\ helper.pc \in Executing
      /\ UNCHANGED <<now, created, jobs, worker, call, reply, late, requests, results, begun, killed>>
  BY DEF HelperStops, HelperAwaitsStop, HelperStarts, HelperAwaitsHealth, HelperRaises, HelperFrame, HelperAt,
         Executing, dbVars, netVars, fileVars
<1>2. CASE Outcome(FALSE) /\ UNCHANGED reached
  BY <1>1, <1>2, HelperProgress DEF Outcome
<1>3. CASE Stopped
  <2>1. reached \subseteq reached'
    BY <1>3 DEF Stopped
  <2>2. CASE jobs[helper.job].op = "stop_backend" /\ HelperGoto("report_ok", helper.job)
    BY <1>1, <2>1, <2>2, HelperProgress
  <2>3. CASE HelperGoto("starting", helper.job)
    BY <1>1, <2>1, <2>3, HelperProgress DEF Executing
  <2>4. QED BY <1>3, <2>2, <2>3 DEF Stopped, Outcome
<1>4. CASE Healthy /\ container = "healthy"
  <2>1. HelperGoto("report_ok", helper.job) /\ reached' = reached \cup {helper.job}
    BY <1>4 DEF Healthy, Outcome
  <2>2. QED BY <1>1, <2>1, HelperProgress
<1>5. CASE HelperGoto("stop_wait", helper.job) /\ UNCHANGED reached
  BY <1>1, <1>5, HelperProgress DEF Executing
<1>6. CASE HelperGoto("start_wait", helper.job) /\ UNCHANGED reached
  BY <1>1, <1>6, HelperProgress DEF Executing
<1>7. CASE HelperStops
  BY <1>2, <1>3, <1>5, <1>7 DEF HelperStops
<1>8. CASE HelperAwaitsStop
  BY <1>2, <1>3, <1>8 DEF HelperAwaitsStop
<1>9. CASE HelperStarts
  BY <1>2, <1>4, <1>6, <1>9 DEF HelperStarts, Seen
<1>10. CASE HelperAwaitsHealth
  BY <1>2, <1>4, <1>10 DEF HelperAwaitsHealth
<1>11. CASE HelperRaises
  BY <1>2, <1>11 DEF HelperRaises
<1>12. QED BY <1>7, <1>8, <1>9, <1>10, <1>11

\* It writes the result and unlinks the request, or dies; a reboot ends everything.
LEMMA HelperWritesResultStep == Inv /\ HelperWritesResult => Inv'
<1> SUFFICES ASSUME Inv, HelperWritesResult PROVE Inv'
  OBVIOUS
<1> DEFINE j == helper.job
<1>1. /\ helper.pc \in {"report_ok", "report_error"} /\ helper' = [pc |-> "unlinking", job |-> j]
      /\ UNCHANGED <<now, created, jobs, worker, call, reply, late, requests, begun, killed, reached>>
  BY DEF HelperWritesResult, HelperGoto, HelperFrame, dbVars, netVars
<1>2. j \in Job /\ Busy(j)
  BY <1>1 DEF Inv, TypesInv, HostTypes, HelperAt, Busy
<1>3. /\ results' \in [Job -> {Null, "ok", "error"}]
      /\ \A k \in Job : results'[k] = IF k = j THEN IF helper.pc = "report_ok" THEN "ok" ELSE "error"
                                      ELSE results[k]
  BY DEF HelperWritesResult, Inv, TypesInv, HostTypes
<1>4. TypesInv'
  BY <1>1, <1>2, <1>3 DEF Inv, TypesInv, TableTypes, WorkerTypes, HostTypes, HelperAt, At
<1>5. ExecInv'
  <2>1. \A k \in Job : Busy(k)' <=> Busy(k)
    BY <1>1 DEF Busy
  <2>2. \A k \in Job : Untouched(k) => Untouched(k)'
    BY <1>1, <1>2, <1>3, <2>1 DEF Untouched
  <2>3. Starts => worker.job \in Job
    BY DEF Inv, TypesInv, WorkerTypes, Starts, At, InHand
  <2>4. Starts' => (Untouched(worker.job) /\ jobs[worker.job].status \notin Before)'
    BY <1>1, <2>2, <2>3 DEF Inv, ExecInv, At, Starts, Untouched, Busy
  <2>5. QED BY <1>1, <2>1, <2>2, <2>4 DEF Inv, ExecInv, ExecutedAtMostOnce
<1>6. EarnInv'
  BY <1>1, <1>2, <1>3 DEF Inv, EarnInv, HelperAt, SuccessIsEarned, Earned
<1>7. QED BY <1>1, <1>4, <1>5, <1>6 DEF Inv, LeaseInv, Hand, At

LEMMA HelperEnds ==
  ASSUME Inv, ~HelperAt("idle"), helper' = Free,
         \/ killed' = killed /\ requests' = [requests EXCEPT ![helper.job] = Absent]
         \/ killed' = [killed EXCEPT ![helper.job] = @ + 1] /\ requests' = requests,
         UNCHANGED <<now, created, jobs, worker, call, reply, late, results, begun, reached>>
  PROVE  Inv'
<1> DEFINE j == helper.job
<1>1. j \in Job /\ Busy(j)
  BY DEF Inv, TypesInv, HostTypes, HelperAt, Busy
<1>2. /\ requests \in [Job -> Int] /\ killed \in [Job -> Nat] /\ begun \in [Job -> Nat] /\ Absent \in Int
  BY DEF Inv, TypesInv, HostTypes, Absent
<1>3. /\ requests' \in [Job -> Int] /\ killed' \in [Job -> Nat]
      /\ \A k \in Job : requests'[k] \in {requests[k], Absent} /\ killed'[k] >= killed[k]
      /\ \A k \in Job \ {j} : killed'[k] = killed[k]
      /\ requests'[j] = Absent \/ killed'[j] = killed[j] + 1
  <2>1. CASE killed' = killed /\ requests' = [requests EXCEPT ![j] = Absent]
    BY <1>1, <1>2, <2>1
  <2>2. CASE killed' = [killed EXCEPT ![j] = @ + 1] /\ requests' = requests
    <3>1. killed' \in [Job -> Nat] /\ \A k \in Job : killed'[k] = IF k = j THEN killed[k] + 1 ELSE killed[k]
      BY <1>1, <1>2, <2>2
    <3>2. \A k \in Job : killed'[k] >= killed[k]
      <4> SUFFICES ASSUME NEW k \in Job PROVE killed'[k] >= killed[k]
        OBVIOUS
      <4>1. killed[k] \in Nat
        BY <1>2
      <4>2. killed'[k] = killed[k] \/ killed'[k] = killed[k] + 1
        BY <3>1
      <4>3. QED BY <4>1, <4>2
    <3>3. requests' \in [Job -> Int] /\ \A k \in Job : requests'[k] \in {requests[k], Absent}
      BY <1>2, <2>2
    <3>4. (\A k \in Job \ {j} : killed'[k] = killed[k]) /\ killed'[j] = killed[j] + 1
      BY <1>1, <3>1
    <3>5. QED BY <3>1, <3>2, <3>3, <3>4
  <2>3. QED BY <2>1, <2>2
<1>4. TypesInv'
  BY <1>3 DEF Inv, TypesInv, TableTypes, WorkerTypes, HostTypes, HelperAt, At, Free
<1>5. ExecInv'
  <2>1. \A k \in Job : Untouched(k) => Untouched(k)'
    BY <1>3 DEF Starts, Untouched, Busy, Free
  <2>2. Starts => worker.job \in Job
    BY DEF Inv, TypesInv, WorkerTypes, Starts, At, InHand
  <2>3. Starts' => (Untouched(worker.job) /\ jobs[worker.job].status \notin Before)'
    BY <2>1, <2>2 DEF Inv, ExecInv, At, Starts, Untouched, Busy
  <2>4. ExecutedAtMostOnce'
    BY <1>2, <1>3 DEF Inv, ExecInv, ExecutedAtMostOnce
  <2>5. ASSUME NEW k \in Job, requests'[k] # Absent PROVE begun'[k] <= killed'[k]
    <3>1. CASE k = j
      BY <1>1, <1>2, <1>3, <2>5, <3>1 DEF Inv, ExecInv, ExecutedAtMostOnce
    <3>2. CASE k # j
      BY <1>2, <1>3, <2>5, <3>2 DEF Inv, ExecInv, Busy
    <3>3. QED BY <3>1, <3>2
  <2>6. QED BY <2>1, <2>3, <2>4, <2>5 DEF Inv, ExecInv
<1>6. EarnInv'
  BY DEF Inv, EarnInv, HelperAt, SuccessIsEarned, Earned, Free
<1>7. QED BY <1>4, <1>5, <1>6 DEF Inv, LeaseInv, Hand, At

-----------------------------------------------------------------------------
(* Every step *)

LEMMA EnqueueStep ==
  ASSUME Inv, NEW op \in Op, Enqueue(op)
  PROVE  Inv'
<1> DEFINE n == created + 1
           r == [NoRow EXCEPT !.status = "queued", !.op = op]
<1>1. created \in 0..MaxJobs /\ created < MaxJobs /\ n \in Job /\ jobs[n].status = Null /\ jobs \in [Job -> RowType]
  BY DEF Enqueue, Inv, TypesInv, TableTypes
<1>2. /\ created' = n /\ jobs' = [jobs EXCEPT ![n] = r]
      /\ UNCHANGED <<now, worker, call, reply, late, requests, results, helper, begun, killed, reached>>
  BY DEF Enqueue, netVars, fileVars, hostVars
<1>3. r \in RowType /\ r.status = "queued" /\ r.expires = 0
  BY DEF NoRow, RowType, Status, ActiveStatus, TerminalStatus, NoLease, Null
<1> HIDE DEF r
<1>4. /\ jobs' \in [Job -> RowType]
      /\ \A j \in Job : jobs'[j] = IF j = n THEN r ELSE jobs[j]
  BY <1>1, <1>2, <1>3
<1>5. TableTypes'
  <2>1. now' \in Nat /\ created' \in 0..MaxJobs
    BY <1>1, <1>2 DEF Inv, TypesInv, TableTypes
  <2>2. \A j \in Job : j > created' => jobs'[j].status = Null
    BY <1>1, <1>2, <1>4 DEF Inv, TypesInv, TableTypes
  <2>3. QED BY <1>4, <2>1, <2>2 DEF TableTypes
<1>6. WorkerTypes' /\ HostTypes'
  BY <1>2 DEF Inv, TypesInv, WorkerTypes, HostTypes, At, HelperAt
<1>7. ExecInv'
  BY <1>1, <1>2, <1>3, <1>4, ExecKept DEF Before, Starts, At, Inv, TypesInv, HostTypes
<1>8. EarnInv'
  <2>1. begun[n] = 0
    BY <1>1 DEF Inv, ExecInv, Before, Untouched
  <2>2. QED BY <1>2, <1>3, <1>4, <2>1, EarnKept DEF Inv, EarnInv, SuccessIsEarned
<1>9. LeaseInv'
  <2>1. Hand' = Hand /\ (Hand \in Job => Hand # n)
    BY <1>1, <1>2 DEF Inv, LeaseInv, Hand, At
  <2>2. now \in Nat
    BY DEF Inv, TypesInv, TableTypes
  <2>3. QED BY <1>2, <1>3, <1>4, <2>1, <2>2 DEF Inv, LeaseInv, At
<1>10. QED BY <1>5, <1>6, <1>7, <1>8, <1>9 DEF Inv, TypesInv

LEMMA PublishStep ==
  ASSUME Inv, faults \in Nat, Publish
  PROVE  Inv'
<1> DEFINE j == worker.job
<1>1. /\ At("publishing") /\ j \in Job /\ Hand = j /\ now \in Nat /\ Untouched(j) /\ jobs[j].status \notin Before
      /\ UNCHANGED <<now, created, jobs, results, helper, begun, killed, reached>>
  BY DEF Publish, dbVars, hostVars, Inv, TypesInv, WorkerTypes, TableTypes, ExecInv, Starts, At, InHand, Hand
<1>2. CASE Report(j, "failed") /\ UNCHANGED requests
  BY <1>1, <1>2, ReportStep DEF At
<1>3. CASE /\ requests' = [requests EXCEPT ![j] = now] /\ Goto("waiting", j)
           /\ UNCHANGED <<call, reply, late>>
  <2>1. requests' \in [Job -> Int] /\ \A k \in Job \ {j} : requests'[k] = requests[k]
    <3>1. requests \in [Job -> Int]
      BY DEF Inv, TypesInv, HostTypes
    <3>2. now \in Int
      BY <1>1
    <3>3. QED BY <1>3, <3>1, <3>2
  <2>2. worker' \in [pc : {"waiting"}, job : {j}, until : Nat] /\ LeaseInv'
    BY <1>1, <1>3, GotoStep DEF At, InHand
  <2>3. TypesInv'
    BY <1>1, <1>3, <2>1, <2>2 DEF Inv, TypesInv, TableTypes, WorkerTypes, HostTypes, At, HelperAt, InHand, Calling
  <2>4. ~Starts'
    BY <2>2 DEF Starts, At
  <2>5. ExecInv'
    <3>1. \A k \in Job \ {j} : Untouched(k) => Untouched(k)'
      BY <1>1, <2>1 DEF Untouched, Busy
    <3>2. begun[j] <= killed[j]
      BY <1>1 DEF Inv, TypesInv, HostTypes, Untouched
    <3>3. QED BY <1>1, <1>3, <2>1, <2>4, <3>1, <3>2 DEF Inv, ExecInv, ExecutedAtMostOnce, Busy
  <2>6. EarnInv'
    BY <1>1, <1>3, EarnKept DEF Inv, EarnInv, SuccessIsEarned
  <2>7. QED BY <2>2, <2>3, <2>5, <2>6 DEF Inv
<1>4. QED BY <1>2, <1>3 DEF Publish, netVars

\* Calls are given up, and the worker begins again.
LEMMA WorkerLetsGo ==
  ASSUME Inv, NEW w \in {Idle, Down}, LetsGo(w),
         UNCHANGED <<now, created, jobs, requests, results, helper, begun, killed, reached>>
  PROVE  Inv'
<1>1. /\ worker' = w /\ call' = NoCall /\ reply' = NoReply /\ late' = late \cup Awaited
      /\ Awaited \subseteq Call /\ Awaited \subseteq {call}
  BY DEF LetsGo, Awaited, Inv, TypesInv, WorkerTypes
<1>2. WorkerTypes' /\ LeaseInv' /\ ~Starts'
  BY <1>1 DEF Inv, TypesInv, WorkerTypes, LeaseInv, Hand, Starts, Idle, Down, At, InHand, Reply, NoReply, Null
<1>3. NoCall \notin TransitionCall
  BY DEF NoCall, TransitionCall, Null
<1>4. QED BY <1>1, <1>2, <1>3, WorkerMoves DEF Inv, TypesInv, HostTypes

LEMMA RebootStep ==
  ASSUME Inv, Reboot
  PROVE  Inv'
<1>1. /\ requests' = [j \in Job |-> Absent] /\ results' = [j \in Job |-> Null]
      /\ helper' = Free /\ worker' = Down /\ call' = NoCall /\ reply' = NoReply
      /\ late' = late \cup Awaited
      /\ UNCHANGED <<now, created, jobs, begun, killed, reached>>
  BY DEF Reboot, LetsGo, dbVars
<1>2. Awaited \subseteq Call /\ Awaited \subseteq {call}
  BY DEF Awaited, Inv, TypesInv, WorkerTypes
<1>3. Absent \in Int
  BY DEF Absent
<1>4. TableTypes' /\ HostTypes'
  BY <1>1, <1>3 DEF Inv, TypesInv, TableTypes, HostTypes, HelperAt, Free
<1>5. WorkerTypes' /\ LeaseInv' /\ ~Starts'
  BY <1>1, <1>2 DEF Inv, TypesInv, WorkerTypes, LeaseInv, Hand, Starts, Down, At, InHand, Reply, NoReply, Null
<1>6. ExecInv'
  BY <1>1, <1>5 DEF Inv, ExecInv, Untouched, Busy, Free, ExecutedAtMostOnce
<1>7. EarnInv'
  <2>1. NoCall \notin TransitionCall
    BY DEF NoCall, TransitionCall, Null
  <2>2. \A c \in late' \cup {call'} : c \in TransitionCall /\ c.to = "succeeded" => Earned(c.job)'
    BY <1>1, <1>2, <2>1 DEF Inv, EarnInv, Earned
  <2>3. QED BY <1>1, <2>2 DEF Inv, EarnInv, HelperAt, Free, SuccessIsEarned, Earned, Null
<1>8. QED BY <1>4, <1>5, <1>6, <1>7 DEF Inv, TypesInv

LEMMA WorkerInv ==
  ASSUME Inv, faults \in Nat, WorkerStep
  PROVE  Inv'
<1>1. /\ worker.pc \in InHand => worker.job \in Job /\ Hand = worker.job
      /\ worker.pc \notin Calling => call = NoCall /\ reply = NoReply
      /\ requests \in [Job -> Int] /\ now \in Nat
  BY DEF Inv, TypesInv, WorkerTypes, HostTypes, TableTypes, Hand, At, InHand
<1>2. NoCall \notin TransitionCall
  BY DEF NoCall, TransitionCall, Null
<1>3. CASE SendClaim
  <2>1. /\ At("idle") /\ late' = late /\ reply' = reply /\ reply = NoReply /\ call' = Claim
        /\ worker' = [pc |-> "claiming", job |-> 0, until |-> now + CallTimeout]
        /\ UNCHANGED <<now, created, jobs, requests, results, helper, begun, killed, reached>>
    BY <1>1, <1>3 DEF SendClaim, Goto, Patience, Calling, At, dbVars, fileVars, hostVars
  <2>2. call' \in ClaimCall /\ call' \notin TransitionCall
    BY <1>1, <2>1 DEF Claim, ClaimCall, TransitionCall, Stage
  <2>3. WorkerTypes'
    BY <1>1, <2>1, <2>2 DEF Inv, TypesInv, WorkerTypes, At, InHand, Calling, Call, NoReply, Null
  <2>4. LeaseInv' /\ ~Starts'
    BY <1>1, <2>1 DEF Inv, LeaseInv, Hand, Starts, At, NoReply
  <2>5. QED BY <1>1, <2>1, <2>2, <2>3, <2>4, WorkerMoves
<1>4. ASSUME NEW p \in {"waiting", "probing_again"}, worker.pc \in {"probing", "probing_again"},
             p = "probing_again" => At("probing"), Goto(p, worker.job),
             UNCHANGED <<now, created, jobs, call, reply, late, requests, results, helper, begun, killed, reached>>
      PROVE  Inv'
  <2>1. worker' \in [pc : {p}, job : {worker.job}, until : Nat] /\ LeaseInv'
    BY <1>1, <1>4, GotoStep DEF At, InHand
  <2>2. WorkerTypes' /\ ~Starts'
    BY <1>1, <1>4, <2>1 DEF Inv, TypesInv, WorkerTypes, Starts, At, InHand, Calling
  <2>3. QED BY <1>1, <1>4, <2>1, <2>2, WorkerMoves
<1>5. CASE ProbeFirst
  BY <1>4, <1>5 DEF ProbeFirst, At, dbVars, netVars, fileVars, hostVars
<1>6. CASE ProbeSecond
  <2>1. /\ At("probing_again")
        /\ UNCHANGED <<now, created, jobs, requests, results, helper, begun, killed, reached>>
    BY <1>6 DEF ProbeSecond, dbVars, fileVars, hostVars
  <2>2. CASE Goto("waiting", worker.job) /\ UNCHANGED <<call, reply, late>>
    BY <1>4, <2>1, <2>2 DEF At
  <2>3. CASE Report(worker.job, "failed")
    BY <2>1, <2>3, ReportStep DEF At
  <2>4. QED BY <1>6, <2>2, <2>3 DEF ProbeSecond, netVars
<1>7. CASE ReadResult
  <2>1. /\ At("waiting") /\ worker.job \in Job
        /\ UNCHANGED <<now, created, jobs, requests, results, helper, begun, killed, reached>>
    BY <1>1, <1>7 DEF ReadResult, dbVars, fileVars, hostVars, At, InHand
  <2>2. CASE results[worker.job] = "ok" /\ Report(worker.job, "succeeded")
    BY <2>1, <2>2, ReportStep DEF At, Inv, EarnInv
  <2>3. CASE Report(worker.job, "failed")
    BY <2>1, <2>3, ReportStep DEF At
  <2>4. QED BY <1>7, <2>2, <2>3 DEF ReadResult
<1>8. CASE Deadline
  BY <1>8, ReportStep DEF Deadline, At, dbVars, hostVars
<1>9. CASE WorkerRestarts
  <2>1. /\ At("down") /\ worker' = Idle
        /\ UNCHANGED <<now, created, jobs, call, reply, late, requests, results, helper, begun, killed, reached>>
    BY <1>9 DEF WorkerRestarts, dbVars, netVars, fileVars, hostVars
  <2>2. WorkerTypes' /\ LeaseInv' /\ ~Starts'
    BY <1>1, <2>1 DEF Inv, TypesInv, WorkerTypes, LeaseInv, Hand, Starts, Idle, At, InHand, Calling
  <2>3. QED BY <1>1, <1>2, <2>1, <2>2, WorkerMoves
<1>10. QED
  BY <1>3, <1>5, <1>6, <1>7, <1>8, <1>9, PublishStep, ClaimAnsweredStep, StartAnsweredStep,
     FinishAnsweredStep DEF WorkerStep

LEMMA FaultsCounted ==
  ASSUME faults \in Nat, [Next]_vars
  PROVE  faults' \in Nat
<1>1. CASE WorkerStep
  BY <1>1 DEF WorkerStep, SendClaim, ClaimAnswered, StartAnswered, Publish, ProbeFirst, ProbeSecond, ReadResult,
              Deadline, FinishAnswered, WorkerRestarts
<1>2. CASE HelperStep
  BY <1>2 DEF HelperStep, HelperPicks, HelperStops, HelperAwaitsStop, HelperStarts, HelperAwaitsHealth,
              HelperRaises, HelperWritesResult, HelperUnlinks, HelperFrame
<1>3. CASE \E c \in UnderWay : Api(c)
  BY <1>3 DEF Api, ApiAccepts, ApiClaims, ApiTransitions
<1>4. CASE GiveUp \/ LoseLate \/ WorkerStops \/ HelperKilled \/ ContainerMoves \/ Reboot \/ Tick
  BY <1>4 DEF GiveUp, LoseLate, WorkerStops, HelperKilled, ContainerMoves, Reboot, Tick
<1>5. CASE (\E op \in Op : Enqueue(op)) \/ UNCHANGED vars
  BY <1>5 DEF Enqueue, vars
<1>6. QED BY <1>1, <1>2, <1>3, <1>4, <1>5 DEF Next

LEMMA NextInv == IInv /\ [Next]_vars => IInv'
<1> SUFFICES ASSUME Inv, faults \in Nat, [Next]_vars PROVE Inv'
  BY FaultsCounted DEF IInv
<1>1. CASE UNCHANGED <<now, created, jobs, worker, call, reply, late, requests, results, helper, begun, killed, reached>>
  <2>1. TypesInv'
    BY <1>1 DEF Inv, TypesInv, TableTypes, WorkerTypes, HostTypes, At, HelperAt
  <2>2. ExecInv'
    BY <1>1 DEF Inv, ExecInv, Starts, At, Untouched, Busy, ExecutedAtMostOnce
  <2>3. EarnInv'
    BY <1>1 DEF Inv, EarnInv, HelperAt, Earned, SuccessIsEarned
  <2>4. LeaseInv'
    BY <1>1 DEF Inv, LeaseInv, Hand, At, IsHeld
  <2>5. QED BY <2>1, <2>2, <2>3, <2>4 DEF Inv
<1>2. CASE GiveUp \/ WorkerStops
  BY <1>2, WorkerLetsGo DEF GiveUp, WorkerStops, dbVars, fileVars, hostVars
<1>3. CASE LoseLate
  <2>1. /\ late' \subseteq late
        /\ UNCHANGED <<now, created, jobs, worker, call, reply, requests, results, helper, begun, killed, reached>>
    BY <1>3 DEF LoseLate, dbVars, fileVars, hostVars
  <2>2. WorkerTypes' /\ LeaseInv' /\ (Starts' => Starts)
    BY <2>1 DEF Inv, TypesInv, WorkerTypes, LeaseInv, Hand, Starts, At
  <2>3. QED BY <2>1, <2>2, WorkerMoves DEF Inv, TypesInv, HostTypes
<1>4. CASE HelperStep
  <2>1. CASE HelperUnlinks
    BY <2>1, HelperEnds DEF HelperUnlinks, HelperFrame, HelperAt, dbVars, netVars
  <2>2. QED BY <1>4, <2>1, HelperPicksStep, HelperWorks, HelperWritesResultStep DEF HelperStep
<1>5. CASE HelperKilled
  BY <1>5, HelperEnds DEF HelperKilled, dbVars, netVars, fileVars
<1>6. CASE Tick
  <2>1. now' = now + 1 /\ now \in Nat /\ (worker.pc \in {"idle", "down"} \/ now < worker.until)
        /\ UNCHANGED <<created, jobs, worker, call, reply, late, requests, results, helper, begun, killed, reached>>
    BY <1>6 DEF Tick, dbVars, netVars, fileVars, hostVars, Inv, TypesInv, TableTypes
  <2>2. TypesInv'
    BY <2>1 DEF Inv, TypesInv, TableTypes, WorkerTypes, HostTypes, At, HelperAt
  <2>3. ExecInv' /\ EarnInv'
    BY <2>1 DEF Inv, ExecInv, EarnInv, Starts, At, HelperAt, Untouched, Busy, Earned, ExecutedAtMostOnce, SuccessIsEarned
  <2>4. LeaseInv'
    <3>1. worker.until \in Nat /\ \A j \in Job : jobs[j].expires \in Nat
      BY DEF Inv, TypesInv, TableTypes, WorkerTypes, RowType
    <3>2. (worker.pc \notin {"idle", "down"} => now <= worker.until)'
      BY <2>1, <3>1
    <3>3. \A j \in Job : jobs'[j].expires <= now' + Lease
      BY <2>1, <3>1 DEF Inv, LeaseInv
    <3>4. At("claiming")' => worker'.until <= now' + CallTimeout
      BY <2>1, <3>1 DEF Inv, LeaseInv, At
    <3>5. Hand' = Hand
      BY <2>1 DEF Hand, At
    <3>6. QED BY <2>1, <3>2, <3>3, <3>4, <3>5 DEF Inv, LeaseInv
  <2>5. QED BY <2>2, <2>3, <2>4 DEF Inv
<1>7. CASE ContainerMoves
  BY <1>1, <1>7 DEF ContainerMoves, dbVars, netVars, fileVars
<1>8. CASE UNCHANGED vars
  BY <1>1, <1>8 DEF vars, dbVars, netVars, fileVars, hostVars
<1>9. CASE \E c \in UnderWay : Api(c)
  BY <1>9, ApiAcceptsStep, ApiClaimsStep, ApiTransitionsStep DEF Api
<1>10. QED
  BY <1>2, <1>3, <1>4, <1>5, <1>6, <1>7, <1>8, <1>9, EnqueueStep, WorkerInv, RebootStep DEF Next

-----------------------------------------------------------------------------
(* Theorems *)

\* However often worker, helper and host die, and whatever answers are lost or calls executed
\* late, the helper begins a job once, and again only where it was killed at it.
\* (runOnce, executeThroughIPC, process_request.)
THEOREM JobsRunOnce == Spec => []ExecutedAtMostOnce
<1>1. IInv => ExecutedAtMostOnce
  BY DEF IInv, Inv, ExecInv
<1>2. QED BY <1>1, InitInv, NextInv, PTL DEF Spec

\* A job that is recorded as succeeded was executed, and mc-main was seen in the state a start
\* or restart asks for: no fault can make up a success.  (write_result, terminalTransition,
\* transition_mc_main_operation_job.)
THEOREM SuccessIsReal == Spec => []SuccessIsEarned
<1>1. IInv => SuccessIsEarned
  BY DEF IInv, Inv, EarnInv
<1>2. QED BY <1>1, InitInv, NextInv, PTL DEF Spec

\* No claim, however many of them are under way and however late the API accepts and executes
\* them, expires the job the worker has in hand: every claim the worker reads was executed
\* within its call timeout, and from there on its waits together are shorter than the lease.
\* (claim_mc_main_operation_job, operationHTTPClient, loadConfig, executeThroughIPC.)
THEOREM LeaseOutlivesLateClaims == Spec => NotReapedWhileWorking
<1> DEFINE Kept == \A j \in Job :
             worker.job = j /\ worker.pc \notin {"idle", "down"} /\ IsHeld(jobs[j]) => jobs'[j].status # "expired"
<1>1. IInv /\ [Next]_vars => [Kept]_vars
  <2> SUFFICES ASSUME Inv, Next, NEW j \in Job, worker.job = j, IsHeld(jobs[j]), jobs'[j].status = "expired",
                      worker.pc \notin {"idle", "down"}
               PROVE  FALSE
    BY DEF Kept, IInv
  <2>1. /\ jobs[j].status # "expired" /\ worker.pc \in InHand /\ jobs \in [Job -> RowType] /\ Hand = j
        /\ now <= worker.until /\ worker.until + Rest(worker.pc) < jobs[j].expires
    BY DEF IsHeld, HeldStatus, Inv, TypesInv, WorkerTypes, TableTypes, LeaseInv, Hand, At, InHand
  <2>2. CASE jobs' = jobs
    BY <2>1, <2>2
  <2>3. ASSUME NEW c \in UnderWay, Api(c) PROVE FALSE
    <3>1. CASE ApiAccepts(c)
      BY <2>2, <3>1 DEF ApiAccepts, dbVars
    <3>2. CASE ApiClaims(c)
      <4>1. Stale(jobs[j], now)
        BY <2>1, <3>2, ClaimRow DEF ApiClaims, Inv, TypesInv
      <4>2. jobs[j].expires <= now
        BY <4>1 DEF Stale, Lapsed
      <4>3. now \in Nat /\ worker.until \in Nat /\ jobs[j].expires \in Nat /\ Rest(worker.pc) \in Nat
        BY <2>1, RestType DEF Inv, TypesInv, TableTypes, WorkerTypes, RowType
      <4>4. QED BY <2>1, <4>2, <4>3
    <3>3. CASE ApiTransitions(c)
      <4>1. c \in TransitionCall
        BY <3>3 DEF ApiTransitions, UnderWay, Awaited, Inv, TypesInv, WorkerTypes, Call, ClaimCall
      <4>2. QED BY <2>1, <3>3, <4>1, TransitionTable DEF ApiTransitions, Inv, TypesInv
    <3>4. QED BY <2>3, <3>1, <3>2, <3>3 DEF Api
  <2>4. ASSUME NEW op \in Op, Enqueue(op) PROVE FALSE
    <3>1. jobs' = [jobs EXCEPT ![created + 1] = [NoRow EXCEPT !.status = "queued", !.op = op]]
      BY <2>4 DEF Enqueue
    <3>2. [NoRow EXCEPT !.status = "queued", !.op = op].status = "queued"
      BY DEF NoRow
    <3>3. QED BY <2>1, <3>1, <3>2
  <2>5. CASE WorkerStep
    BY <2>2, <2>5 DEF WorkerStep, SendClaim, ClaimAnswered, StartAnswered, Publish, ProbeFirst, ProbeSecond,
                      ReadResult, Deadline, FinishAnswered, WorkerRestarts, dbVars
  <2>6. CASE HelperStep \/ HelperKilled
    BY <2>2, <2>6 DEF HelperStep, HelperKilled, HelperPicks, HelperStops, HelperAwaitsStop, HelperStarts,
                      HelperAwaitsHealth, HelperRaises, HelperWritesResult, HelperUnlinks, HelperFrame, dbVars
  <2>7. CASE GiveUp \/ LoseLate \/ WorkerStops \/ ContainerMoves \/ Reboot \/ Tick
    BY <2>2, <2>7 DEF GiveUp, LoseLate, WorkerStops, ContainerMoves, Reboot, Tick, dbVars
  <2>8. QED BY <2>3, <2>4, <2>5, <2>6, <2>7 DEF Next
<1>2. QED BY <1>1, InitInv, NextInv, PTL DEF Spec, NotReapedWhileWorking, Kept
=============================================================================
