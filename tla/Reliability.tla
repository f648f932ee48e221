------------------------------ MODULE Reliability ------------------------------
(***************************************************************************)
(* The Reliability Center: SLO policies, scoped maintenance windows, the   *)
(* downtime that counts against an SLO, and the one-minute reconciler that *)
(* turns burn rates into alerts (apps/web/lib/reliability*.ts and the      *)
(* functions of migrations 202608140001 to 202608140012).                  *)
(*                                                                         *)
(* Incidents come from the Incident Center (module Incidents); here an     *)
(* incident is what its snapshot says of it: the entity, its interval,     *)
(* whether its start is proven by recorded events and whether it began     *)
(* with an OOM kill.  What a signal does to the notification outbox is     *)
(* module NotificationOutbox.  A unit of time stands for the shortest burn *)
(* window, an instant t for the unit that begins at t.                     *)
(***************************************************************************)
EXTENDS Clock, Integers, Sequences, FiniteSets, FiniteSetsExt, SequencesExt

CONSTANTS ServiceIds,     \* the services with an SLO, in evaluation order
          Entities,       \* what can fail: [type, host, name]
          Targets,        \* what a window can name: [scope, service, host, name]
          Policies,       \* the policies an administrator sets: [enabled, target]
          Key,            \* idempotency keys of the window form
          Reconciler,     \* reconcile requests that may overlap
          BurnWindows,    \* lengths of the short, middle and long burn window
          PageRange,      \* length of the range a page shows
          Grace,          \* how far back a new window may start
          MaxDuration,    \* longest window
          MaxAhead,       \* how far ahead a window may start
          WindowRows,     \* rows the pages of one window listing can hold
          MaxEvents,      \* bound: incidents, window and policy changes and runs
          MaxFaults       \* bound: failing calls of one behaviour

(* A row of the table of windows.                                          *)
MaintenanceWindow ==
  [target : Targets, starts : Int, ends : Int, cancelled : {None} \cup Nat]

ASSUME ReliabilityAssumption ==
  /\ None \notin MaintenanceWindow
  /\ {Grace, PageRange, MaxTime} \subseteq Nat

VARIABLES incidents, windows, policy, signal, recon, events, faults

reliabilityVars == <<now, incidents, windows, policy, signal, recon, events, faults>>

Services == Range(ServiceIds)

----------------------------------------------------------------------------
(* Intervals.  An absent interval is the empty set of intervals.           *)

Interval(start, end) == [start |-> start, end |-> end]

Earlier(a, b) == a.start < b.start \/ (a.start = b.start /\ a.end <= b.end)

MaxOf(a, b) == IF a >= b THEN a ELSE b

MinOf(a, b) == IF a <= b THEN a ELSE b

ClipInterval(startedAt, endedAt, lo, hi) ==
  {i \in {Interval(MaxOf(startedAt, lo), MinOf(endedAt, hi))} : i.end > i.start}

(* The length of a union: sort, then merge what touches or overlaps.       *)
MergeSorted(sorted) ==
  LET Merge(acc, i) ==
        IF i.start <= acc.current.end
        THEN [acc EXCEPT !.current.end = MaxOf(@, i.end)]
        ELSE [current |-> i,
              total |-> acc.total + acc.current.end - acc.current.start]
      Total(acc) == acc.total + acc.current.end - acc.current.start
  IN  IF sorted = <<>> THEN 0
      ELSE Total(FoldLeft(Merge, [current |-> sorted[1], total |-> 0], Tail(sorted)))

\* Mutant: the lengths are added up, overlaps and all.
UnionSecondsSum(intervals) == MapThenSumSet(LAMBDA i : i.end - i.start, intervals)

UnionSeconds(intervals) == MergeSorted(SetToSortSeq(intervals, Earlier))

(* What is left of a source: the pieces found and the one after the cursor. *)
Rest(cut, source) ==
  cut.result \cup ClipInterval(cut.cursor, source.end, source.start, source.end)

Clipped(source, exclusions) ==
  UNION {ClipInterval(x.start, x.end, source.start, source.end) : x \in exclusions}

(* A sweep over the exclusions by start: what lies between the cursor and  *)
(* the next exclusion stays, and the cursor moves past it.                 *)
SubtractIntervals(source, exclusions) ==
  LET Cut(acc, x) ==
        IF x.end <= acc.cursor \/ acc.cursor >= source.end THEN acc
        ELSE [result |-> acc.result
                \cup ClipInterval(acc.cursor, x.start, source.start, source.end),
              cursor |-> MaxOf(acc.cursor, x.end)]
  IN  Rest(FoldLeft(Cut, [result |-> {}, cursor |-> source.start],
                    SetToSortSeq(Clipped(source, exclusions), Earlier)), source)

----------------------------------------------------------------------------
(* Downtime with and without maintenance.                                  *)

\* Mutant: a cancelled window no longer excludes anything.
EffectiveWindowIntervalVoid(w, lo, hi) ==
  IF w.cancelled # None THEN {} ELSE ClipInterval(w.starts, w.ends, lo, hi)

(* A cancelled window keeps excluding what it covered until then.          *)
EffectiveWindowInterval(w, lo, hi) ==
  ClipInterval(w.starts, IF w.cancelled = None THEN w.ends ELSE MinOf(w.ends, w.cancelled),
               lo, hi)

MaintenanceExcludable(i) == ~(i.entity.type = "container" /\ i.oom)

AppliesToIncident(w, i) ==
  /\ MaintenanceExcludable(i)
  /\ LET t == w.target IN
     \/ t.scope = "service" /\ t.service \in {"overall", i.entity.type}
     \/ t.scope = "host" /\ t.host = i.entity.host
     \/ /\ t.scope \in {"container", "backup"}
        /\ t.scope = i.entity.type
        /\ t.host = i.entity.host
        /\ t.name = i.entity.name

Active(is) == {i \in is : i.end = None}

(* The interval of an active incident ends with the range; without a       *)
(* proven start it has none.                                               *)
IncidentInterval(i, lo, hi) ==
  CASE i.end # None -> ClipInterval(i.start, i.end, lo, hi)
    [] i.end = None /\ i.exact -> ClipInterval(i.start, hi, lo, hi)
    [] OTHER -> {}

CollectKnownDowntime(is, lo, hi) ==
  [seconds |-> UnionSeconds(UNION {IncidentInterval(i, lo, hi) : i \in is}),
   exact   |-> \A i \in Active(is) : i.exact]

CollectMaintenanceAdjustedDowntime(is, ws, lo, hi) ==
  LET Exclusions(i) == UNION {EffectiveWindowInterval(w, lo, hi) :
                                w \in {x \in ws : AppliesToIncident(x, i)}}
      counted == UNION {UNION {SubtractIntervals(v, Exclusions(i)) :
                                 v \in IncidentInterval(i, lo, hi)} : i \in is}
  IN  [counted |-> UnionSeconds(counted), exact |-> \A i \in Active(is) : i.exact]

Scoped(s, is) == {i \in is : s = "overall" \/ i.entity.type = s}

BuildReliabilityMaintenanceAdjustments(is, ws, lo, hi) ==
  [s \in Services |-> CollectMaintenanceAdjustedDowntime(Scoped(s, is), ws, lo, hi)]

----------------------------------------------------------------------------
(* Burn rates.  counted / (length * (1 - target / 100)) against a          *)
(* threshold in tenths, without the division.                              *)

Configured(p) == p.enabled /\ p.target # None

BackupCoverageRequired(s) == s \in {"overall", "backup"}

BuildConfiguredWindows(snap, ws, p, s) ==
  [k \in 1 .. 3 |->
     LET a == BuildReliabilityMaintenanceAdjustments(
                snap.incidents, ws, snap.at - BurnWindows[k], snap.at)[s]
     IN  [counted |-> a.counted,
          allowed |-> BurnWindows[k] * (100 - p.target),
          exact |-> a.exact /\ (BackupCoverageRequired(s) => snap.backupOk)]]

Reaches(w, tenths) == w.exact /\ 1000 * w.counted >= tenths * w.allowed

\* Mutant: below the thresholds is healthy, whatever the coverage.
StateForOptimistic(ws) ==
  CASE Reaches(ws[1], 144) /\ Reaches(ws[2], 60) -> "critical"
    [] Reaches(ws[2], 60) /\ Reaches(ws[3], 30) -> "warning"
    [] OTHER -> "healthy"

(* Critical: 14.4x over 1 h and 6x over 6 h.  Warning: 6x over 6 h and 3x  *)
(* over 24 h.  Healthy only when every window is fully covered.            *)
StateFor(ws) ==
  CASE Reaches(ws[1], 144) /\ Reaches(ws[2], 60) -> "critical"
    [] Reaches(ws[2], 60) /\ Reaches(ws[3], 30) -> "warning"
    [] OTHER -> IF \A k \in 1 .. 3 : ws[k].exact THEN "healthy" ELSE "coverage_unknown"

BuildReliabilityBurnRates(snap, pol, ws) ==
  [s \in Services |->
     CASE pol = None \/ ws = None -> "data_unavailable"
       [] pol # None /\ ws # None /\ ~Configured(pol[s]) -> "unconfigured"
       [] OTHER -> StateFor(BuildConfiguredWindows(snap, ws, pol[s], s))]

----------------------------------------------------------------------------
(* The error budget a page shows for a range.                              *)

(* The incident service behind a budget: unavailable when it is the backup *)
(* service and the backup data could not be read.                          *)
BuildIncidentService(s, snap, lo, hi) ==
  LET d == CollectKnownDowntime(Scoped(s, snap.incidents), lo, hi)
      available == s # "backup" \/ snap.backupOk
  IN  [known |-> IF available THEN d.seconds ELSE None,
       exact |-> available /\ d.exact]

BuildOverall(snap, lo, hi) ==
  LET d == CollectKnownDowntime(snap.incidents, lo, hi)
  IN  [known |-> d.seconds, exact |-> d.exact /\ snap.backupOk]

(* A service that cannot be measured, or whose maintenance is not known,   *)
(* has no counted downtime.                                                *)
Source(service, adjustment) ==
  LET usable == service.known # None /\ adjustment # None
  IN  [counted |-> IF usable THEN adjustment.counted ELSE None,
       exact   |-> usable /\ service.exact /\ adjustment.exact]

SourceFor(s, snap, adjustments, lo, hi) ==
  Source(IF s = "overall" THEN BuildOverall(snap, lo, hi)
         ELSE BuildIncidentService(s, snap, lo, hi),
         IF adjustments = None THEN None ELSE adjustments[s])

(* state and how much of the budget is left, in the unit of "allowed".     *)
Budget(src, allowed) ==
  IF src.counted = None THEN [state |-> "data_unavailable", left |-> None]
  ELSE [state |-> IF 100 * src.counted >= allowed THEN "exhausted"
                  ELSE IF src.exact THEN "within_budget" ELSE "coverage_unknown",
        left |-> MaxOf(0, allowed - 100 * src.counted)]

BuildReliabilitySloBudgets(snap, pol, adjustments, lo, hi) ==
  [s \in Services |->
     IF pol = None THEN [state |-> "data_unavailable", left |-> None]
     ELSE IF ~Configured(pol[s]) THEN [state |-> "unconfigured", left |-> None]
     ELSE Budget(SourceFor(s, snap, adjustments, lo, hi), (hi - lo) * (100 - pol[s].target))]

----------------------------------------------------------------------------
(* What the database answers at an instant.                                *)

(* The incident snapshot over a range: active incidents, and the recovered *)
(* ones whose start is proven.  Backup incidents are missing when their    *)
(* data cannot be read.                                                    *)
IncidentSnapshot(range, backupOk) ==
  [at |-> now, backupOk |-> backupOk,
   incidents |-> {i \in incidents :
                    /\ i.end = None \/ (i.exact /\ i.end >= now - range)
                    /\ i.entity.type = "backup" => backupOk}]

(* The windows that touch the range or are still to come; a listing that   *)
(* fills every page is refused as incomplete.                              *)
MaintenanceWindows(lo, at) ==
  LET rows == {windows[k] : k \in {x \in Key : windows[x] # None /\ windows[x].ends > lo}}
  IN  IF Cardinality(rows) >= WindowRows THEN None
      ELSE {w \in rows : \/ w.starts > at
                         \/ MinOf(w.ends, IF w.cancelled = None THEN w.ends ELSE w.cancelled) > lo}

(* The budgets of a page: ws is None when the windows could not be read.   *)
GetReliabilitySnapshot(backupOk, ws) ==
  LET lo == now - PageRange
      snap == IncidentSnapshot(PageRange, backupOk)
      adjustments == IF ws = None THEN None
                     ELSE BuildReliabilityMaintenanceAdjustments(snap.incidents, ws, lo, now)
  IN  BuildReliabilitySloBudgets(snap, policy, adjustments, lo, now)

----------------------------------------------------------------------------
(* Reference: downtime instant by instant.                                 *)

Covered(i, lo, hi) == MaxOf(i.start, lo) .. (IF i.end = None THEN hi ELSE MinOf(i.end, hi)) - 1

Excluded(ws, i, t) ==
  \E w \in ws : /\ AppliesToIncident(w, i)
                /\ w.starts <= t /\ t < w.ends
                /\ w.cancelled = None \/ t < w.cancelled

(* The incidents of a service known at an instant: all but those that      *)
(* ended by then without a proven start, of which nothing is recorded.     *)
Known(s, at) ==
  {i \in Scoped(s, incidents) : i.exact \/ i.end = None \/ i.end > at}

CountedInstants(s, ws, lo, hi) ==
  Cardinality(UNION {{t \in Covered(i, lo, hi) : ~Excluded(ws, i, t)} : i \in Known(s, hi)})

WindowSet == {windows[k] : k \in {x \in Key : windows[x] # None}}

(* The burn that the alert policy calls for at an instant.                 *)
Burning(s, ws, p, at) ==
  LET Over(k, tenths) ==
        1000 * CountedInstants(s, ws, at - BurnWindows[k], at)
          >= tenths * BurnWindows[k] * (100 - p.target)
  IN  (Over(1, 144) /\ Over(2, 60)) \/ (Over(2, 60) /\ Over(3, 30))

----------------------------------------------------------------------------
(* A reconcile request: idle, reading, or applying the states it computed. *)
(* "burning" is what the reference above says of the same input, TRUE also *)
(* when input is missing: only the properties read it.                     *)
NoRun == [pc |-> "idle", snap |-> None, pol |-> None, win |-> None,
         read |-> {}, at |-> 0, rates |-> None, burning |-> None, next |-> 1]

(* The policies are all alike.  Nothing has happened yet or, with an SLO   *)
(* set, an outage that lasted until now has raised the alert it calls for. *)
Outage(e) == [entity |-> e, start |-> 0 - BurnWindows[2], end |-> 0, exact |-> TRUE, oom |-> FALSE]

ReliabilityInit ==
  /\ now = 0
  /\ policy \in {[s \in Services |-> p] : p \in Policies}
  /\ incidents \in {{}} \cup {{Outage(e)} :
                    e \in {x \in Entities : \A s \in Services : Configured(policy[s])}}
  /\ windows = [k \in Key |-> None]
  /\ signal = [s \in Services |->
       IF Scoped(s, incidents) # {}
       THEN [active |-> TRUE, severity |-> "critical", opened |-> 0, seen |-> 0]
       ELSE None]
  /\ recon = [r \in Reconciler |-> NoRun]
  /\ events = 0
  /\ faults = 0

(* The reads of a run are given up after seconds: no unit passes.          *)
ReliabilityTick ==
  /\ now < MaxTime
  /\ \A r \in Reconciler : recon[r].pc # "reading"
  /\ now' = now + 1
  /\ UNCHANGED <<incidents, windows, policy, signal, recon, events, faults>>

----------------------------------------------------------------------------
(* Incidents, as the monitoring pipeline reports them.                     *)

(* A change from outside, within the bound.                                *)
Happens == events < MaxEvents /\ events' = events + 1

IncidentOpens(e, exact, oom) ==
  /\ Happens
  /\ \A i \in Active(incidents) : i.entity # e
  /\ oom => e.type = "container"
  /\ incidents' = incidents \cup
       {[entity |-> e, start |-> now, end |-> None, exact |-> exact, oom |-> oom]}
  /\ UNCHANGED <<now, windows, policy, signal, recon, faults>>

IncidentRecovers(i) ==
  /\ i.end = None
  /\ i.start < now
  /\ incidents' = (incidents \ {i}) \cup {[i EXCEPT !.end = now]}
  /\ UNCHANGED <<now, windows, policy, signal, recon, events, faults>>

----------------------------------------------------------------------------
(* Administrators.                                                         *)

(* The route and the function both bound the interval.  A repeated key     *)
(* answers with the window it made, or with a conflict: nothing changes.   *)
MayCreate(starts, ends) ==
  /\ ends > starts
  /\ ends - starts <= MaxDuration
  /\ starts >= now - Grace
  /\ starts <= now + MaxAhead

CreateReliabilityMaintenanceWindow(k, t, starts, ends) ==
  /\ Happens
  /\ MayCreate(starts, ends)
  /\ windows[k] = None
  /\ windows' = [windows EXCEPT ![k] =
       [target |-> t, starts |-> starts, ends |-> ends, cancelled |-> None]]
  /\ UNCHANGED <<now, incidents, policy, signal, recon, faults>>

(* Cancelling again returns the window as it is; an ended one is refused.  *)
CancelReliabilityMaintenanceWindow(k) ==
  /\ Happens
  /\ windows[k] # None
  /\ windows[k].cancelled = None
  /\ windows[k].ends > now
  /\ windows' = [windows EXCEPT ![k].cancelled = now]
  /\ UNCHANGED <<now, incidents, policy, signal, recon, faults>>

UpdateReliabilitySloPolicy(s, p) ==
  /\ Happens
  /\ p.enabled => p.target # None
  /\ p # policy[s]
  /\ policy' = [policy EXCEPT ![s] = p]
  /\ UNCHANGED <<now, incidents, windows, signal, recon, faults>>

----------------------------------------------------------------------------
(* The reconciler.  A cron job posts a request every minute and does not   *)
(* wait for the previous one, so the applying of two runs may overlap; the *)
(* reads are over by then.  The three reads of a snapshot run side by side *)
(* and changes may fall between them.                                      *)

Kick(r) ==
  /\ recon[r].pc = "idle"
  /\ \A x \in Reconciler : recon[x].pc # "reading"
  /\ Happens
  /\ recon' = [recon EXCEPT ![r] = [NoRun EXCEPT !.pc = "reading"]]
  /\ UNCHANGED <<now, incidents, windows, policy, signal, faults>>

(* A run whose last read is back computes the states of all services.      *)
Evaluated(run) ==
  IF run.read # {"incidents", "policies", "windows"} THEN run
  ELSE [NoRun EXCEPT !.pc = "applying", !.at = run.snap.at,
          !.rates = BuildReliabilityBurnRates(run.snap, run.pol, run.win),
          !.burning = [s \in Services |->
             \/ run.pol = None \/ run.win = None
             \/ /\ Configured(run.pol[s])
                /\ Burning(s, run.win, run.pol[s], run.snap.at)]]

Reads(r, what, ok) ==
  /\ recon[r].pc = "reading"
  /\ what \notin recon[r].read
  /\ ~ok => faults < MaxFaults
  /\ faults' = faults + (IF ok THEN 0 ELSE 1)
  /\ UNCHANGED <<now, incidents, windows, policy, signal, events>>

(* Without backup data the incidents are still a snapshot.                 *)
ReadIncidents(r, backupOk) ==
  /\ Reads(r, "incidents", backupOk)
  /\ recon' = [recon EXCEPT ![r] = Evaluated([@ EXCEPT !.read = @ \cup {"incidents"},
                 !.snap = IncidentSnapshot(BurnWindows[3], backupOk)])]

ReadPolicies(r, ok) ==
  /\ Reads(r, "policies", ok)
  /\ recon' = [recon EXCEPT ![r] = Evaluated([@ EXCEPT !.read = @ \cup {"policies"},
                 !.pol = IF ok THEN policy ELSE None])]

ReadWindows(r, ok) ==
  /\ Reads(r, "windows", ok)
  /\ recon' = [recon EXCEPT ![r] = Evaluated([@ EXCEPT !.read = @ \cup {"windows"},
                 !.win = IF ok THEN MaintenanceWindows(now - BurnWindows[3], now)
                         ELSE None])]

(* What a state asks of the signal: nothing when it proves nothing.        *)
SignalDecision(state) ==
  CASE state \in {"critical", "warning"} -> [apply |-> TRUE, active |-> TRUE, severity |-> state]
    [] state \in {"healthy", "unconfigured"} ->
         [apply |-> TRUE, active |-> FALSE, severity |-> "warning"]
    [] OTHER -> [apply |-> FALSE, active |-> FALSE, severity |-> "warning"]

(* The signal after an assessment made at "at".  An older one than the     *)
(* last that was seen changes nothing; neither does a quiet one for a      *)
(* signal that is not active.  A change of severity keeps the opening.     *)
SignalAfter(sig, d, at) ==
  CASE sig # None /\ at < sig.seen -> sig
    [] (sig = None \/ at >= sig.seen) /\ d.active ->
         [active |-> TRUE, severity |-> d.severity, seen |-> at,
          opened |-> IF sig # None /\ sig.active THEN sig.opened ELSE at]
    [] OTHER -> IF sig # None /\ sig.active
                THEN [sig EXCEPT !.active = FALSE, !.seen = at]
                ELSE sig

(* The services follow in order; the signal of each is applied in a call   *)
(* of its own.                                                             *)
Decision(r) == SignalDecision(recon[r].rates[ServiceIds[recon[r].next]])

Signalled(r) ==
  [signal EXCEPT ![ServiceIds[recon[r].next]] = SignalAfter(@, Decision(r), recon[r].at)]

ApplySignal(r) ==
  /\ recon[r].pc = "applying"
  /\ signal' = IF Decision(r).apply THEN Signalled(r) ELSE signal
  /\ recon' = [recon EXCEPT ![r] = IF @.next = Len(ServiceIds) THEN NoRun
                                  ELSE [@ EXCEPT !.next = @ + 1]]
  /\ UNCHANGED <<now, incidents, windows, policy, events, faults>>

(* A failing call ends the run: the services after it are not assessed.    *)
(* The call may have taken effect before its answer was lost.              *)
ApplyFails(r, done) ==
  /\ recon[r].pc = "applying"
  /\ Decision(r).apply
  /\ faults < MaxFaults
  /\ signal' = IF done THEN Signalled(r) ELSE signal
  /\ recon' = [recon EXCEPT ![r] = NoRun]
  /\ faults' = faults + 1
  /\ UNCHANGED <<now, incidents, windows, policy, events>>

----------------------------------------------------------------------------
ReliabilityNext ==
  \/ ReliabilityTick
  \/ \E e \in Entities, exact, oom \in BOOLEAN : IncidentOpens(e, exact, oom)
  \/ \E i \in incidents : IncidentRecovers(i)
  \/ \E k \in Key, t \in Targets, a, b \in (0 - Grace) .. (MaxTime + 1) :
       CreateReliabilityMaintenanceWindow(k, t, a, b)
  \/ \E k \in Key : CancelReliabilityMaintenanceWindow(k)
  \/ \E s \in Services, p \in Policies : UpdateReliabilitySloPolicy(s, p)
  \/ \E r \in Reconciler : Kick(r) \/ ApplySignal(r)
  \/ \E r \in Reconciler, ok \in BOOLEAN :
       \/ ReadIncidents(r, ok) \/ ReadPolicies(r, ok) \/ ReadWindows(r, ok)
       \/ ApplyFails(r, ok)

ReliabilitySpec == ReliabilityInit /\ [][ReliabilityNext]_reliabilityVars

----------------------------------------------------------------------------
(* Whatever could be read, a page that calls a budget exhausted or within  *)
(* bounds, or says what is left of it, agrees with the downtime counted    *)
(* instant by instant: overlapping incidents count once, each is excused   *)
(* only by the windows of its own scope and only where they cover it, and  *)
(* an outage of unknown start is never taken for none                      *)
(* (buildReliabilitySloBudgets).                                           *)
BudgetsAreHonest ==
  LET counted == [s \in Services |->
                    100 * CountedInstants(s, WindowSet, now - PageRange, now)]
      Honest(budget, s) ==
        LET allowed == PageRange * (100 - policy[s].target)
        IN  CASE budget.state = "exhausted" -> counted[s] >= allowed
              [] budget.state = "within_budget" ->
                   counted[s] < allowed /\ budget.left = allowed - counted[s]
              [] OTHER -> TRUE
  IN  \A backupOk \in BOOLEAN, ws \in {WindowSet, None} :
        \A budgets \in {GetReliabilitySnapshot(backupOk, ws)} :
          \A s \in Services : Honest(budgets[s], s)

(* An alert ends only when its policy is off or the downtime, counted      *)
(* instant by instant with the policy and the windows the run had read, no *)
(* longer burns: not because backup data, policies or windows could not be *)
(* read, nor because an outage has no proven start, nor on a snapshot from *)
(* before the alert (reconcileReliabilityBurnNotifications).               *)
NoFalseRecovery ==
  [][\A s \in Services :
       (signal[s] # None /\ signal[s].active /\ ~signal'[s].active) =>
         \E r \in Reconciler :
           /\ recon[r].pc = "applying"
           /\ ServiceIds[recon[r].next] = s
           /\ ~recon[r].burning[s]
           /\ recon[r].at >= signal[s].opened]_signal

(* What maintenance excuses is settled once it is older than the grace: no *)
(* window made later reaches back to it, and cancelling one takes none of  *)
(* it away (create/cancel_reliability_maintenance_window).                 *)
PastIsSettled ==
  [][\A i \in incidents : \A t \in i.start .. (now - Grace - 1) :
       LET Excused(ws) == \E w \in ws : /\ AppliesToIncident(w, i)
                                        /\ EffectiveWindowInterval(w, t, t + 1) # {}
       IN  Excused(WindowSet) = Excused(WindowSet')]_windows
=============================================================================
