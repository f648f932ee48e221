----------------------------- MODULE Incidents -----------------------------
(***************************************************************************)
(* The monitoring events of one container, the incidents the Incident      *)
(* Center derives from them and the bands the history charts draw.         *)
(*                                                                         *)
(* Triggers write the events from samples and from changes of the row in   *)
(* container_expectations.  The two pages replay the events separately,    *)
(* over a window, preceded by the context that a third replay, in SQL,     *)
(* finds before the window.                                                *)
(***************************************************************************)
EXTENDS Integers, Sequences, SequencesExt

CONSTANTS
  None,             \* null
  Samples,          \* the samples a collector can report of the container
  Expectations,     \* values of container_expectations.expected_state
  MaintenanceLengths, \* how far ahead an operator sets the end of a maintenance
  OnlineThreshold,  \* ONLINE_THRESHOLD_SECONDS (45)
  StaleThreshold,   \* STALE_THRESHOLD_SECONDS (180)
  MaxTime,          \* bound: the clock
  MaxChanges        \* bound: changes of the expectation

State == {"running", "paused", "restarting", "created", "exited", "dead", "removing",
          "unknown", "not_found"}
Health == {"none", "healthy", "starting", "unhealthy", "unknown"}

ASSUME IncidentsAssumption ==
  /\ Samples \subseteq [state : State, health : Health, exit : Nat \cup {None},
                        oom : BOOLEAN, restarts : Nat]
  /\ Expectations \subseteq {None, "running", "stopped", "absent"} /\ Expectations # {}
  /\ MaintenanceLengths \subseteq Nat \ {0}
  /\ \A c \in {OnlineThreshold, StaleThreshold, MaxTime, MaxChanges} : c \in Nat

VARIABLES
  now,
  samples,   \* container_samples, in the order they were received
  row,       \* container_expectations: expected state, maintenance mode and end
  log,       \* monitoring_events: the index is the id
  changes

vars == <<now, samples, row, log, changes>>

Init ==
  /\ now = 0 /\ log = <<>> /\ changes = 0
  /\ \E s \in Samples : samples = <<s @@ [at |-> 0]>>   \* the first sample makes no event
  /\ row \in [expected : Expectations, mode : {FALSE}, until : {None}]

-----------------------------------------------------------------------------
(* Writing events *)

\* isMaintenanceActive, and its twins in the triggers.
Maintained(r, t) == r.mode /\ (r.until = None \/ r.until > t)

MayBeUp(expected) == expected \notin {"stopped", "absent"}
Nonzero(code) == code # None /\ code # 0

\* classify_container_monitoring_event_v2.
Classify(expected, type, from, to, maintained) ==
  CASE type \in {"maintenance_started", "maintenance_ended"} -> "info"
    [] type = "oom_killed" -> "critical"
    [] type \in {"state", "health", "exit", "restart"} /\ maintained -> "info"
    [] type = "restart" /\ ~maintained -> "warning"
    [] type = "health" /\ ~maintained ->
         IF ~MayBeUp(expected) THEN "info"
         ELSE IF to = "healthy" /\ from \in {"unhealthy", "starting", "unknown"} THEN "recovery"
         ELSE IF to = "unhealthy" THEN "critical"
         ELSE IF to \in {"starting", "unknown"} THEN "warning" ELSE "info"
    [] type = "exit" /\ ~maintained ->
         IF ~MayBeUp(expected) THEN "info"
         ELSE IF Nonzero(from) /\ to = 0 THEN "recovery"
         ELSE IF Nonzero(to) THEN "critical" ELSE "info"
    [] type = "state" /\ ~maintained ->
         IF expected = "stopped" THEN IF to = "running" THEN "warning" ELSE "info"
         ELSE IF expected = "absent" THEN IF to = "not_found" THEN "info" ELSE "warning"
         ELSE IF to = "running" THEN "recovery"
         ELSE IF to \in {"restarting", "paused", "created"} THEN "warning" ELSE "critical"

Event(at, key, type, sev, to, expected) ==
  [at |-> at, key |-> key, type |-> type, sev |-> sev, to |-> to, expected |-> expected]

\* The event of one changed column, if it changed.
Changed(type, from, to, differs) ==
  IF ~differs THEN <<>>
  ELSE <<Event(now, None, type, Classify(row.expected, type, from, to, Maintained(row, now)),
               to, row.expected)>>

\* capture_container_monitoring_events: the sample against the one before.
SampleEvents(p, s) ==
     Changed("state", p.state, s.state, s.state # p.state)
  \o Changed("health", p.health, s.health, s.health # p.health)
  \o Changed("restart", p.restarts, s.restarts, s.restarts > p.restarts)
  \o Changed("oom_killed", FALSE, TRUE, s.oom /\ ~p.oom)
  \o Changed("exit", p.exit, s.exit, s.exit # p.exit)

Latest == samples[Len(samples)]

\* A heartbeat with a sample; heartbeats of a host are some time apart.
Sample(s) ==
  /\ Latest.at < now
  /\ samples' = Append(samples, s @@ [at |-> now])
  /\ log' = log \o SampleEvents(Latest, s)
  /\ UNCHANGED <<now, row, changes>>

\* insert ... on conflict (event_key) do nothing.
Insert(l, e) == IF \E i \in DOMAIN l : l[i].key = e.key THEN l ELSE Append(l, e)

ExpiryEvent(r) ==
  Event(r.until, <<"maintenance-expiry", r.until>>, "maintenance_ended", "info", None, r.expected)

\* The row with its trigger capture_container_maintenance_event.
MaintenanceLog(old, new) ==
  LET ended == old.mode /\ old.until # None /\ old.until <= now /\ ~new.mode
      type == IF Maintained(new, now) THEN "maintenance_started" ELSE "maintenance_ended"
      l == IF ended THEN Insert(log, ExpiryEvent(old)) ELSE log
  IN IF Maintained(old, now) = Maintained(new, now) THEN l
     ELSE Insert(l, Event(now, <<"expectation-effective", now, type>>, type, "info", None,
                          new.expected))

\* An operator's update of the row.  The trigger is on the maintenance columns only.
SetMaintenance(mode, until) ==
  /\ changes < MaxChanges
  /\ row' = [row EXCEPT !.mode = mode, !.until = until]
  /\ row' # row
  /\ log' = MaintenanceLog(row, row')
  /\ changes' = changes + 1
  /\ UNCHANGED <<now, samples>>

SetExpected(expected) ==
  /\ changes < MaxChanges
  /\ expected # row.expected
  /\ row' = [row EXCEPT !.expected = expected]
  /\ changes' = changes + 1
  /\ UNCHANGED <<now, samples, log>>

\* capture_expired_container_maintenance_events, by pg_cron: an event in the past.
ExpireMaintenance ==
  /\ row.mode /\ row.until # None /\ row.until <= now
  /\ log' = Insert(log, ExpiryEvent(row))
  /\ UNCHANGED <<now, samples, row, changes>>

Tick ==
  /\ now < MaxTime
  /\ now' = now + 1
  /\ UNCHANGED <<samples, row, log, changes>>

Next ==
  \/ Tick
  \/ \E s \in Samples : Sample(s)
  \/ \E mode \in BOOLEAN, until \in {None} \cup {now + d : d \in MaintenanceLengths} :
       (until # None => mode) /\ SetMaintenance(mode, until)
  \/ \E e \in Expectations : SetExpected(e)
  \/ ExpireMaintenance

Spec == Init /\ [][Next]_vars

-----------------------------------------------------------------------------
(* Replaying events *)

Signals == {"state", "health", "exit"}
Opens(e) == e.type \in Signals /\ e.sev \in {"warning", "critical"}

\* resolvesSignal, of an event that does not open.
Resolves(e) ==
  /\ e.type \in Signals /\ ~Opens(e)
  /\ \/ e.sev = "recovery"
     \/ e.type = "health" /\ e.to = "healthy"
     \/ e.type = "exit" /\ e.to = 0
     \/ e.type = "state" /\ e.expected = "stopped" /\ e.to \in {"exited", "created"}
     \/ e.type = "state" /\ e.expected = "absent" /\ e.to = "not_found"
     \/ e.type = "state" /\ MayBeUp(e.expected) /\ e.to = "running"

Worst(sevs) == IF "critical" \in sevs THEN "critical" ELSE "warning"

\* eventByEntity: by time, then by id.  A view of the log is the set of ids it has.
Before(i, j) == log[i].at < log[j].at \/ (log[i].at = log[j].at /\ i < j)
InOrder(ids) == LET seq == SelectSeq([i \in DOMAIN log |-> i], LAMBDA i : i \in ids)
                IN SortSeq(seq, Before)
Events(ids) == LET seq == InOrder(ids) IN [k \in DOMAIN seq |-> log[seq[k]]]

From(t) == {i \in DOMAIN log : log[i].at >= t}

\* Mutant: the context starts at the first signal still open, not at its episode.
ContextFromOpener(t) ==
  LET past == {i \in DOMAIN log : log[i].at < t /\ log[i].type \in Signals}
      Resolver(i) == {j \in past : Before(i, j) /\ log[j].type = log[i].type /\ Resolves(log[j])}
      open == {i \in past : Opens(log[i]) /\ Resolver(i) = {}}
  IN {i \in past : \E o \in open : o = i \/ Before(o, i)}

\* get_monitoring_incident_context_v1: if a signal is open at t, every signal event
\* from the start of the chain of overlapping signals it belongs to.
Context(t) ==
  LET past == {i \in DOMAIN log : log[i].at < t /\ log[i].type \in Signals}
      Resolvers(i) == {j \in past : Before(i, j) /\ log[j].type = log[i].type /\ Resolves(log[j])}
      End(i) == IF Resolvers(i) = {} THEN t
                ELSE log[CHOOSE j \in Resolvers(i) : \A k \in Resolvers(i) : j = k \/ Before(j, k)].at
      \* signal_episodes: of the openers with the same resolver, the first.
      first == {i \in past : /\ Opens(log[i])
                             /\ ~ \E j \in past : /\ Opens(log[j]) /\ Before(j, i)
                                                  /\ log[j].type = log[i].type
                                                  /\ Resolvers(j) = Resolvers(i)}
      starts == {i \in first : \A j \in first : Before(j, i) => End(j) < log[i].at}
      active == {i \in starts : \E o \in first :
                   /\ Resolvers(o) = {} /\ (o = i \/ Before(i, o))
                   /\ ~ \E j \in starts : Before(i, j) /\ (j = o \/ Before(j, o))}
  IN {i \in past : \E s \in active : s = i \/ Before(s, i)}

\* mergeUniqueEvents, over a window that starts at t.
Window(t) == Context(t) \cup From(t)

\* One event of deriveRecoveredContainerIncidents.
NoEpisode == [signals |-> {}, start |-> None, sev |-> "warning", expected |-> None, recovered |-> {}]

RecoverStep(acc, e) ==
  LET a == [IF e.expected # acc.expected
            THEN [NoEpisode EXCEPT !.recovered = acc.recovered] ELSE acc
            EXCEPT !.expected = e.expected]
      left == a.signals \ {e.type}
  IN IF Opens(e)
     THEN [a EXCEPT !.signals = @ \cup {e.type},
                    !.start = IF @ = None THEN e.at ELSE @,
                    !.sev = IF a.start = None THEN e.sev ELSE Worst({@, e.sev})]
     ELSE IF ~(Resolves(e) /\ e.type \in a.signals) THEN a
     ELSE IF left # {} THEN [a EXCEPT !.signals = left]
     ELSE [NoEpisode EXCEPT !.expected = a.expected,
             !.recovered = a.recovered \cup {[from |-> a.start, to |-> e.at, sev |-> a.sev]}]

\* deriveRecoveredContainerIncidents: those that ended since t.
Recovered(ids, t) ==
  {r \in FoldLeft(RecoverStep, NoEpisode, Events(ids)).recovered : r.to >= t}

\* Mutant: a resolved signal stays in the map.
OpenStepKeeps(acc, e) ==
  LET a == IF e.expected # acc.expected THEN [sig |-> <<>>, expected |-> e.expected] ELSE acc
  IN IF Opens(e) /\ e.type \notin DOMAIN a.sig
     THEN [a EXCEPT !.sig = (e.type :> [at |-> e.at, sev |-> e.sev, expected |-> e.expected]) @@ @]
     ELSE a

\* deriveOpenSignals: the event that opened each signal, and the worst since.
OpenStep(acc, e) ==
  LET a == IF e.expected # acc.expected THEN [sig |-> <<>>, expected |-> e.expected] ELSE acc
  IN IF Opens(e)
     THEN [a EXCEPT !.sig =
            (e.type :> IF e.type \in DOMAIN @
                       THEN [@[e.type] EXCEPT !.sev = Worst({@, e.sev})]
                       ELSE [at |-> e.at, sev |-> e.sev, expected |-> e.expected]) @@ @]
     ELSE IF Resolves(e) THEN [a EXCEPT !.sig = Restrict(@, DOMAIN @ \ {e.type})] ELSE a

OpenSignals(ids) == FoldLeft(OpenStep, [sig |-> <<>>, expected |-> None], Events(ids)).sig

-----------------------------------------------------------------------------
(* The container as it is shown, with its active incident *)

\* determineContainerStatus.
Age == now - Latest.at
ContainerStatus ==
  LET s == Latest IN
  IF Age > StaleThreshold THEN "offline"
  ELSE IF Age > OnlineThreshold THEN "stale"
  ELSE IF Maintained(row, now) THEN "maintenance"
  ELSE CASE row.expected = "stopped" -> IF s.state \in {"exited", "created"} THEN "standby" ELSE "error"
         [] row.expected = "absent" -> IF s.state = "not_found" THEN "standby" ELSE "error"
         [] row.expected = "running" ->
              IF s.oom \/ s.health = "unhealthy"
                 \/ s.state \in {"dead", "exited", "created", "removing", "not_found", "unknown"}
              THEN "error"
              ELSE IF s.state # "running" \/ s.health \in {"starting", "unknown"} THEN "stale"
              ELSE "online"
         [] row.expected = None ->
              IF s.oom \/ s.health = "unhealthy" \/ s.state = "dead" THEN "error"
              ELSE IF s.state \in {"restarting", "paused"} \/ s.health = "starting" THEN "stale"
              ELSE IF s.state = "running" THEN "online" ELSE "offline"

\* currentStateIsIncident and currentHealthIsIncident.
StateIsIncident(s, expected) ==
  CASE expected = "stopped" -> s.state \notin {"exited", "created"}
    [] expected = "absent" -> s.state # "not_found"
    [] OTHER -> s.state # "running"
HealthIsIncident(s, expected) ==
  /\ MayBeUp(expected)
  /\ s.health \in {"unhealthy", "starting"} \/ (s.health = "unknown" /\ expected = "running")

\* deriveActiveContainerIncidents.
IncidentShown ==
  /\ ContainerStatus \in {"error", "stale", "offline"}
  /\ ~Maintained(row, now)

\* The open signals that explain what is shown, and the last OOM.
Candidates(ids) ==
  LET open == OpenSignals(ids)
      Explains(g) == /\ g \in DOMAIN open /\ open[g].expected = row.expected
                     /\ \/ g = "state" /\ StateIsIncident(Latest, row.expected)
                        \/ g = "health" /\ HealthIsIncident(Latest, row.expected)
      ooms == SelectSeq(Events(ids), LAMBDA e : e.type = "oom_killed")
  IN {[signal |-> g, at |-> open[g].at, sev |-> open[g].sev] : g \in {h \in Signals : Explains(h)}}
     \cup IF Latest.oom /\ ooms # <<>>
          THEN {[signal |-> "oom", at |-> ooms[Len(ooms)].at, sev |-> "critical"]} ELSE {}

ExactStart(ids) == Candidates(ids) # {}
StartedAt(ids) == CHOOSE t \in {c.at : c \in Candidates(ids)} : \A c \in Candidates(ids) : t <= c.at

-----------------------------------------------------------------------------
(* The bands of the history charts: history-status-overlays.ts *)

Kind(sev) == IF sev = "critical" THEN "error" ELSE "stale"
Strongest(sig) ==
  LET kinds == {sig[g] : g \in DOMAIN sig}
  IN IF "error" \in kinds THEN "error" ELSE IF kinds # {} THEN "stale" ELSE None

\* The bands after an event: kept are the signals of the same expectation.
BandAfter(acc, e, kept, resolves) ==
  LET sig == IF Opens(e) THEN (e.type :> Kind(e.sev)) @@ kept
             ELSE IF resolves THEN Restrict(kept, DOMAIN kept \ {e.type}) ELSE kept
      was == Strongest(acc.sig)
      is == Strongest(sig)
  IN [sig |-> sig, expected |-> e.expected,
      start |-> IF was = is THEN acc.start ELSE IF is = None THEN None ELSE e.at,
      bands |-> IF was = is \/ was = None THEN acc.bands
                ELSE acc.bands \cup {[from |-> acc.start, to |-> e.at, kind |-> was]}]

\* Mutant: only the value an event leads to resolves a signal, not its severity.
BandStepByValue(acc, e) ==
  BandAfter(acc, e, IF e.expected # acc.expected THEN <<>> ELSE acc.sig,
            Resolves(e) /\ e.sev # "recovery")

\* One event of containerIncidentRegions.
BandStep(acc, e) ==
  BandAfter(acc, e, IF e.expected # acc.expected THEN <<>> ELSE acc.sig, Resolves(e))

NoBands == [sig |-> <<>>, expected |-> None, start |-> None, bands |-> {}]

Smaller(a, b) == IF a < b THEN a ELSE b

\* containerIncidentRegions: the closed bands, the one still open, and the fallback
\* of a container in error that no band reaches.
IncidentRegions(ids) ==
  LET acc == FoldLeft(BandStep, NoBands, Events(ids))
      end == CASE ContainerStatus = "error" -> now
               [] ContainerStatus \in {"stale", "offline"} -> Smaller(now, Latest.at + OnlineThreshold)
               [] OTHER -> 0
      tail == IF acc.start = None \/ Maintained(row, now) THEN {}
              ELSE {[from |-> acc.start, to |-> end, kind |-> Strongest(acc.sig)]}
      covered == \E r \in acc.bands \cup tail : r.kind = "error" /\ r.to = now
  IN acc.bands \cup tail
     \cup IF ContainerStatus = "error" /\ ~Maintained(row, now) /\ ~covered
          THEN {[from |-> Latest.at, to |-> now, kind |-> "error"]} ELSE {}

\* containerFreshnessRegions.
FreshnessRegions ==
  LET stale == Latest.at + OnlineThreshold
      offline == Latest.at + StaleThreshold
  IN CASE ContainerStatus = "stale" -> {[from |-> stale, to |-> now, kind |-> "stale"]}
       [] ContainerStatus = "offline" ->
            {[from |-> stale, to |-> Smaller(offline, now), kind |-> "stale"],
             [from |-> offline, to |-> now, kind |-> "offline"]}
       [] OTHER -> {}

\* maintenanceRegions, over the window's own events.
MaintenanceStep(acc, e) ==
  CASE e.type = "maintenance_started" -> [acc EXCEPT !.start = IF @ = None THEN e.at ELSE @]
    [] e.type = "maintenance_ended" ->
         [acc EXCEPT !.start = None,
                     !.bands = @ \cup {[from |-> IF acc.start = None THEN acc.rangeStart ELSE acc.start,
                                        to |-> e.at, kind |-> "maintenance"]}]
    [] OTHER -> acc
MaintenanceRegions(t) ==
  LET acc == FoldLeft(MaintenanceStep, [start |-> None, rangeStart |-> t, bands |-> {}],
                      Events(From(t)))
  IN acc.bands
     \cup IF Maintained(row, now)
          THEN {[from |-> IF acc.start = None THEN t ELSE acc.start, to |-> now, kind |-> "maintenance"]}
          ELSE {}

\* createRegion clips the regions to the window; mergeRegions joins those of a kind
\* that touch.  What is left of them is the instants each kind covers.
Overlay(ids, t) ==
  LET regions == IncidentRegions(ids) \cup FreshnessRegions \cup MaintenanceRegions(t)
  IN [kind \in {"stale", "offline", "error", "maintenance"} |->
        UNION {{u \in r.from..(r.to - 1) : t <= u} : r \in {q \in regions : q.kind = kind}}]

-----------------------------------------------------------------------------
(* Properties *)

TypeOK ==
  /\ now \in 0..MaxTime /\ changes \in 0..MaxChanges
  /\ row.expected \in Expectations /\ row.mode \in BOOLEAN /\ row.until \in {None} \cup Nat
  /\ \A i \in DOMAIN samples : samples[i].at \in 0..now /\ samples[i].state \in State
  /\ \A i \in DOMAIN log : log[i].at \in 0..now /\ log[i].sev \in {"info", "warning", "critical", "recovery"}

\* Wherever the window starts, the context the database finds before it makes the
\* Incident Center report the same recovered incidents and open signals as a replay
\* of every signal event since the beginning would.
ContextReplaysHistory ==
  /\ TypeOK
  /\ \A t \in 0..now :
       LET all == From(t) \cup {i \in DOMAIN log : log[i].type \in Signals}
           window == Window(t)
       IN window # all => /\ Recovered(window, t) = Recovered(all, t)
                          /\ OpenSignals(window) = OpenSignals(all)

\* The charts agree with the Incident Center: a recovered incident is covered by
\* bands from its start to its end, and an active one from its exact start to now.
OverlayAgreesWithIncidents ==
  \A t \in 0..now :
    LET ids == Window(t)
        overlay == Overlay(ids, t)
        marked == overlay["stale"] \cup overlay["error"] \cup overlay["offline"]
    IN /\ \A r \in Recovered(ids, t) :
            /\ {u \in r.from..(r.to - 1) : t <= u} \subseteq marked
            /\ r.sev = "critical" /\ r.from >= t /\ r.from < r.to =>
                 \E u \in r.from..(r.to - 1) : u \in overlay["error"]
       /\ IncidentShown /\ ExactStart(ids) /\ (\A c \in Candidates(ids) : c.signal # "oom") =>
            {u \in StartedAt(ids)..(now - 1) : t <= u} \subseteq marked

\* The container was in the state or the health of an incident in every sample since
\* the start that the Incident Center gives as exact.
AbnormalSince(t) ==
  \A i \in DOMAIN samples : samples[i].at >= t =>
    \/ StateIsIncident(samples[i], row.expected)
    \/ HealthIsIncident(samples[i], row.expected)
    \/ samples[i].oom

\* An exact start is true, of a container whose health check was never taken away.
ExactStartIsTrue ==
  IncidentShown /\ ExactStart(DOMAIN log) /\ (\A i \in DOMAIN samples : samples[i].health # "none")
    => AbnormalSince(StartedAt(DOMAIN log))
=============================================================================
