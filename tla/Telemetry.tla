----------------------------- MODULE Telemetry -----------------------------
(***************************************************************************)
(* The path of one host's measurements: the Metrics Bridge and Docker,     *)
(* the snapshot collector and its performance step, the agent, the         *)
(* network, the heartbeat API, and what the dashboard makes of the rows.   *)
(*                                                                         *)
(* Each hop has its own freshness check and its own validation of the same *)
(* values.  A value is modelled by the class the validations tell apart.   *)
(***************************************************************************)
EXTENDS Clock, Integers, Sequences, FiniteSets, FiniteSetsExt

CONSTANTS
  Drift,            \* how far the host's clock is ahead of the server's
  CollectMax,       \* the longest a collector run takes: the sum of its timeouts
  MetricsMaxAge,    \* MAX_METRICS_AGE_SECONDS of the performance step (45)
  SnapshotMaxAge,   \* maxDockerSnapshotAge of the agent (45)
  MaxClockSkew,     \* MAX_CLOCK_SKEW_SECONDS of the API (300)
  RateLimit,        \* the least distance of two heartbeats of a host (8)
  OnlineThreshold,  \* ONLINE_THRESHOLD_SECONDS (45)
  StaleThreshold,   \* STALE_THRESHOLD_SECONDS (180)
  MaxSends,         \* bound: heartbeats sent
  MaxChanges,       \* bound: containers stopped, started or removed
  MaxRuns           \* bound: collector runs

ASSUME TelemetryAssumption ==
  /\ Drift \in Int
  /\ \A c \in {CollectMax, MetricsMaxAge, SnapshotMaxAge, MaxClockSkew, RateLimit,
               OnlineThreshold, StaleThreshold, MaxTime, MaxSends, MaxChanges, MaxRuns} : c \in Nat
  /\ OnlineThreshold < StaleThreshold

VARIABLES
  docker,     \* the state of each container
  metrics,    \* metrics.json of the bridge
  collector,  \* the running collector, with the documents it inspected
  file,       \* docker-state.json
  net,        \* every heartbeat sent: it arrives never, once or again, at any later time
  rows,       \* agent_heartbeats with their samples, in the order they were stored
  changes, runs,
  \* History, for the properties only.
  refused,    \* the API called a heartbeat invalid
  down,       \* the times at whose end the host was shown as not online
  ran         \* when each container ran last

telemetryVars == <<now, docker, metrics, collector, file, net, rows, changes, runs, refused, down, ran>>

Container == {"velocity", "backend"}
State == {"running", "exited"}
HostClock == now + Drift   \* now is the server's
Idle == [pc |-> "idle"]

TelemetryInit ==
  /\ now = 0
  /\ docker \in [Container -> {"running"}]
  /\ metrics = None /\ collector = Idle /\ file = None
  /\ net = {} /\ rows = <<>>
  /\ changes = 0 /\ runs = 0
  /\ refused = FALSE /\ down = {} /\ ran = [c \in Container |-> 0]

-----------------------------------------------------------------------------
(* Values, and what each program along the path lets through. *)

\* docker stats: parsed, or one of the replies collect_stats refuses.
RawStats == {"ok", "usage_above_limit", "pids_above_int32", "unusable"}
\* Mutant: the PIDs are stored as docker stats prints them.
CollectStatsAnyPids(raw) ==
  IF raw = "ok" THEN "all" ELSE IF raw = "pids_above_int32" THEN raw ELSE "null"

\* Resource values as they may stand in a snapshot: all of them, none, or bad ones.
CollectStats(raw) == IF raw = "ok" THEN "all" ELSE "null"

\* container_metrics: only a running container has resource values.
ContainerMetrics(state, raw) ==
  [state |-> state, res |-> IF state = "running" THEN CollectStats(raw) ELSE "null"]

\* A Minecraft status reply, and what minecraft_status makes of it.
RawPing == {"ok", "online_above_max", "silent"}
MinecraftStatus(raw) == IF raw = "ok" THEN "up" ELSE "down"

\* One poll of Spark, and what the bridge writes of it.
RawSpark == {"ok", "disordered", "unavailable"}
Validated(raw) == raw = "ok"
\* metrics.json, replaced in one rename.
MetricsFile(raw) == [at |-> HostClock, value |-> raw]

\* parse_bridge_metrics, at the collector's time.
BridgeMetricsUsable(m) == m # None /\ HostClock - m.at <= MetricsMaxAge /\ m.value = "ok"

\* validateContainerResourceMetrics: all or none, and no bound on the PIDs.
AgentAcceptsResources(res) == res \in {"all", "null", "pids_above_int32"}
\* validateMinecraftEndpoint and validateMinecraftPerformance.
AgentAcceptsEndpoint(e) == e \in {"up", "down"}
AgentAcceptsPerformance(p) == p = None \/ p.value = "ok"

\* normalizeContainers and normalizeMinecraft: the whole heartbeat or nothing.
ApiAcceptsContainers(cs) == \A c \in DOMAIN cs : cs[c].res \in {"all", "null"}
ApiAcceptsMinecraft(mc) ==
  \/ mc = None
  \/ /\ {mc.public, mc.backend} \subseteq {"up", "down"}
     /\ mc.perf = None \/ mc.perf.value = "ok"

-----------------------------------------------------------------------------
(* The host *)

DockerChange(c, s) ==
  /\ changes < MaxChanges /\ s # docker[c]
  /\ docker' = [docker EXCEPT ![c] = s]
  /\ changes' = changes + 1
  /\ ran' = IF s = "running" THEN [ran EXCEPT ![c] = now] ELSE ran
  /\ UNCHANGED <<now, metrics, collector, file, net, rows, runs, refused, down>>

\* collectAndWriteSafely, inside the backend container.
BridgePoll(raw) ==
  /\ docker["backend"] = "running"
  /\ metrics' = IF Validated(raw) THEN MetricsFile(raw) ELSE metrics
  /\ UNCHANGED <<now, docker, collector, file, net, rows, changes, runs, refused, down, ran>>

CollectorFrame == UNCHANGED <<now, docker, metrics, net, rows, changes, refused, down, ran>>

\* docker inspect of every container; a failed inspect ends the run.
Inspect ==
  /\ collector = Idle /\ runs < MaxRuns
  /\ collector' = [pc |-> "inspected", since |-> now, docs |-> docker]
  /\ runs' = runs + 1
  /\ UNCHANGED file /\ CollectorFrame

\* The probe reaches the backend only through a network both containers share.
Probe(ping) ==
  [public  |-> IF docker["velocity"] = "running" THEN MinecraftStatus(ping) ELSE "down",
   backend |-> IF (\A c \in Container : collector.docs[c] = "running") /\ docker["backend"] = "running"
               THEN MinecraftStatus(ping) ELSE "down",
   perf |-> None]

\* docker stats and the pings follow; generatedAt is the time of the write.
WriteSnapshot(raw, ping) ==
  /\ collector.pc = "inspected"
  /\ file' = [at |-> HostClock, seen |-> collector.since,
              containers |-> [c \in Container |->
                ContainerMetrics(collector.docs[c], IF docker[c] = "running" THEN raw ELSE "unusable")],
              mc |-> Probe(ping)]
  /\ collector' = [pc |-> "written"]
  /\ UNCHANGED runs /\ CollectorFrame

\* The performance step of the same unit: cat in the container, then rewrite the
\* snapshot under its old generatedAt.  Any failure leaves the snapshot alone.
Augment ==
  /\ collector.pc = "written"
  /\ file' = IF docker["backend"] = "running" /\ BridgeMetricsUsable(metrics)
             THEN [file EXCEPT !.mc.perf = metrics] ELSE file
  /\ collector' = Idle
  /\ UNCHANGED runs /\ CollectorFrame

\* The unit fails: a command timed out, docker is down, the host is busy.
CollectorFails ==
  /\ collector # Idle
  /\ collector' = Idle
  /\ UNCHANGED <<file, runs>> /\ CollectorFrame

\* Mutant: a snapshot is used however old it is.
SnapshotAnyAge == file # None /\ \A c \in Container : AgentAcceptsResources(file.containers[c].res)

\* readDockerSnapshot: a snapshot too old or with a bad container counts as none.
SnapshotUsable ==
  /\ file # None
  /\ HostClock - file.at <= SnapshotMaxAge
  /\ \A c \in Container : AgentAcceptsResources(file.containers[c].res)

\* validateSnapshotMinecraft: a bad endpoint costs the probe, bad metrics only themselves.
SentMinecraft(mc) ==
  IF ~(AgentAcceptsEndpoint(mc.public) /\ AgentAcceptsEndpoint(mc.backend)) THEN None
  ELSE [mc EXCEPT !.perf = IF AgentAcceptsPerformance(mc.perf) THEN mc.perf ELSE None]

\* runOnce.  The agent never retries; the heartbeat is signed with a new nonce.
Send ==
  /\ Cardinality(net) < MaxSends
  /\ net' = net \cup
       {[nonce |-> Cardinality(net) + 1, sentAt |-> HostClock,
         containers |-> IF SnapshotUsable THEN file.containers ELSE <<>>,
         mc |-> IF SnapshotUsable THEN SentMinecraft(file.mc) ELSE None,
         seen |-> IF SnapshotUsable THEN file.seen ELSE 0]}
  /\ UNCHANGED <<now, docker, metrics, collector, file, rows, changes, runs, refused, down, ran>>

-----------------------------------------------------------------------------
(* The heartbeat API and the tables *)

\* parseHeartbeat and authenticateHeartbeat, whose timestamp is sentAt in seconds.
Fresh(m) == m.sentAt - now \in (-MaxClockSkew)..MaxClockSkew

\* Mutant: the nonce is not looked up.
PersistWithoutNonce(m) ==
  IF rows # <<>> /\ now - rows[Len(rows)].recv < RateLimit THEN "rate_limited" ELSE "accepted"

\* insert_agent_heartbeat_v3, under the lock of the host's row.
PersistResult(m) ==
  IF rows # <<>> /\ now - rows[Len(rows)].recv < RateLimit THEN "rate_limited"
  ELSE IF \E i \in DOMAIN rows : rows[i].nonce = m.nonce THEN "replayed_request"
  ELSE "accepted"

HeartbeatResult(m) ==
  IF ~(ApiAcceptsContainers(m.containers) /\ ApiAcceptsMinecraft(m.mc)) THEN "invalid_payload"
  ELSE IF ~Fresh(m) THEN "expired_request"
  ELSE PersistResult(m)

Stored(m) == [nonce |-> m.nonce, recv |-> now, seen |-> m.seen, mc |-> m.mc,
              states |-> [c \in DOMAIN m.containers |-> m.containers[c].state]]

Receive(m) ==
  /\ LET result == HeartbeatResult(m) IN
       /\ rows' = IF result = "accepted" THEN Append(rows, Stored(m)) ELSE rows
       /\ refused' = (refused \/ result = "invalid_payload")
  /\ UNCHANGED <<now, docker, metrics, collector, file, net, changes, runs, down, ran>>

-----------------------------------------------------------------------------
(* What the dashboard shows: getMonitoringSnapshot, getMinecraftOverview *)

\* The newest row, of those with containers or a probe; 0 for none.
Latest(S) == IF S = {} THEN 0 ELSE Max(S)
LatestContainers == Latest({i \in DOMAIN rows : rows[i].states # <<>>})
LatestProbe == Latest({i \in DOMAIN rows : rows[i].mc # None})

Age(i) == now - rows[i].recv
ByAge(i) == IF i = 0 \/ Age(i) > StaleThreshold THEN "offline"
            ELSE IF Age(i) > OnlineThreshold THEN "stale" ELSE "online"

HostStatus == ByAge(Len(rows))

\* determineContainerStatus of a container expected to run, whose health is none.
ContainerStatus(c) ==
  IF ByAge(LatestContainers) # "online" THEN ByAge(LatestContainers)
  ELSE IF rows[LatestContainers].states[c] = "running" THEN "online" ELSE "error"

Unavailable(c) ==
  \/ LatestContainers = 0
  \/ ContainerStatus(c) \in {"offline", "error"}
  \/ rows[LatestContainers].states[c] # "running"

\* determineMinecraftStatus, the published ports as configured.
MinecraftOverall ==
  IF LatestProbe = 0 \/ Age(LatestProbe) > StaleThreshold THEN "unknown"
  ELSE LET mc == rows[LatestProbe].mc IN
    IF (\E c \in Container : Unavailable(c)) \/ mc.public # "up" THEN "major_outage"
    ELSE IF mc.backend # "up" THEN "partial_outage"
    ELSE IF \E c \in Container : ContainerStatus(c) = "stale" THEN "degraded"
    ELSE "operational"

\* Mutant: only a gap longer than the offline threshold is recorded.
GapEventOffline(i) == i > 1 /\ rows[i].recv - rows[i - 1].recv > StaleThreshold

\* The gap a heartbeat ends, in the row of capture_host_monitoring_events.
GapEvent(i) == i > 1 /\ rows[i].recv - rows[i - 1].recv > OnlineThreshold

\* deriveRecoveredHostGaps: from the end of the tolerated age to the heartbeat.
RecoveredGaps ==
  {[from |-> rows[i].recv - (rows[i].recv - rows[i - 1].recv - OnlineThreshold),
    to |-> rows[i].recv] : i \in {k \in DOMAIN rows : GapEvent(k)}}

\* Time passes, at most CollectMax of it in one collector run.
TelemetryTick ==
  /\ now < MaxTime
  /\ collector.pc = "inspected" => now - collector.since < CollectMax
  /\ collector.pc # "written"
  /\ now' = now + 1
  /\ down' = IF rows # <<>> /\ HostStatus # "online" THEN down \cup {now} ELSE down
  /\ ran' = [c \in Container |-> IF docker[c] = "running" THEN now + 1 ELSE ran[c]]
  /\ UNCHANGED <<docker, metrics, collector, file, net, rows, changes, runs, refused>>

TelemetryNext ==
  \/ TelemetryTick
  \/ \E c \in Container, s \in State : DockerChange(c, s)
  \/ \E raw \in RawSpark : BridgePoll(raw)
  \/ Inspect
  \/ \E raw \in RawStats, ping \in RawPing : WriteSnapshot(raw, ping)
  \/ Augment
  \/ CollectorFails
  \/ Send
  \/ \E m \in net : Receive(m)

TelemetrySpec == TelemetryInit /\ [][TelemetryNext]_telemetryVars

-----------------------------------------------------------------------------
(* Properties *)

Perf == {None} \cup [at : Int, value : RawSpark]
Probed == {None} \cup [public : {"up", "down"}, backend : {"up", "down"}, perf : Perf]

TypeOK ==
  /\ now \in 0..MaxTime /\ docker \in [Container -> State]
  /\ metrics \in Perf /\ collector.pc \in {"idle", "inspected", "written"}
  /\ \A m \in net : m.nonce \in 1..Cardinality(net) /\ m.mc \in Probed
  /\ \A i \in DOMAIN rows :
       /\ rows[i].recv \in 0..now /\ rows[i].mc \in Probed
       /\ rows[i].states = <<>> \/ rows[i].states \in [Container -> State]
  /\ ran \in [Container -> 0..now]

\* A heartbeat is stored at most once, however often it arrives and however
\* late, never within the rate limit of another, and as one the dashboard can read.
StoredOnce ==
  /\ TypeOK
  /\ \A i, j \in DOMAIN rows : i < j =>
       /\ rows[i].nonce # rows[j].nonce
       /\ rows[j].recv - rows[i].recv >= RateLimit

\* Whatever Docker, the server ping and Spark answer, the API never refuses the
\* agent's heartbeat as invalid: a bad measurement costs itself, not the host's
\* sign of life.
BadMeasurementNeverCostsHeartbeat == ~refused

\* The longest way of a measurement from the container to a stored row.
Delay == CollectMax + SnapshotMaxAge + MaxClockSkew + Drift

\* Minecraft is shown operational only if both containers ran within the delay of
\* a measurement and the time the dashboard calls a row current; and performance
\* figures shown with a known status are no older than their hops allow together.
MeasurementsAreRecent ==
  /\ MinecraftOverall = "operational" =>
       \A c \in Container : now - ran[c] <= Delay + OnlineThreshold
  /\ MinecraftOverall # "unknown" /\ rows[LatestProbe].mc.perf # None =>
       now - (rows[LatestProbe].mc.perf.at - Drift)
         <= MetricsMaxAge + SnapshotMaxAge + MaxClockSkew + Drift + StaleThreshold

\* The host's recovered incidents and its current age account for exactly the
\* times it was shown as not online, from its first heartbeat on.
DowntimeIsAccounted ==
  down = (UNION {(g.from + 1)..(g.to - 1) : g \in RecoveredGaps})
         \cup (IF rows = <<>> THEN {} ELSE (rows[Len(rows)].recv + OnlineThreshold + 1)..(now - 1))
=============================================================================
