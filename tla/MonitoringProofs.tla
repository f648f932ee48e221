-------------------------- MODULE MonitoringProofs --------------------------
(***************************************************************************)
(* Proofs about the models of the monitoring pages.                        *)
(*                                                                         *)
(* Telemetry: for any delays, thresholds and clock drift, any number of    *)
(* heartbeats and any way they arrive.  Every hop keeps what its freshness *)
(* check was about, so the checks add up along the path.                   *)
(*                                                                         *)
(* Reliability: for any services, entities, policies and windows.  What a  *)
(* window excuses of the past is changed by nothing that is done later.    *)
(*                                                                         *)
(* Backups: for any number of runs and reports, and any batch size.  An    *)
(* archive loses its marker only when its run is stored as a success.      *)
(***************************************************************************)
EXTENDS Telemetry, Reliability, Backups, SequenceTheorems, FiniteSetTheorems, WellFoundedInduction,
        TLAPS

-----------------------------------------------------------------------------
(* Telemetry: the invariant *)

Measured == [state : State, res : {"all", "null"}]
GoodPerf == {None} \cup [at : Int, value : {"ok"}]
GoodProbe == [public : {"up", "down"}, backend : {"up", "down"}, perf : GoodPerf]
Snapshot == [at : Int, seen : Nat, containers : [Container -> Measured], mc : GoodProbe]
Collecting == {Idle, [pc |-> "written"]}
                \cup [pc : {"inspected"}, since : Nat, docs : [Container -> State]]
Heartbeat == [nonce : Nat, sentAt : Int, containers : {<<>>} \cup [Container -> Measured],
              mc : {None} \cup GoodProbe, seen : Nat]
HeartbeatRow == [nonce : Nat, recv : Nat, seen : Nat, mc : {None} \cup GoodProbe,
                 states : {<<>>} \cup [Container -> State]]

\* A container that runs has run until now.
HostInv ==
  /\ now \in 0..MaxTime
  /\ docker \in [Container -> State] /\ ran \in [Container -> 0..now]
  /\ \A c \in Container : docker[c] = "running" => ran[c] = now
  /\ metrics \in GoodPerf

\* What the collector and its file say of a container was so at "seen", not long ago.
FileIsGood ==
  /\ file \in Snapshot
  /\ file.at - Drift - file.seen <= CollectMax
  /\ \A c \in Container : file.containers[c].state = "running" => ran[c] >= file.seen
  /\ file.mc.perf # None => file.at - file.mc.perf.at <= MetricsMaxAge

FileInv == file # None => FileIsGood

CollectorInv ==
  /\ collector \in Collecting
  /\ collector.pc = "inspected" =>
       /\ collector.since <= now /\ now - collector.since <= CollectMax
       /\ \A c \in Container : collector.docs[c] = "running" => ran[c] >= collector.since
  /\ collector.pc = "written" => FileIsGood /\ file.at = HostClock

\* The age of what a heartbeat carries when it is sent, and of a row when it is stored.
NetInv ==
  /\ net \subseteq Heartbeat /\ IsFiniteSet(net)
  /\ \A m \in net :
       /\ m.nonce \in 1..Cardinality(net)
       /\ m.containers # <<>> =>
            /\ m.sentAt - Drift - m.seen <= CollectMax + SnapshotMaxAge
            /\ \A c \in Container : m.containers[c].state = "running" => ran[c] >= m.seen
       /\ m.mc # None /\ m.mc.perf # None => m.sentAt - m.mc.perf.at <= MetricsMaxAge + SnapshotMaxAge

RowsInv ==
  /\ rows \in Seq(HeartbeatRow)
  /\ \A i \in DOMAIN rows :
       /\ rows[i].recv <= now
       /\ rows[i].states # <<>> =>
            /\ rows[i].recv - rows[i].seen <= Delay
            /\ \A c \in Container : rows[i].states[c] = "running" => ran[c] >= rows[i].seen
       /\ rows[i].mc # None /\ rows[i].mc.perf # None =>
            rows[i].recv - (rows[i].mc.perf.at - Drift)
              <= MetricsMaxAge + SnapshotMaxAge + MaxClockSkew + Drift
  /\ \A i, j \in DOMAIN rows : i < j => /\ rows[i].nonce # rows[j].nonce
                                        /\ rows[j].recv - rows[i].recv >= RateLimit

TelemetryInv == HostInv /\ CollectorInv /\ FileInv /\ NetInv /\ RowsInv /\ ~refused

USE TelemetryAssumption DEF TelemetryAssumption

LEMMA TelemetryStart == TelemetryInit => TelemetryInv
<1> SUFFICES ASSUME TelemetryInit PROVE TelemetryInv
  OBVIOUS
<1>1. HostInv
  BY DEF TelemetryInit, HostInv, State, GoodPerf
<1>2. CollectorInv /\ FileInv
  BY DEF TelemetryInit, CollectorInv, FileInv, Collecting, Idle
<1>3. NetInv
  BY FS_EmptySet DEF TelemetryInit, NetInv
<1>4. RowsInv
  BY DEF TelemetryInit, RowsInv
<1>5. QED BY <1>1, <1>2, <1>3, <1>4 DEF TelemetryInv, TelemetryInit

-----------------------------------------------------------------------------
(* Telemetry: steps of the host *)

\* Containers run on and time passes: what was measured stays true.
LEMMA Later ==
  ASSUME TelemetryInv, HostInv', now <= now', \A c \in Container : ran[c] <= ran'[c]
  PROVE  /\ UNCHANGED file => FileInv' /\ (FileIsGood => FileIsGood')
         /\ UNCHANGED net => NetInv'
         /\ UNCHANGED rows => RowsInv'
<1> USE DEF TelemetryInv
<1>0. \A c \in Container : ran[c] \in Nat /\ ran'[c] \in Nat
  BY DEF HostInv
<1>1. ASSUME UNCHANGED file PROVE FileInv' /\ (FileIsGood => FileIsGood')
  <2>1. FileIsGood => FileIsGood'
    BY <1>0, <1>1 DEF FileIsGood, Snapshot
  <2>2. QED BY <1>1, <2>1 DEF FileInv
<1>2. ASSUME UNCHANGED net PROVE NetInv'
  <2>1. ASSUME NEW m \in net, m.containers # <<>>, NEW c \in Container,
               m.containers[c].state = "running"
        PROVE  ran'[c] >= m.seen
    <3>1. m.seen \in Nat /\ ran[c] >= m.seen
      BY <2>1 DEF NetInv, Heartbeat
    <3>2. QED BY <1>0, <3>1
  <2>2. QED BY <1>2, <2>1 DEF NetInv
<1>3. ASSUME UNCHANGED rows PROVE RowsInv'
  <2>1. \A i \in DOMAIN rows : rows[i] \in HeartbeatRow
    BY DEF RowsInv
  <2>2. \A i \in DOMAIN rows : rows[i].recv \in Nat /\ rows[i].seen \in Nat
    BY <2>1 DEF HeartbeatRow
  <2>3. now \in Nat /\ now' \in Nat
    BY DEF HostInv
  <2>4. ASSUME NEW i \in DOMAIN rows
        PROVE  /\ rows[i].recv <= now'
               /\ rows[i].states # <<>> =>
                    \A c \in Container : rows[i].states[c] = "running" => ran'[c] >= rows[i].seen
    <3>1. rows[i].recv <= now /\ (rows[i].states # <<>> =>
            \A c \in Container : rows[i].states[c] = "running" => ran[c] >= rows[i].seen)
      BY DEF RowsInv
    <3>2. rows[i].recv \in Nat /\ rows[i].seen \in Nat
      BY <2>2
    <3>3. rows[i].recv <= now'
      BY <2>3, <3>1, <3>2
    <3>4. ASSUME NEW c \in Container, ran[c] >= rows[i].seen PROVE ran'[c] >= rows[i].seen
      BY <1>0, <3>2, <3>4
    <3>5. QED BY <3>1, <3>3, <3>4
  <2>5. QED BY <1>3, <2>4 DEF RowsInv
<1>4. QED BY <1>1, <1>2, <1>3

\* A step of the host that takes no time, of which the database hears nothing.
LEMMA HostStep ==
  ASSUME TelemetryInv, HostInv', UNCHANGED <<now, net, rows, refused>>,
         \A c \in Container : ran[c] <= ran'[c],
         CollectorInv', FileInv'
  PROVE  TelemetryInv'
<1>1. now <= now'
  BY DEF TelemetryInv, HostInv
<1>2. QED BY <1>1, Later DEF TelemetryInv

LEMMA DockerChanges ==
  ASSUME TelemetryInv, NEW c \in Container, NEW s \in State, DockerChange(c, s)
  PROVE  TelemetryInv'
<1> USE DEF TelemetryInv
<1>1. HostInv'
  BY DEF HostInv, DockerChange
<1>2. \A d \in Container : ran[d] <= ran'[d] /\ ran[d] \in Nat /\ ran'[d] \in Nat
  BY DEF HostInv, DockerChange
<1>3. now <= now'
  BY DEF HostInv, DockerChange
<1>4. FileInv' /\ (FileIsGood => FileIsGood')
  BY <1>1, <1>2, <1>3, Later DEF DockerChange
<1>5. CollectorInv'
  BY <1>1, <1>2, <1>4 DEF CollectorInv, Collecting, Idle, DockerChange, HostClock
<1>6. QED BY <1>1, <1>2, <1>4, <1>5, HostStep DEF DockerChange

LEMMA BridgePolls ==
  ASSUME TelemetryInv, NEW raw \in RawSpark, BridgePoll(raw)
  PROVE  TelemetryInv'
<1> USE DEF TelemetryInv
<1>1. HostInv'
  BY DEF HostInv, BridgePoll, GoodPerf, MetricsFile, Validated, HostClock
<1>2. \A d \in Container : ran[d] <= ran'[d]
  BY DEF HostInv, BridgePoll
<1>3. CollectorInv' /\ FileInv'
  BY DEF BridgePoll, CollectorInv, FileInv, FileIsGood, HostClock
<1>4. QED BY <1>1, <1>2, <1>3, HostStep DEF BridgePoll

\* Steps of the collector leave everything but its file alone.
LEMMA CollectorStep ==
  ASSUME TelemetryInv, CollectorFrame, CollectorInv', FileInv'
  PROVE  TelemetryInv'
<1>1. HostInv' /\ \A d \in Container : ran[d] <= ran'[d]
  BY DEF TelemetryInv, HostInv, CollectorFrame
<1>2. QED BY <1>1, HostStep DEF CollectorFrame

LEMMA Inspects == ASSUME TelemetryInv, Inspect PROVE TelemetryInv'
<1> USE DEF TelemetryInv
<1>1. FileInv'
  BY DEF FileInv, FileIsGood, Inspect, CollectorFrame
<1>2. CollectorInv'
  BY DEF CollectorInv, Collecting, HostInv, Inspect, CollectorFrame
<1>3. QED BY <1>1, <1>2, CollectorStep DEF Inspect

LEMMA WritesSnapshot ==
  ASSUME TelemetryInv, NEW raw \in RawStats, NEW ping \in RawPing, WriteSnapshot(raw, ping)
  PROVE  TelemetryInv'
<1> USE DEF TelemetryInv
<1>1. /\ collector.since \in Nat /\ collector.docs \in [Container -> State]
      /\ collector.since <= now /\ now - collector.since <= CollectMax
      /\ \A c \in Container : collector.docs[c] = "running" => ran[c] >= collector.since
  BY DEF CollectorInv, Collecting, Idle, WriteSnapshot
<1>2. Probe(ping) \in GoodProbe /\ Probe(ping).perf = None
  BY DEF Probe, GoodProbe, GoodPerf, MinecraftStatus
<1>3. \A state \in State, r \in RawStats :
        ContainerMetrics(state, r) \in Measured /\ ContainerMetrics(state, r).state = state
  BY DEF ContainerMetrics, Measured, CollectStats
<1>4. file' \in Snapshot /\ file'.at = HostClock /\ file'.seen = collector.since /\ file'.mc.perf = None
      /\ \A c \in Container : file'.containers[c].state = collector.docs[c]
  <2>1. "unusable" \in RawStats
    BY DEF RawStats
  <2>2. HostClock \in Int
    BY DEF HostInv, HostClock
  <2>3. [c \in Container |-> ContainerMetrics(collector.docs[c],
                                IF docker[c] = "running" THEN raw ELSE "unusable")]
          \in [Container -> Measured]
    BY <1>1, <1>3, <2>1
  <2>4. QED BY <1>1, <1>2, <1>3, <2>1, <2>2, <2>3 DEF WriteSnapshot, Snapshot
<1>5. FileIsGood'
  BY <1>1, <1>4 DEF FileIsGood, WriteSnapshot, CollectorFrame, HostClock, HostInv
<1>6. CollectorInv'
  BY <1>4, <1>5 DEF CollectorInv, Collecting, WriteSnapshot, CollectorFrame, HostClock
<1>7. QED BY <1>5, <1>6, CollectorStep DEF FileInv, WriteSnapshot

LEMMA Augments == ASSUME TelemetryInv, Augment PROVE TelemetryInv'
<1> USE DEF TelemetryInv
<1>1. FileIsGood /\ file.at = HostClock
  BY DEF CollectorInv, Augment
<1>2. CASE UNCHANGED file
  <2>1. FileInv'
    BY <1>1, <1>2 DEF FileInv, FileIsGood, Augment, CollectorFrame
  <2>2. CollectorInv'
    BY DEF CollectorInv, Collecting, Idle, Augment
  <2>3. QED BY <2>1, <2>2, CollectorStep DEF Augment
<1>3. CASE BridgeMetricsUsable(metrics) /\ file' = [file EXCEPT !.mc.perf = metrics]
  <2>1. metrics \in GoodPerf /\ metrics # None /\ HostClock - metrics.at <= MetricsMaxAge
    BY <1>3 DEF HostInv, BridgeMetricsUsable
  <2>2. file.mc \in GoodProbe /\ [file.mc EXCEPT !.perf = metrics] \in GoodProbe
    BY <1>1, <2>1 DEF FileIsGood, Snapshot, GoodProbe
  <2>3. /\ file' = [file EXCEPT !.mc = [file.mc EXCEPT !.perf = metrics]]
        /\ file' \in Snapshot /\ file'.mc.perf = metrics
        /\ file'.at = file.at /\ file'.seen = file.seen /\ file'.containers = file.containers
    BY <1>1, <1>3, <2>2 DEF FileIsGood, Snapshot, GoodProbe
  <2>4. FileIsGood'
    BY <1>1, <2>1, <2>3 DEF FileIsGood, Augment, CollectorFrame
  <2>5. CollectorInv'
    BY DEF CollectorInv, Collecting, Idle, Augment
  <2>6. QED BY <2>4, <2>5, CollectorStep DEF Augment, FileInv
<1>4. QED BY <1>2, <1>3 DEF Augment

LEMMA Fails == ASSUME TelemetryInv, CollectorFails PROVE TelemetryInv'
<1>1. FileInv' /\ CollectorInv'
  BY DEF TelemetryInv, FileInv, FileIsGood, CollectorInv, Collecting, Idle, CollectorFails, CollectorFrame
<1>2. QED BY <1>1, CollectorStep DEF CollectorFails

LEMMA Ticks == ASSUME TelemetryInv, TelemetryTick PROVE TelemetryInv'
<1> USE DEF TelemetryInv
<1>1. /\ now \in Nat /\ now < MaxTime /\ now' = now + 1
      /\ docker' = docker /\ docker \in [Container -> State] /\ metrics' = metrics
      /\ ran' = [c \in Container |-> IF docker[c] = "running" THEN now + 1 ELSE ran[c]]
      /\ ran \in [Container -> 0..now]
  BY DEF HostInv, TelemetryTick
<1>2. \A c \in Container : ran[c] \in 0..now /\ ran'[c] \in 0..now'
                          /\ (docker[c] = "running" => ran'[c] = now')
                          /\ (docker[c] # "running" => ran'[c] = ran[c])
  BY <1>1
<1>3. HostInv'
  <2>1. ran' \in [Container -> 0..now']
    BY <1>1, <1>2
  <2>2. MaxTime \in Nat
    OBVIOUS
  <2>3. now' \in Nat /\ now' <= MaxTime
    BY <1>1, <2>2
  <2>4. QED BY <1>1, <1>2, <2>1, <2>3 DEF HostInv
<1>4. now <= now' /\ \A c \in Container : ran[c] <= ran'[c] /\ ran[c] \in Nat /\ ran'[c] \in Nat
  BY <1>1, <1>2
<1>5. FileInv' /\ NetInv' /\ RowsInv'
  BY <1>3, <1>4, Later DEF TelemetryTick
<1>6. CollectorInv'
  <2>1. now \in Nat /\ now' = now + 1 /\ collector' = collector /\ collector.pc # "written"
    BY DEF HostInv, TelemetryTick
  <2>2. ASSUME collector.pc = "inspected"
        PROVE  /\ collector.since <= now' /\ now' - collector.since <= CollectMax
               /\ \A c \in Container : collector.docs[c] = "running" => ran'[c] >= collector.since
    <3>1. collector.since \in Nat /\ now - collector.since < CollectMax
      BY <2>2 DEF CollectorInv, Collecting, Idle, TelemetryTick
    <3>2. QED BY <1>4, <2>1, <2>2, <3>1 DEF CollectorInv
  <2>3. QED BY <2>1, <2>2 DEF CollectorInv
<1>7. QED BY <1>3, <1>5, <1>6 DEF TelemetryTick

-----------------------------------------------------------------------------
(* Telemetry: a heartbeat is sent and received *)

\* The agent sends a good snapshot as it is, or none.
LEMMA SentSnapshot ==
  ASSUME TelemetryInv, SnapshotUsable
  PROVE  /\ file.containers \in [Container -> Measured] /\ file.seen \in Nat
         /\ SentMinecraft(file.mc) = file.mc /\ file.mc \in GoodProbe
         /\ HostClock - Drift - file.seen <= CollectMax + SnapshotMaxAge
         /\ \A c \in Container : file.containers[c].state = "running" => ran[c] >= file.seen
         /\ file.mc.perf # None => HostClock - file.mc.perf.at <= MetricsMaxAge + SnapshotMaxAge
<1> USE DEF TelemetryInv
<1>1. FileIsGood /\ HostClock - file.at <= SnapshotMaxAge
  BY DEF FileInv, SnapshotUsable
<1>2. file.containers \in [Container -> Measured] /\ file.seen \in Nat /\ file.at \in Int
      /\ file.mc \in GoodProbe /\ HostClock \in Int
  BY <1>1 DEF FileIsGood, Snapshot, HostInv, HostClock
<1>3. SentMinecraft(file.mc) = file.mc
  BY <1>2 DEF GoodProbe, GoodPerf, SentMinecraft, AgentAcceptsEndpoint, AgentAcceptsPerformance
<1>4. ASSUME file.mc.perf # None PROVE file.mc.perf.at \in Int
  BY <1>2, <1>4 DEF GoodProbe, GoodPerf
<1>5. CollectMax \in Nat /\ SnapshotMaxAge \in Nat /\ MetricsMaxAge \in Nat /\ Drift \in Int
  OBVIOUS
<1>6. QED BY <1>1, <1>2, <1>3, <1>4, <1>5 DEF FileIsGood

LEMMA Sends == ASSUME TelemetryInv, Send PROVE TelemetryInv'
<1> USE DEF TelemetryInv
<1> DEFINE new == [nonce |-> Cardinality(net) + 1, sentAt |-> HostClock,
                   containers |-> IF SnapshotUsable THEN file.containers ELSE <<>>,
                   mc |-> IF SnapshotUsable THEN SentMinecraft(file.mc) ELSE None,
                   seen |-> IF SnapshotUsable THEN file.seen ELSE 0]
<1>1. net' = net \cup {new}
  BY DEF Send
<1>2. Cardinality(net) \in Nat
  BY FS_CardinalityType DEF NetInv
<1>3. new \in Heartbeat
  <2>1. HostClock \in Int
    BY DEF HostInv, HostClock
  <2>2. /\ new.containers \in {<<>>} \cup [Container -> Measured]
        /\ new.mc \in {None} \cup GoodProbe /\ new.seen \in Nat
    <3>1. CASE SnapshotUsable
      BY <3>1, SentSnapshot
    <3>2. CASE ~SnapshotUsable
      BY <3>2
    <3>3. QED BY <3>1, <3>2
  <2>3. QED BY <1>2, <2>1, <2>2 DEF Heartbeat
<1>4. new \notin net
  BY <1>2 DEF NetInv
<1>5. IsFiniteSet(net') /\ Cardinality(net') = Cardinality(net) + 1
  BY <1>1, <1>4, FS_AddElement DEF NetInv
<1>6. /\ new.containers # <<>> =>
           /\ new.sentAt - Drift - new.seen <= CollectMax + SnapshotMaxAge
           /\ \A c \in Container : new.containers[c].state = "running" => ran[c] >= new.seen
      /\ new.mc # None /\ new.mc.perf # None => new.sentAt - new.mc.perf.at <= MetricsMaxAge + SnapshotMaxAge
  <2>1. CASE SnapshotUsable
    BY <2>1, SentSnapshot
  <2>2. CASE ~SnapshotUsable
    BY <2>2
  <2>3. QED BY <2>1, <2>2
<1>7. new.nonce = Cardinality(net) + 1
  OBVIOUS
<1> HIDE DEF new
<1>8. NetInv'
  <2>1. \A m \in net : m.nonce \in 1..Cardinality(net')
    BY <1>2, <1>5 DEF NetInv
  <2>2. new.nonce \in 1..Cardinality(net')
    BY <1>2, <1>5, <1>7
  <2>3. UNCHANGED ran
    BY DEF Send
  <2>4. net \subseteq Heartbeat /\ net' \subseteq Heartbeat
    BY <1>1, <1>3 DEF NetInv
  <2>5. QED BY <1>1, <1>5, <1>6, <2>1, <2>2, <2>3, <2>4 DEF NetInv
<1>9. HostInv' /\ now <= now' /\ \A c \in Container : ran[c] <= ran'[c]
  BY DEF HostInv, Send
<1>10. CollectorInv' /\ FileInv'
  BY DEF Send, CollectorInv, FileInv, FileIsGood, HostClock
<1>11. QED BY <1>8, <1>9, <1>10, Later DEF Send

\* The API finds nothing to refuse in what the agent sends, and stores its measurements.
LEMMA SentIsAccepted ==
  ASSUME TelemetryInv, NEW m \in net
  PROVE  /\ ApiAcceptsContainers(m.containers) /\ ApiAcceptsMinecraft(m.mc)
         /\ Stored(m) \in HeartbeatRow
         /\ Stored(m).nonce = m.nonce /\ Stored(m).recv = now /\ Stored(m).seen = m.seen
         /\ Stored(m).mc = m.mc
         /\ Stored(m).states # <<>> =>
              /\ m.containers # <<>>
              /\ \A c \in Container : Stored(m).states[c] = m.containers[c].state
<1> USE DEF TelemetryInv
<1>1. m \in Heartbeat
  BY DEF NetInv
<1>2. m.nonce \in Nat /\ m.seen \in Nat /\ m.mc \in {None} \cup GoodProbe /\ now \in Nat
  BY <1>1 DEF Heartbeat, HostInv
<1>3. ApiAcceptsMinecraft(m.mc)
  BY <1>2 DEF ApiAcceptsMinecraft, GoodProbe, GoodPerf
<1>4. CASE m.containers = <<>>
  <2>1. DOMAIN m.containers = {} /\ Stored(m).states = <<>>
    BY <1>4 DEF Stored
  <2>2. QED BY <1>2, <1>3, <2>1 DEF ApiAcceptsContainers, Stored, HeartbeatRow
<1>5. CASE m.containers \in [Container -> Measured]
  <2>1. DOMAIN m.containers = Container /\ Stored(m).states \in [Container -> State]
        /\ \A c \in Container : Stored(m).states[c] = m.containers[c].state
    BY <1>5 DEF Stored, Measured
  <2>2. ApiAcceptsContainers(m.containers)
    BY <1>5 DEF ApiAcceptsContainers, Measured
  <2>3. m.containers # <<>>
    BY <2>1 DEF Container
  <2>4. QED BY <1>2, <1>3, <2>1, <2>2, <2>3 DEF Stored, HeartbeatRow
<1>6. QED BY <1>1, <1>4, <1>5 DEF Heartbeat

\* What a heartbeat brings is still young enough when the API takes it.
LEMMA FreshWhenStored ==
  ASSUME TelemetryInv, NEW m \in net, Fresh(m)
  PROVE  LET r == Stored(m) IN
         /\ r.states # <<>> =>
              /\ r.recv - r.seen <= Delay
              /\ \A c \in Container : r.states[c] = "running" => ran[c] >= r.seen
         /\ r.mc # None /\ r.mc.perf # None =>
              r.recv - (r.mc.perf.at - Drift) <= MetricsMaxAge + SnapshotMaxAge + MaxClockSkew + Drift
<1> USE DEF TelemetryInv
<1>1. CollectMax \in Nat /\ SnapshotMaxAge \in Nat /\ MetricsMaxAge \in Nat /\ Drift \in Int
      /\ MaxClockSkew \in Nat /\ now \in Nat
  BY DEF HostInv
<1>2. m.sentAt \in Int /\ m.seen \in Nat /\ m.mc \in {None} \cup GoodProbe
  BY DEF NetInv, Heartbeat
<1>3. now - m.sentAt <= MaxClockSkew
  BY <1>1, <1>2 DEF Fresh
<1>4. ASSUME Stored(m).states # <<>>
      PROVE  /\ Stored(m).recv - Stored(m).seen <= Delay
             /\ \A c \in Container : Stored(m).states[c] = "running" => ran[c] >= Stored(m).seen
  <2>1. m.containers # <<>> /\ Stored(m).recv = now /\ Stored(m).seen = m.seen
        /\ \A c \in Container : Stored(m).states[c] = m.containers[c].state
    BY <1>4, SentIsAccepted
  <2>2. m.sentAt - Drift - m.seen <= CollectMax + SnapshotMaxAge
        /\ \A c \in Container : m.containers[c].state = "running" => ran[c] >= m.seen
    BY <2>1 DEF NetInv
  <2>3. now - m.seen <= Delay
    BY <1>1, <1>2, <1>3, <2>2 DEF Delay
  <2>4. QED BY <2>1, <2>2, <2>3
<1>5. ASSUME Stored(m).mc # None, Stored(m).mc.perf # None
      PROVE  Stored(m).recv - (Stored(m).mc.perf.at - Drift)
               <= MetricsMaxAge + SnapshotMaxAge + MaxClockSkew + Drift
  <2>1. Stored(m).recv = now /\ Stored(m).mc = m.mc /\ m.mc # None /\ m.mc.perf # None
    BY <1>5, SentIsAccepted
  <2>2. m.sentAt - m.mc.perf.at <= MetricsMaxAge + SnapshotMaxAge /\ m.mc.perf.at \in Int
    BY <1>2, <2>1 DEF NetInv, GoodProbe, GoodPerf
  <2>3. now - (m.mc.perf.at - Drift) <= MetricsMaxAge + SnapshotMaxAge + MaxClockSkew + Drift
    BY <1>1, <1>2, <1>3, <2>2
  <2>4. QED BY <2>1, <2>3
<1>6. QED BY <1>4, <1>5

LEMMA Receives == ASSUME TelemetryInv, NEW m \in net, Receive(m) PROVE TelemetryInv'
<1> USE DEF TelemetryInv
<1>1. HeartbeatResult(m) # "invalid_payload"
  BY SentIsAccepted DEF HeartbeatResult, PersistResult
<1>2. HostInv' /\ now <= now' /\ \A c \in Container : ran[c] <= ran'[c]
  BY DEF HostInv, Receive
<1>3. CollectorInv' /\ FileInv' /\ NetInv'
  BY DEF Receive, CollectorInv, FileInv, FileIsGood, NetInv, HostClock
<1>4. ~refused'
  BY <1>1 DEF Receive
<1>5. CASE HeartbeatResult(m) # "accepted"
  <2>1. UNCHANGED rows
    BY <1>5 DEF Receive
  <2>2. RowsInv'
    BY <1>2, <2>1, Later
  <2>3. QED BY <1>2, <1>3, <1>4, <2>2
<1>6. CASE HeartbeatResult(m) = "accepted"
  <2> DEFINE n == Len(rows)
             r == Stored(m)
  <2>1. Fresh(m) /\ PersistResult(m) = "accepted" /\ rows' = Append(rows, r)
    BY <1>6 DEF HeartbeatResult, Receive
  <2>2. /\ r \in HeartbeatRow /\ r.nonce = m.nonce /\ r.recv = now
        /\ \A i \in 1..n : rows[i].nonce # m.nonce
        /\ rows # <<>> => now - rows[n].recv >= RateLimit
    <3>1. rows \in Seq(HeartbeatRow) /\ DOMAIN rows = 1..n /\ now \in Nat /\ RateLimit \in Nat
      BY DEF RowsInv, HostInv
    <3>2. ~(rows # <<>> /\ now - rows[n].recv < RateLimit) /\ \A i \in 1..n : rows[i].nonce # m.nonce
      BY <2>1, <3>1 DEF PersistResult
    <3>3. rows # <<>> => rows[n].recv \in Nat
      <4>1. rows # <<>> => n \in 1..n
        BY <3>1
      <4>2. rows # <<>> => rows[n] \in HeartbeatRow
        BY <3>1, <4>1
      <4>3. QED BY <4>2 DEF HeartbeatRow
    <3>4. QED BY <3>1, <3>2, <3>3, SentIsAccepted
  <2>3. /\ rows' \in Seq(HeartbeatRow) /\ DOMAIN rows = 1..n /\ DOMAIN rows' = 1..(n + 1)
        /\ rows'[n + 1] = r /\ \A i \in 1..n : rows'[i] = rows[i] /\ rows[i] \in HeartbeatRow
        /\ n \in Nat /\ now \in Nat /\ RateLimit \in Nat /\ now' = now /\ ran' = ran
    BY <2>1, <2>2 DEF RowsInv, HostInv, Receive
  <2>4. \A i \in 1..n : rows[i].recv \in Nat
    BY <2>3 DEF HeartbeatRow
  \* The last row is the newest.
  <2>5. ASSUME NEW i \in 1..n PROVE now - rows[i].recv >= RateLimit
    <3>1. n \in 1..n /\ rows # <<>>
      BY <2>3
    <3>2. i < n => rows[n].recv - rows[i].recv >= RateLimit
      BY <2>3, <3>1 DEF RowsInv
    <3>3. now - rows[n].recv >= RateLimit
      BY <2>2, <3>1
    <3>4. rows[n].recv \in Nat /\ rows[i].recv \in Nat
      BY <2>4, <3>1
    <3>5. CASE i < n
      <4> DEFINE a == rows[n].recv
                 b == rows[i].recv
      <4>1. a \in Nat /\ b \in Nat /\ a - b >= RateLimit /\ now - a >= RateLimit
        BY <3>2, <3>3, <3>4, <3>5
      <4> HIDE DEF a, b
      <4>2. now - b >= RateLimit
        BY <2>3, <4>1
      <4>3. QED BY <4>2 DEF b
    <3>6. CASE i = n
      BY <3>3, <3>6
    <3>7. QED BY <2>3, <3>5, <3>6
  <2>6. ASSUME NEW i \in 1..(n + 1), NEW j \in 1..(n + 1), i < j
        PROVE  rows'[i].nonce # rows'[j].nonce /\ rows'[j].recv - rows'[i].recv >= RateLimit
    <3>1. i \in 1..n
      BY <2>3, <2>6
    <3>2. CASE j = n + 1
      BY <2>2, <2>3, <2>5, <3>1, <3>2
    <3>3. CASE j \in 1..n
      BY <2>3, <2>6, <3>1, <3>3 DEF RowsInv
    <3>4. QED BY <2>3, <3>2, <3>3
  <2>7. ASSUME NEW i \in 1..(n + 1)
        PROVE  /\ rows'[i].recv <= now
               /\ rows'[i].states # <<>> =>
                    /\ rows'[i].recv - rows'[i].seen <= Delay
                    /\ \A c \in Container : rows'[i].states[c] = "running" => ran[c] >= rows'[i].seen
               /\ rows'[i].mc # None /\ rows'[i].mc.perf # None =>
                    rows'[i].recv - (rows'[i].mc.perf.at - Drift)
                      <= MetricsMaxAge + SnapshotMaxAge + MaxClockSkew + Drift
    <3>1. CASE i \in 1..n
      BY <2>3, <3>1 DEF RowsInv
    <3>2. CASE i = n + 1
      BY <2>1, <2>2, <2>3, <3>2, FreshWhenStored
    <3>3. QED BY <2>3, <3>1, <3>2
  <2>8. RowsInv'
    BY <2>3, <2>6, <2>7 DEF RowsInv
  <2>9. QED BY <1>2, <1>3, <1>4, <2>8
<1>7. QED BY <1>5, <1>6

LEMMA TelemetryStep == TelemetryInv /\ [TelemetryNext]_telemetryVars => TelemetryInv'
<1> SUFFICES ASSUME TelemetryInv, [TelemetryNext]_telemetryVars PROVE TelemetryInv'
  OBVIOUS
<1>1. CASE UNCHANGED telemetryVars
  <2>1. HostInv' /\ now <= now' /\ \A c \in Container : ran[c] <= ran'[c]
    BY <1>1 DEF TelemetryInv, HostInv, telemetryVars
  <2>2. CollectorInv' /\ FileInv'
    BY <1>1 DEF TelemetryInv, CollectorInv, FileInv, FileIsGood, HostClock, telemetryVars
  <2>3. QED BY <1>1, <2>1, <2>2, HostStep DEF telemetryVars
<1>2. CASE TelemetryNext
  BY <1>2, Ticks, DockerChanges, BridgePolls, Inspects, WritesSnapshot, Augments, Fails, Sends,
     Receives DEF TelemetryNext
<1>3. QED BY <1>1, <1>2

LEMMA TelemetryAlways == TelemetrySpec => []TelemetryInv
BY TelemetryStart, TelemetryStep, PTL DEF TelemetrySpec

-----------------------------------------------------------------------------
(* Telemetry: the properties *)

LEMMA RowsAreTyped ==
  ASSUME TelemetryInv
  PROVE  /\ rows \in Seq(HeartbeatRow) /\ DOMAIN rows = 1..Len(rows) /\ Len(rows) \in Nat
         /\ \A i \in DOMAIN rows : /\ rows[i] \in HeartbeatRow
                                   /\ rows[i].recv \in 0..now
         /\ now \in Nat
<1>1. rows \in Seq(HeartbeatRow) /\ now \in Nat
  BY DEF TelemetryInv, RowsInv, HostInv
<1>2. DOMAIN rows = 1..Len(rows) /\ Len(rows) \in Nat /\ \A i \in DOMAIN rows : rows[i] \in HeartbeatRow
  BY <1>1
<1>3. \A i \in DOMAIN rows : rows[i].recv \in Nat /\ rows[i].recv <= now
  BY <1>2 DEF TelemetryInv, RowsInv, HeartbeatRow
<1>4. QED BY <1>1, <1>2, <1>3

LEMMA TelemetryTyped == TelemetryInv => TypeOK
<1> SUFFICES ASSUME TelemetryInv PROVE TypeOK
  OBVIOUS
<1> USE DEF TelemetryInv
<1>1. now \in 0..MaxTime /\ docker \in [Container -> State] /\ metrics \in Perf
      /\ ran \in [Container -> 0..now]
  BY DEF HostInv, GoodPerf, Perf, RawSpark
<1>2. collector.pc \in {"idle", "inspected", "written"}
  BY DEF CollectorInv, Collecting, Idle
<1>3. {None} \cup GoodProbe \subseteq Probed
  BY DEF GoodProbe, GoodPerf, Probed, Perf, RawSpark
<1>4. \A m \in net : m.nonce \in 1..Cardinality(net) /\ m.mc \in Probed
  BY <1>3 DEF NetInv, Heartbeat
<1>5. \A i \in DOMAIN rows :
        /\ rows[i].recv \in 0..now /\ rows[i].mc \in Probed
        /\ rows[i].states = <<>> \/ rows[i].states \in [Container -> State]
  BY <1>3, RowsAreTyped DEF HeartbeatRow
<1>6. QED BY <1>1, <1>2, <1>4, <1>5 DEF TypeOK

\* However often and however late a heartbeat arrives, it is stored at most once,
\* and never within the rate limit of another (insert_agent_heartbeat_v3).
THEOREM HeartbeatsStoredOnce == TelemetrySpec => []StoredOnce
<1>1. TelemetryInv => StoredOnce
  BY TelemetryTyped DEF TelemetryInv, RowsInv, StoredOnce
<1>2. QED BY <1>1, TelemetryAlways, PTL

\* Whatever Docker, the server ping and Spark answer, the API never finds the
\* agent's heartbeat invalid (normalizeContainers and normalizeMinecraft).
THEOREM HeartbeatsAreNeverInvalid == TelemetrySpec => []BadMeasurementNeverCostsHeartbeat
<1>1. TelemetryInv => BadMeasurementNeverCostsHeartbeat
  BY DEF TelemetryInv, BadMeasurementNeverCostsHeartbeat
<1>2. QED BY <1>1, TelemetryAlways, PTL

\* A bounded nonempty set of numbers has a largest element.
LEMMA LargestExists ==
  ASSUME NEW n \in Nat, NEW S \in SUBSET (1..n), S # {}
  PROVE  \E x \in S : \A y \in S : x >= y
<1> DEFINE T == {n - x : x \in S}
<1>1. T \subseteq Nat /\ T # {}
  <2>1. \A x \in S : n - x \in Nat
    OBVIOUS
  <2>2. QED BY <2>1
<1>2. IsWellFoundedOn(OpToRel(<, Nat), Nat)
  BY NatLessThanWellFounded
<1>3. \E d \in T : \A e \in T : ~(<<e, d>> \in OpToRel(<, Nat))
  BY <1>1, <1>2, WFMin
<1>4. PICK d \in T : \A e \in T : ~(e < d)
  BY <1>1, <1>3 DEF OpToRel
<1>5. PICK x \in S : d = n - x
  OBVIOUS
<1>6. ASSUME NEW y \in S PROVE x >= y
  <2>1. n - y \in T
    OBVIOUS
  <2>2. ~(n - y < n - x)
    BY <1>4, <1>5, <2>1
  <2>3. x \in Int /\ y \in Int /\ n \in Int
    OBVIOUS
  <2>4. QED BY <2>2, <2>3
<1>7. QED BY <1>6

\* The newest row of a kind is a row of that kind, or there is none.
LEMMA LatestIsARow ==
  ASSUME NEW n \in Nat, NEW S \in SUBSET (1..n)
  PROVE  IF S = {} THEN Latest(S) = 0 ELSE Latest(S) \in S
BY LargestExists DEF Latest, Max

LEMMA RecentByAges == ASSUME TelemetryInv PROVE MeasurementsAreRecent
<1>1. /\ LatestContainers # 0 => LatestContainers \in DOMAIN rows /\ rows[LatestContainers].states # <<>>
      /\ LatestProbe # 0 => LatestProbe \in DOMAIN rows /\ rows[LatestProbe].mc # None
  <2>1. DOMAIN rows = 1..Len(rows) /\ Len(rows) \in Nat
    BY RowsAreTyped
  <2>2. ASSUME NEW S \in SUBSET (DOMAIN rows), Latest(S) # 0 PROVE Latest(S) \in S
    BY <2>1, <2>2, LatestIsARow
  <2>3. QED BY <2>2 DEF LatestContainers, LatestProbe
<1>2. \A i \in DOMAIN rows : rows[i] \in HeartbeatRow /\ rows[i].recv \in Nat /\ rows[i].seen \in Nat
  BY RowsAreTyped DEF HeartbeatRow
<1>3. now \in Nat /\ ran \in [Container -> Nat] /\ OnlineThreshold \in Nat /\ StaleThreshold \in Nat
      /\ Delay \in Int /\ Drift \in Int /\ MaxClockSkew \in Nat /\ MetricsMaxAge \in Nat
      /\ SnapshotMaxAge \in Nat
  <2>1. CollectMax \in Nat /\ SnapshotMaxAge \in Nat /\ MaxClockSkew \in Nat /\ Drift \in Int
        /\ OnlineThreshold \in Nat /\ StaleThreshold \in Nat /\ MetricsMaxAge \in Nat
    OBVIOUS
  <2>2. now \in Nat /\ ran \in [Container -> Nat]
    BY DEF TelemetryInv, HostInv
  <2>3. QED BY <2>1, <2>2 DEF Delay
<1>4. ASSUME MinecraftOverall = "operational", NEW c \in Container
      PROVE  now - ran[c] <= Delay + OnlineThreshold
  <2> DEFINE i == LatestContainers
  <2>1. ~Unavailable(c) /\ ContainerStatus(c) # "stale"
    BY <1>4 DEF MinecraftOverall
  <2>2. i # 0 /\ rows[i].states[c] = "running" /\ ContainerStatus(c) \notin {"offline", "error", "stale"}
    BY <2>1 DEF Unavailable
  <2>3. now - rows[i].recv <= OnlineThreshold
    <3>1. ByAge(i) = "online"
      BY <2>2 DEF ContainerStatus, ByAge
    <3>2. ~(now - rows[i].recv > OnlineThreshold)
      BY <2>2, <3>1 DEF ByAge, Age
    <3>3. QED BY <1>1, <1>2, <1>3, <2>2, <3>2
  <2>4. rows[i].recv - rows[i].seen <= Delay /\ ran[c] >= rows[i].seen
    BY <1>1, <2>2 DEF TelemetryInv, RowsInv
  <2>5. rows[i].recv \in Nat /\ rows[i].seen \in Nat /\ ran[c] \in Nat
    BY <1>1, <1>2, <1>3, <2>2
  <2>6. QED BY <1>3, <2>3, <2>4, <2>5
<1>5. ASSUME MinecraftOverall # "unknown", rows[LatestProbe].mc.perf # None
      PROVE  now - (rows[LatestProbe].mc.perf.at - Drift)
               <= MetricsMaxAge + SnapshotMaxAge + MaxClockSkew + Drift + StaleThreshold
  <2> DEFINE r == rows[LatestProbe]
  <2>1. LatestProbe # 0 /\ ~(now - r.recv > StaleThreshold)
    BY <1>5 DEF MinecraftOverall, Age
  <2>2. r \in HeartbeatRow /\ r.recv \in Nat /\ r.mc # None
    BY <1>1, <1>2, <2>1
  <2>3. r.mc.perf.at \in Int
    BY <1>5, <2>2 DEF HeartbeatRow, GoodProbe, GoodPerf
  <2>4. r.recv - (r.mc.perf.at - Drift) <= MetricsMaxAge + SnapshotMaxAge + MaxClockSkew + Drift
    BY <1>1, <1>5, <2>1, <2>2 DEF TelemetryInv, RowsInv
  <2> HIDE DEF r
  <2>5. now - (r.mc.perf.at - Drift)
          <= MetricsMaxAge + SnapshotMaxAge + MaxClockSkew + Drift + StaleThreshold
    BY <1>3, <2>1, <2>2, <2>3, <2>4
  <2>6. QED BY <2>5 DEF r
<1>6. QED BY <1>4, <1>5 DEF MeasurementsAreRecent

\* What is shown of the containers and of Minecraft is no older than the checks
\* of all hops add up to (getMinecraftOverview and determineMinecraftStatus).
THEOREM ShownMeasurementsAreRecent == TelemetrySpec => []MeasurementsAreRecent
<1>1. TelemetryInv => MeasurementsAreRecent
  BY RecentByAges
<1>2. QED BY <1>1, TelemetryAlways, PTL

-----------------------------------------------------------------------------
(* Telemetry: the accounted downtime *)

\* Between two heartbeats, and since the last, the host is missed after the
\* tolerated age.
MissedBefore(r, i) == (r[i - 1].recv + OnlineThreshold + 1)..(r[i].recv - 1)
MissedSince(r, t) ==
  IF r = <<>> THEN {} ELSE (r[Len(r)].recv + OnlineThreshold + 1)..(t - 1)
Missed(r, t) == (UNION {MissedBefore(r, i) : i \in 2..Len(r)}) \cup MissedSince(r, t)

DownInv == down = Missed(rows, now)

LEMMA UnionOfOneMore ==
  ASSUME NEW A, NEW x PROVE UNION (A \cup {x}) = (UNION A) \cup x
<1>1. \A e : e \in UNION (A \cup {x}) => e \in (UNION A) \cup x
  OBVIOUS
<1>2. \A e : e \in (UNION A) \cup x => e \in UNION (A \cup {x})
  <2>1. ASSUME NEW e, e \in x PROVE e \in UNION (A \cup {x})
    <3>1. x \in A \cup {x}
      OBVIOUS
    <3>2. QED BY <2>1, <3>1
  <2>2. QED BY <2>1
<1>3. QED BY <1>1, <1>2

LEMMA RecoveredGapsAreMissed ==
  ASSUME TelemetryInv
  PROVE  UNION {(g.from + 1)..(g.to - 1) : g \in RecoveredGaps}
           = UNION {MissedBefore(rows, i) : i \in 2..Len(rows)}
<1> DEFINE gap(i) == [from |-> rows[i].recv - (rows[i].recv - rows[i - 1].recv - OnlineThreshold),
                      to |-> rows[i].recv]
<1>1. OnlineThreshold \in Nat /\ DOMAIN rows = 1..Len(rows) /\ Len(rows) \in Nat
  BY RowsAreTyped
<1>2. \A i \in 2..Len(rows) : rows[i].recv \in Nat /\ rows[i - 1].recv \in Nat
  <2>1. \A i \in 2..Len(rows) : i \in DOMAIN rows /\ i - 1 \in DOMAIN rows
    BY <1>1
  <2>2. \A j \in DOMAIN rows : rows[j].recv \in Nat
    <3>1. ASSUME NEW j \in DOMAIN rows PROVE rows[j].recv \in Nat
      <4>1. rows[j].recv \in 0..now /\ now \in Nat
        BY RowsAreTyped
      <4> DEFINE at == rows[j].recv
      <4> HIDE DEF at
      <4>2. at \in 0..now => at \in Nat
        BY <4>1
      <4> USE DEF at
      <4>3. QED BY <4>1, <4>2
    <3>2. QED BY <3>1
  <2>3. QED BY <2>1, <2>2
<1>3. ASSUME NEW i \in 2..Len(rows)
      PROVE  /\ (gap(i).from + 1)..(gap(i).to - 1) = MissedBefore(rows, i)
             /\ ~GapEvent(i) => MissedBefore(rows, i) = {}
  <2> DEFINE a == rows[i - 1].recv
             b == rows[i].recv
  <2>1. a \in Nat /\ b \in Nat /\ i > 1 /\ OnlineThreshold \in Nat
    BY <1>1, <1>2
  <2>2. GapEvent(i) <=> b - a > OnlineThreshold
    BY <2>1 DEF GapEvent
  <2>3. /\ gap(i).from = b - (b - a - OnlineThreshold) /\ gap(i).to = b
        /\ MissedBefore(rows, i) = (a + OnlineThreshold + 1)..(b - 1)
    BY DEF MissedBefore
  <2> HIDE DEF a, b, gap
  <2>4. b - (b - a - OnlineThreshold) + 1 = a + OnlineThreshold + 1
    BY <2>1
  <2>5. ~(b - a > OnlineThreshold) => (a + OnlineThreshold + 1)..(b - 1) = {}
    BY <2>1
  <2>6. QED BY <2>2, <2>3, <2>4, <2>5
<1>4. {k \in DOMAIN rows : GapEvent(k)} = {k \in 2..Len(rows) : GapEvent(k)}
  BY <1>1 DEF GapEvent
<1>5. RecoveredGaps = {gap(i) : i \in {k \in 2..Len(rows) : GapEvent(k)}}
  BY <1>4 DEF RecoveredGaps
<1> HIDE DEF gap
<1>6. UNION {(g.from + 1)..(g.to - 1) : g \in RecoveredGaps}
        = UNION {(gap(i).from + 1)..(gap(i).to - 1) : i \in {k \in 2..Len(rows) : GapEvent(k)}}
  BY <1>5
<1>7. QED BY <1>3, <1>6

LEMMA DownOnTick ==
  ASSUME TelemetryInv, DownInv, TelemetryTick PROVE DownInv'
<1>1. now \in Nat /\ now' = now + 1 /\ rows' = rows /\ OnlineThreshold \in Nat
      /\ StaleThreshold \in Nat /\ OnlineThreshold < StaleThreshold
      /\ Len(rows) \in Nat /\ (rows # <<>> => Len(rows) # 0 /\ rows[Len(rows)].recv \in 0..now)
  <2>1. now' = now + 1 /\ rows' = rows
    BY DEF TelemetryTick
  <2>2. rows # <<>> => Len(rows) \in DOMAIN rows /\ Len(rows) # 0
    BY RowsAreTyped
  <2>3. OnlineThreshold \in Nat /\ StaleThreshold \in Nat /\ OnlineThreshold < StaleThreshold
    OBVIOUS
  <2>4. QED BY <2>1, <2>2, <2>3, RowsAreTyped
<1>2. UNION {MissedBefore(rows', i) : i \in 2..Len(rows')} = UNION {MissedBefore(rows, i) : i \in 2..Len(rows)}
  BY <1>1
<1>3. CASE rows = <<>>
  BY <1>1, <1>2, <1>3 DEF DownInv, Missed, MissedSince, TelemetryTick
<1>4. CASE rows # <<>>
  <2> DEFINE since == rows[Len(rows)].recv
  <2>1. since \in Nat /\ since <= now /\ Age(Len(rows)) = now - since
    BY <1>1, <1>4 DEF Age
  <2>2. HostStatus # "online" <=> now - since > OnlineThreshold
    BY <1>1, <1>4, <2>1 DEF HostStatus, ByAge
  <2>3. MissedSince(rows', now') = (since + OnlineThreshold + 1)..now
    BY <1>1, <1>4 DEF MissedSince
  <2>4. MissedSince(rows, now) = (since + OnlineThreshold + 1)..(now - 1)
    BY <1>4 DEF MissedSince
  <2>5. down' = IF HostStatus # "online" THEN down \cup {now} ELSE down
    BY <1>4 DEF TelemetryTick
  <2> HIDE DEF since
  <2>6. MissedSince(rows', now')
          = IF HostStatus # "online" THEN MissedSince(rows, now) \cup {now} ELSE MissedSince(rows, now)
    <3>1. CASE now - since > OnlineThreshold
      <4>1. (since + OnlineThreshold + 1)..now = (since + OnlineThreshold + 1)..(now - 1) \cup {now}
        BY <1>1, <2>1, <3>1
      <4>2. QED BY <2>2, <2>3, <2>4, <3>1, <4>1
    <3>2. CASE ~(now - since > OnlineThreshold)
      <4>1. (since + OnlineThreshold + 1)..now = {} /\ (since + OnlineThreshold + 1)..(now - 1) = {}
        BY <1>1, <2>1, <3>2
      <4>2. QED BY <2>2, <2>3, <2>4, <3>2, <4>1
    <3>3. QED BY <3>1, <3>2
  <2>7. Missed(rows', now')
          = IF HostStatus # "online" THEN Missed(rows, now) \cup {now} ELSE Missed(rows, now)
    <3> DEFINE before == UNION {MissedBefore(rows, i) : i \in 2..Len(rows)}
    <3>1. Missed(rows, now) = before \cup MissedSince(rows, now)
          /\ Missed(rows', now') = before \cup MissedSince(rows', now')
      BY <1>2 DEF Missed
    <3> HIDE DEF before
    <3>2. CASE HostStatus # "online"
      BY <2>6, <3>1, <3>2
    <3>3. CASE HostStatus = "online"
      BY <2>6, <3>1, <3>3
    <3>4. QED BY <3>2, <3>3
  <2>8. QED BY <2>5, <2>7 DEF DownInv
<1>5. QED BY <1>3, <1>4

LEMMA DownOnReceive ==
  ASSUME TelemetryInv, DownInv, NEW m \in net, Receive(m) PROVE DownInv'
<1>1. now' = now /\ down' = down /\ now \in Nat /\ OnlineThreshold \in Nat
  BY DEF Receive, TelemetryInv, HostInv
<1>2. CASE rows' = rows
  BY <1>1, <1>2 DEF DownInv
<1>3. CASE rows' = Append(rows, Stored(m))
  <2> DEFINE n == Len(rows)
  <2>1. n \in Nat /\ Len(rows') = n + 1 /\ rows'[n + 1].recv = now /\ rows' # <<>>
        /\ \A i \in 1..n : rows'[i] = rows[i]
    <3>1. rows \in Seq(HeartbeatRow) /\ Stored(m) \in HeartbeatRow /\ Stored(m).recv = now
      BY RowsAreTyped, SentIsAccepted
    <3>2. /\ n \in Nat /\ Len(Append(rows, Stored(m))) = n + 1
          /\ Append(rows, Stored(m))[n + 1] = Stored(m)
          /\ \A i \in 1..n : Append(rows, Stored(m))[i] = rows[i]
      BY <3>1, AppendProperties
    <3>3. n + 1 # 0 /\ Len(<<>>) = 0
      BY <3>2
    <3>4. QED BY <1>3, <3>1, <3>2, <3>3
  <2>2. MissedSince(rows', now') = {}
    <3>1. MissedSince(rows', now') = (now + OnlineThreshold + 1)..(now - 1)
      BY <1>1, <2>1 DEF MissedSince
    <3>2. (now + OnlineThreshold + 1)..(now - 1) = {}
      BY <1>1
    <3>3. QED BY <3>1, <3>2
  <2>3. \A i \in 2..n : MissedBefore(rows', i) = MissedBefore(rows, i)
    <3>1. \A i \in 2..n : i \in 1..n /\ i - 1 \in 1..n
      BY <2>1
    <3>2. QED BY <2>1, <3>1 DEF MissedBefore
  <2>4. CASE rows = <<>>
    <3>1. n = 0 /\ 2..Len(rows') = {} /\ 2..n = {}
      BY <2>1, <2>4
    <3>2. QED BY <1>1, <2>2, <2>4, <3>1 DEF DownInv, Missed, MissedSince
  <2>5. CASE rows # <<>>
    <3>1. n >= 1 /\ n \in 1..n
      BY <2>5, RowsAreTyped
    <3>2. 2..Len(rows') = (2..n) \cup {n + 1}
      BY <2>1, <3>1
    <3>3. MissedBefore(rows', n + 1) = MissedSince(rows, now)
      BY <2>1, <2>5, <3>1 DEF MissedBefore, MissedSince
    <3>4. UNION {MissedBefore(rows', i) : i \in 2..Len(rows')}
            = (UNION {MissedBefore(rows, i) : i \in 2..n}) \cup MissedSince(rows, now)
      <4>1. {MissedBefore(rows', i) : i \in 2..Len(rows')}
              = {MissedBefore(rows', i) : i \in 2..n} \cup {MissedBefore(rows', n + 1)}
        BY <3>2
      <4>2. {MissedBefore(rows', i) : i \in 2..n} = {MissedBefore(rows, i) : i \in 2..n}
        BY <2>3
      <4>3. QED BY <3>3, <4>1, <4>2, UnionOfOneMore
    <3>5. QED BY <1>1, <2>2, <3>4 DEF DownInv, Missed
  <2>6. QED BY <2>4, <2>5
<1>4. QED BY <1>2, <1>3 DEF Receive

LEMMA DownStep ==
  TelemetryInv /\ DownInv /\ [TelemetryNext]_telemetryVars => DownInv'
<1> SUFFICES ASSUME TelemetryInv, DownInv, [TelemetryNext]_telemetryVars PROVE DownInv'
  OBVIOUS
<1>1. CASE UNCHANGED <<now, rows, down>>
  BY <1>1 DEF DownInv
<1>2. CASE TelemetryTick
  BY <1>2, DownOnTick
<1>3. CASE \E m \in net : Receive(m)
  BY <1>3, DownOnReceive
<1>4. QED
  BY <1>1, <1>2, <1>3 DEF TelemetryNext, telemetryVars, DockerChange, BridgePoll, Inspect, WriteSnapshot,
     Augment, CollectorFails, CollectorFrame, Send

\* The recovered incidents and the current age of the host account for exactly
\* the times it was shown as not online (deriveRecoveredHostGaps and the gap
\* events of capture_host_monitoring_events).
THEOREM DowntimeAddsUp == TelemetrySpec => []DowntimeIsAccounted
<1>1. TelemetryInit => DownInv
  BY DEF TelemetryInit, DownInv, Missed, MissedSince
<1>2. TelemetrySpec => []DownInv
  BY <1>1, TelemetryAlways, DownStep, PTL DEF TelemetrySpec
<1>3. TelemetryInv /\ DownInv => DowntimeIsAccounted
  BY RecoveredGapsAreMissed DEF DownInv, Missed, MissedSince, DowntimeIsAccounted
<1>4. QED BY <1>2, <1>3, TelemetryAlways, PTL

-----------------------------------------------------------------------------
(* Reliability: what maintenance excuses of the past *)

HIDE TelemetryAssumption
USE ReliabilityAssumption DEF ReliabilityAssumption

WindowInv == now \in Nat /\ windows \in [Key -> {None} \cup MaintenanceWindow]

LEMMA WindowStart == ReliabilityInit => WindowInv
BY DEF ReliabilityInit, WindowInv

LEMMA WindowStep == WindowInv /\ [ReliabilityNext]_reliabilityVars => WindowInv'
<1> SUFFICES ASSUME WindowInv, [ReliabilityNext]_reliabilityVars PROVE WindowInv'
  OBVIOUS
<1>1. CASE UNCHANGED <<now, windows>>
  BY <1>1 DEF WindowInv
<1>2. CASE ReliabilityTick
  BY <1>2 DEF WindowInv, ReliabilityTick
<1>3. ASSUME NEW k \in Key, NEW t \in Targets, NEW a \in (0 - Grace)..(MaxTime + 1),
             NEW b \in (0 - Grace)..(MaxTime + 1), CreateReliabilityMaintenanceWindow(k, t, a, b)
      PROVE  WindowInv'
  <2>1. [target |-> t, starts |-> a, ends |-> b, cancelled |-> None] \in MaintenanceWindow
    BY DEF MaintenanceWindow
  <2>2. QED BY <1>3, <2>1 DEF WindowInv, CreateReliabilityMaintenanceWindow
<1>4. ASSUME NEW k \in Key, CancelReliabilityMaintenanceWindow(k) PROVE WindowInv'
  <2>1. windows[k] \in MaintenanceWindow
    BY <1>4 DEF WindowInv, CancelReliabilityMaintenanceWindow
  <2>2. [windows[k] EXCEPT !.cancelled = now] \in MaintenanceWindow
    BY <2>1 DEF MaintenanceWindow, WindowInv
  <2>3. QED BY <1>4, <2>2 DEF WindowInv, CancelReliabilityMaintenanceWindow
<1>5. QED
  BY <1>1, <1>2, <1>3, <1>4 DEF ReliabilityNext, reliabilityVars, IncidentOpens, IncidentRecovers,
     UpdateReliabilitySloPolicy, Kick, ApplySignal, ReadIncidents, ReadPolicies, ReadWindows, Reads,
     ApplyFails

LEMMA WindowAlways == ReliabilitySpec => []WindowInv
BY WindowStart, WindowStep, PTL DEF ReliabilitySpec

\* A window excludes the unit that begins at t exactly if it covers it, and
\* did so before it was cancelled.
LEMMA ExcludesUnit ==
  ASSUME NEW w \in MaintenanceWindow, NEW t \in Int
  PROVE  EffectiveWindowInterval(w, t, t + 1) # {} <=>
           w.starts <= t /\ t < w.ends /\ (w.cancelled = None \/ t < w.cancelled)
<1> DEFINE e == IF w.cancelled = None THEN w.ends ELSE MinOf(w.ends, w.cancelled)
           i == Interval(MaxOf(w.starts, t), MinOf(e, t + 1))
<1>1. w.starts \in Int /\ w.ends \in Int /\ w.cancelled \in {None} \cup Nat
  BY DEF MaintenanceWindow
<1>2. e \in Int /\ (t < e <=> t < w.ends /\ (w.cancelled = None \/ t < w.cancelled))
  BY <1>1 DEF MinOf
<1>3. EffectiveWindowInterval(w, t, t + 1) = {x \in {i} : x.end > x.start}
  BY DEF EffectiveWindowInterval, ClipInterval
<1> HIDE DEF e
<1>4. i.end > i.start <=> w.starts <= t /\ t < e
  BY <1>1, <1>2 DEF Interval, MaxOf, MinOf
<1>5. QED BY <1>2, <1>3, <1>4

\* Some window excuses the unit that begins at t from incident i.
Excuses(w, i, t) == AppliesToIncident(w, i) /\ EffectiveWindowInterval(w, t, t + 1) # {}

\* A new window begins within the grace, after everything older.
LEMMA CreatedExcusesNothingOld ==
  ASSUME WindowInv, NEW k \in Key, NEW x \in Targets,
         NEW a \in (0 - Grace)..(MaxTime + 1), NEW b \in (0 - Grace)..(MaxTime + 1),
         CreateReliabilityMaintenanceWindow(k, x, a, b),
         NEW i, NEW t \in Int, t <= now - Grace - 1
  PROVE  \A y \in Key :
            \/ windows'[y] = windows[y]
            \/ windows[y] = None /\ windows'[y] # None /\ ~Excuses(windows'[y], i, t)
<1> DEFINE w == [target |-> x, starts |-> a, ends |-> b, cancelled |-> None]
<1>1. t \in Int /\ w \in MaintenanceWindow /\ w # None
  BY DEF WindowInv, MaintenanceWindow
<1>2. windows[k] = None /\ windows' = [windows EXCEPT ![k] = w] /\ windows \in [Key -> {None} \cup MaintenanceWindow]
  BY DEF WindowInv, CreateReliabilityMaintenanceWindow
<1>3. ~(w.starts <= t)
  <2>1. a >= now - Grace /\ now \in Nat /\ Grace \in Nat
    BY DEF WindowInv, CreateReliabilityMaintenanceWindow, MayCreate
  <2>2. QED BY <2>1
<1>4. ~Excuses(w, i, t)
  BY <1>1, <1>3, ExcludesUnit DEF Excuses
<1> HIDE DEF w
<1>5. QED BY <1>1, <1>2, <1>4

\* A cancelled window keeps excusing what it excused before.
LEMMA CancelledExcusesAsBefore ==
  ASSUME WindowInv, NEW k \in Key, CancelReliabilityMaintenanceWindow(k),
         NEW i, NEW t \in Int, t <= now - Grace - 1
  PROVE  \A y \in Key :
            \/ windows'[y] = windows[y]
            \/ /\ windows[y] # None /\ windows'[y] # None
               /\ Excuses(windows'[y], i, t) <=> Excuses(windows[y], i, t)
<1> DEFINE v == windows[k]
           w == [v EXCEPT !.cancelled = now]
<1>1. v # None /\ v.cancelled = None /\ windows' = [windows EXCEPT ![k] = w]
      /\ windows \in [Key -> {None} \cup MaintenanceWindow]
  BY DEF WindowInv, CancelReliabilityMaintenanceWindow
<1>2. v \in MaintenanceWindow
  BY <1>1
<1> HIDE DEF v
<1>3. /\ w \in MaintenanceWindow /\ w # None /\ w.target = v.target
      /\ w.starts = v.starts /\ w.ends = v.ends /\ w.cancelled = now
  BY <1>2 DEF WindowInv, MaintenanceWindow
<1> HIDE DEF w
<1>4. t \in Int /\ t < now
  <2>1. now \in Nat /\ Grace \in Nat
    BY DEF WindowInv
  <2>2. QED BY <2>1
<1>5. EffectiveWindowInterval(w, t, t + 1) # {} <=> EffectiveWindowInterval(v, t, t + 1) # {}
  BY <1>1, <1>2, <1>3, <1>4, ExcludesUnit
<1>6. AppliesToIncident(w, i) <=> AppliesToIncident(v, i)
  BY <1>3 DEF AppliesToIncident
<1>7. Excuses(w, i, t) <=> Excuses(v, i, t)
  BY <1>5, <1>6 DEF Excuses
<1>8. QED BY <1>1, <1>3, <1>7 DEF v

\* What maintenance excuses is settled once it is older than the grace
\* (create/cancel_reliability_maintenance_window).
THEOREM ExcusedPastIsSettled == ReliabilitySpec => PastIsSettled
<1>1. ASSUME WindowInv, ReliabilityNext, NEW i \in incidents, NEW t \in Int, t <= now - Grace - 1
      PROVE  (\E w \in WindowSet : AppliesToIncident(w, i) /\ EffectiveWindowInterval(w, t, t + 1) # {})
           = (\E w \in WindowSet' : AppliesToIncident(w, i) /\ EffectiveWindowInterval(w, t, t + 1) # {})
  <2>1. \A y \in Key :
          \/ windows'[y] = windows[y]
          \/ windows[y] = None /\ windows'[y] # None /\ ~Excuses(windows'[y], i, t)
          \/ /\ windows[y] # None /\ windows'[y] # None
             /\ Excuses(windows'[y], i, t) <=> Excuses(windows[y], i, t)
    <3>1. CASE UNCHANGED windows
      BY <3>1
    <3>2. ASSUME NEW k \in Key, NEW x \in Targets, NEW a \in (0 - Grace)..(MaxTime + 1),
                 NEW b \in (0 - Grace)..(MaxTime + 1), CreateReliabilityMaintenanceWindow(k, x, a, b)
          PROVE  \A y \in Key :
                    \/ windows'[y] = windows[y]
                    \/ windows[y] = None /\ windows'[y] # None /\ ~Excuses(windows'[y], i, t)
      BY <1>1, <3>2, CreatedExcusesNothingOld
    <3>3. ASSUME NEW k \in Key, CancelReliabilityMaintenanceWindow(k)
          PROVE  \A y \in Key :
                    \/ windows'[y] = windows[y]
                    \/ /\ windows[y] # None /\ windows'[y] # None
                       /\ Excuses(windows'[y], i, t) <=> Excuses(windows[y], i, t)
      BY <1>1, <3>3, CancelledExcusesAsBefore
    <3>4. UNCHANGED windows
          \/ (\E k \in Key, x \in Targets, a, b \in (0 - Grace)..(MaxTime + 1) :
                CreateReliabilityMaintenanceWindow(k, x, a, b))
          \/ (\E k \in Key : CancelReliabilityMaintenanceWindow(k))
      BY <1>1 DEF ReliabilityNext, ReliabilityTick, IncidentOpens, IncidentRecovers,
         UpdateReliabilitySloPolicy, Kick, ApplySignal, ReadIncidents, ReadPolicies, ReadWindows,
         Reads, ApplyFails
    <3>5. QED BY <3>1, <3>2, <3>3, <3>4
  <2>2. (\E y \in Key : windows[y] # None /\ Excuses(windows[y], i, t))
          <=> (\E y \in Key : windows'[y] # None /\ Excuses(windows'[y], i, t))
    BY <2>1
  <2>3. (\E w \in WindowSet : AppliesToIncident(w, i) /\ EffectiveWindowInterval(w, t, t + 1) # {})
          <=> (\E y \in Key : windows[y] # None /\ Excuses(windows[y], i, t))
    BY DEF WindowSet, Excuses
  <2>4. (\E w \in WindowSet' : AppliesToIncident(w, i) /\ EffectiveWindowInterval(w, t, t + 1) # {})
          <=> (\E y \in Key : windows'[y] # None /\ Excuses(windows'[y], i, t))
    BY DEF WindowSet, Excuses
  <2>5. QED BY <2>2, <2>3, <2>4
<1>2. WindowInv /\ [ReliabilityNext]_reliabilityVars =>
        [\A i \in incidents : \A t \in i.start .. (now - Grace - 1) :
           LET Excused(ws) == \E w \in ws : /\ AppliesToIncident(w, i)
                                            /\ EffectiveWindowInterval(w, t, t + 1) # {}
           IN  Excused(WindowSet) = Excused(WindowSet')]_windows
  <2>1. ASSUME WindowInv, NEW i \in incidents, NEW t \in i.start .. (now - Grace - 1)
        PROVE  t \in Int /\ t <= now - Grace - 1
    BY <2>1 DEF WindowInv
  <2>2. QED BY <1>1, <2>1 DEF reliabilityVars
<1>3. QED BY <1>2, WindowAlways, PTL DEF ReliabilitySpec, PastIsSettled

-----------------------------------------------------------------------------
(* Backups: the marker of an archive goes only when its run is stored *)

HIDE ReliabilityAssumption
USE BackupsAssumption DEF BackupsAssumption

Instant == Int \cup {None}
RunReport ==
  [id : Nat, started : Int, completed : Instant, outcome : Outcome, sha : BOOLEAN \cup {None},
   synced : Instant, restored : Instant, retention : Instant, code : FailureCode \cup {None}]
ArchivedIds == {a.id : a \in archived}

\* What any report or row may say: no result of the run under way, and of an
\* archived run no result but success.
RunIsTrue(r) ==
  /\ r \in RunReport /\ r.id <= count
  /\ Final(r) => /\ current # None => r.id # current.id
                 /\ r.id \in ArchivedIds => r.outcome = "success"

BackupHostInv ==
  /\ now \in Int /\ count \in Nat /\ sent \in Nat
  /\ current # None => current \in [id : Nat, started : Int] /\ current.id = count
  /\ archived \subseteq [id : Nat, started : Int, completed : Int] /\ pending \subseteq archived
  /\ \A a \in archived : a.id <= count /\ (current # None => a.id # current.id)

ReportsInv ==
  /\ \A m \in reports : m.nonce \in 1..sent /\ \A r \in m.runs : RunIsTrue(r)
  /\ requests \subseteq 1..sent

\* The report the success reporter waits for: if it was accepted, it is stored.
SendingInv ==
  sending # None =>
    /\ sending.nonce \in 1..sent
    /\ \A r \in sending.runs : r.id \in ArchivedIds /\ r.outcome = "success"
    /\ \A m \in reports : m.nonce = sending.nonce => m = sending
    /\ sending.nonce \in requests => RunIds(sending.runs) \subseteq Successes

StoredInv == \A i \in DOMAIN stored : stored[i].id = i /\ RunIsTrue(stored[i])

BackupInv == BackupHostInv /\ ReportsInv /\ SendingInv /\ StoredInv /\ NoBackupForgotten

LEMMA BackupStart == BackupsInit => BackupInv
BY DEF BackupsInit, BackupInv, BackupHostInv, ReportsInv, SendingInv, StoredInv, NoBackupForgotten

\* Runs are numbered, and only the run under way can become an archive.
LEMMA BackupHostStep ==
  ASSUME BackupInv, BackupsNext
  PROVE  /\ BackupHostInv'
         /\ count' >= count
         /\ current' # None => current' = current \/ current'.id > count
         /\ archived \subseteq archived'
         /\ \A a \in archived' : a \in archived \/ (current # None /\ a.id = current.id)
<1> USE DEF BackupInv, BackupHostInv
<1>1. CASE Begin
  BY <1>1 DEF Begin, db, wire
<1>2. CASE Archive
  <2> DEFINE a == [id |-> current.id, started |-> current.started, completed |-> now]
  <2>1. a \in [id : Nat, started : Int, completed : Int] /\ a.id = current.id /\ current # None
        /\ a.id <= count
    BY <1>2 DEF Archive, Ended
  <2>2. /\ pending' = pending \cup {a} /\ archived' = archived \cup {a} /\ current' = None
        /\ UNCHANGED <<now, count, sent>>
    BY <1>2 DEF Archive, Ended, wire
  <2> HIDE DEF a
  <2>3. QED BY <2>1, <2>2
<1>3. CASE \/ \E code \in FailureCode : EndAndReport("failed", None, code)
           \/ \E sha \in {FALSE, None} : EndAndReport("success", sha, None)
  <2>1. current' = None /\ sent' = sent + 1 /\ UNCHANGED <<now, count, pending, archived>>
    BY <1>3 DEF EndAndReport, Ended, SendReport
  <2>2. QED BY <2>1
<1>4. CASE Reboot
  BY <1>4 DEF Reboot, wire, db
<1>5. CASE BackupsTick
  BY <1>5 DEF BackupsTick, host
<1>6. CASE Finished
  BY <1>6 DEF Finished, wire, db
<1>7. CASE UNCHANGED <<now, count, current, pending, archived>> /\ sent' \in {sent, sent + 1}
  BY <1>7
<1>8. ReportRunning \/ ReportSuccess \/ GivenUp \/ (\E a \in pending : Verify(a))
        \/ (\E i \in DOMAIN stored : RestoreTest(i)) \/ (\E m \in reports : ReceiveReport(m))
        => UNCHANGED <<now, count, current, pending, archived>> /\ sent' \in {sent, sent + 1}
  BY DEF ReportRunning, ReportSuccess, GivenUp, Verify, RestoreTest, ReceiveReport, SendReport, host, wire
<1>9. QED
  BY <1>1, <1>2, <1>3, <1>4, <1>5, <1>6, <1>7, <1>8 DEF BackupsNext

\* What is true of a run stays true.
LEMMA TrueStaysTrue ==
  ASSUME BackupInv, BackupsNext, NEW r, RunIsTrue(r)
  PROVE  RunIsTrue(r)'
<1>1. r \in RunReport /\ r.id <= count /\ r.id \in Nat
  BY DEF RunIsTrue, RunReport
<1>2. r.id <= count'
  BY <1>1, BackupHostStep DEF BackupInv, BackupHostInv
<1>3. ASSUME Final(r), current' # None PROVE r.id # current'.id
  BY <1>1, <1>3, BackupHostStep DEF RunIsTrue, BackupInv, BackupHostInv
<1>4. ASSUME Final(r), r.id \in ArchivedIds' PROVE r.outcome = "success"
  BY <1>1, <1>4, BackupHostStep DEF RunIsTrue, ArchivedIds
<1>5. QED BY <1>1, <1>2, <1>3, <1>4 DEF RunIsTrue, Final

\* Every report sent is true once it is on the wire.
LEMMA OnlyTrueReports ==
  ASSUME BackupInv, BackupsNext
  PROVE  \/ reports' \subseteq reports /\ sent' = sent
         \/ \E rs : SendReport(rs) /\ \A r \in rs : RunIsTrue(r)'
<1>1. CASE ReportRunning
  <2>1. PICK r : r = Run(current.id, current.started, None, "running", None, None, None)
    OBVIOUS
  <2>2. r \in RunReport /\ r.id <= count' /\ ~Final(r)
    BY <1>1, <2>1 DEF ReportRunning, Run, RunReport, Instant, Outcome, Final, BackupInv, BackupHostInv, host
  <2>3. RunIsTrue(r)'
    BY <2>2 DEF RunIsTrue, Final
  <2>4. QED BY <1>1, <2>1, <2>3 DEF ReportRunning
<1>2. ASSUME NEW outcome \in {"failed", "success"}, NEW sha \in {FALSE, None},
             NEW code \in FailureCode \cup {None}, EndAndReport(outcome, sha, code)
      PROVE  \E rs : SendReport(rs) /\ \A r \in rs : RunIsTrue(r)'
  <2>1. PICK r : r = Run(current.id, current.started, now, outcome, sha, None, code)
    OBVIOUS
  <2>2. /\ current # None /\ current' = None /\ UNCHANGED <<count, archived>>
        /\ current.id \in Nat /\ current.started \in Int /\ current.id = count /\ now \in Int
    BY <1>2 DEF EndAndReport, Ended, BackupInv, BackupHostInv
  <2>3. /\ now \in Instant /\ None \in Instant /\ outcome \in Outcome
        /\ sha \in BOOLEAN \cup {None} /\ code \in FailureCode \cup {None}
    BY <2>2 DEF Instant, Outcome
  <2>4. r \in RunReport /\ r.id = current.id
    BY <2>1, <2>2, <2>3 DEF Run, RunReport
  <2>5. r.id <= count' /\ r.id \notin ArchivedIds'
    BY <2>2, <2>4 DEF ArchivedIds, BackupInv, BackupHostInv
  <2>6. RunIsTrue(r)'
    BY <2>2, <2>4, <2>5 DEF RunIsTrue
  <2>7. QED BY <1>2, <2>1, <2>6 DEF EndAndReport
<1>3. CASE ReportSuccess
  <2>1. ASSUME NEW r \in BuildRuns PROVE RunIsTrue(r)'
    <3>1. PICK a \in pending : r = Run(a.id, a.started, a.completed, "success", TRUE, now, None)
      BY DEF BuildRuns
    <3>2. r \in RunReport /\ r.id = a.id /\ r.outcome = "success" /\ a \in archived
      BY <3>1 DEF Run, RunReport, Instant, Outcome, BackupInv, BackupHostInv
    <3>3. RunIsTrue(r)
      BY <3>2 DEF RunIsTrue, BackupInv, BackupHostInv
    <3>4. QED BY <3>3, TrueStaysTrue
  <2>2. QED BY <1>3, <2>1 DEF ReportSuccess
<1>4. ASSUME NEW i \in DOMAIN stored, RestoreTest(i)
      PROVE  \E rs : SendReport(rs) /\ \A r \in rs : RunIsTrue(r)'
  <2>1. PICK old, r : /\ old = stored[i]
                      /\ r = [old EXCEPT !.sha = TRUE, !.restored = now, !.retention = now + Retention]
    OBVIOUS
  <2>2. RunIsTrue(old) /\ old \in RunReport
    BY <2>1 DEF BackupInv, StoredInv, RunIsTrue
  <2>3. now \in Int /\ now + Retention \in Int
    BY DEF BackupInv, BackupHostInv
  <2>4. r \in RunReport /\ r.id = old.id /\ r.outcome = old.outcome
    BY <2>1, <2>2, <2>3 DEF RunReport, Instant
  <2>5. RunIsTrue(r)
    BY <2>2, <2>4 DEF RunIsTrue, Final
  <2>6. RunIsTrue(r)'
    BY <2>5, TrueStaysTrue
  <2>7. QED BY <1>4, <2>1, <2>6 DEF RestoreTest
<1>5. CASE Begin \/ Archive \/ Reboot \/ Finished \/ GivenUp \/ BackupsTick
           \/ (\E a \in pending : Verify(a)) \/ (\E m \in reports : ReceiveReport(m))
  BY <1>5 DEF Begin, Archive, Reboot, Finished, GivenUp, BackupsTick, Verify, ReceiveReport, wire
<1>6. QED BY <1>1, <1>2, <1>3, <1>4, <1>5 DEF BackupsNext, FailureCode

\* The table after a report: rows stay true, a success stays one, and a run that is
\* archived is now stored as a success if the report says so.
LEMMA StoringAReport ==
  ASSUME BackupInv, NEW m \in reports, ReceiveReport(m)
  PROVE  /\ \A i \in DOMAIN stored' : stored'[i].id = i /\ RunIsTrue(stored'[i])
         /\ Successes \subseteq Successes'
         /\ \A r \in m.runs : r.id \in ArchivedIds /\ (\A q \in m.runs : q.outcome = "success")
              => r.id \in Successes'
<1> DEFINE ids == RunIds(m.runs)
           new(i) == Reported(m.runs, i)
<1>1. stored' = [i \in DOMAIN stored \cup ids |->
                   IF i \notin ids THEN stored[i]
                   ELSE IF i \notin DOMAIN stored THEN new(i) ELSE Updated(stored[i], new(i))]
  BY DEF ReceiveReport, Upsert
<1>2. ASSUME NEW i \in ids PROVE new(i) \in m.runs /\ new(i).id = i
  BY DEF RunIds, Reported
<1>3. \A r \in m.runs : RunIsTrue(r)
  BY DEF BackupInv, ReportsInv
<1>4. \A i \in DOMAIN stored : stored[i].id = i /\ RunIsTrue(stored[i])
  BY DEF BackupInv, StoredInv
<1>5. ASSUME NEW old, NEW r, RunIsTrue(old), RunIsTrue(r), old.id = r.id
      PROVE  /\ RunIsTrue(Updated(old, r)) /\ Updated(old, r).id = old.id
             /\ Updated(old, r).outcome = IF Final(old) THEN old.outcome ELSE r.outcome
  <2>1. old \in RunReport /\ r \in RunReport
    BY <1>5 DEF RunIsTrue
  <2>2. Updated(old, r) \in RunReport /\ Updated(old, r).id = old.id
        /\ Updated(old, r).outcome = IF Final(old) THEN old.outcome ELSE r.outcome
    BY <2>1 DEF Updated, Coalesce, RunReport
  <2>3. QED BY <1>5, <2>2 DEF RunIsTrue, Final
<1> HIDE DEF new, ids
<1>6. ASSUME NEW i \in DOMAIN stored' PROVE stored'[i].id = i /\ RunIsTrue(stored'[i])
  <2>1. CASE i \notin ids
    BY <1>1, <1>4, <1>6, <2>1
  <2>2. CASE i \in ids /\ i \notin DOMAIN stored
    BY <1>1, <1>2, <1>3, <2>2
  <2>3. CASE i \in ids /\ i \in DOMAIN stored
    <3>1. stored'[i] = Updated(stored[i], new(i))
      BY <1>1, <2>3
    <3>2. RunIsTrue(stored[i]) /\ RunIsTrue(new(i)) /\ stored[i].id = i /\ new(i).id = i
      BY <1>2, <1>3, <1>4, <2>3
    <3>3. QED BY <1>5, <3>1, <3>2
  <2>4. QED BY <2>1, <2>2, <2>3
<1>7. ASSUME NEW i \in Successes PROVE i \in Successes'
  <2>1. i \in DOMAIN stored /\ stored[i].outcome = "success" /\ i \in DOMAIN stored'
    BY <1>1 DEF Successes
  <2>2. CASE i \notin ids
    BY <1>1, <2>1, <2>2 DEF Successes
  <2>3. CASE i \in ids
    <3>1. stored'[i] = Updated(stored[i], new(i))
      BY <1>1, <2>1, <2>3
    <3>2. RunIsTrue(stored[i]) /\ RunIsTrue(new(i)) /\ stored[i].id = i /\ new(i).id = i /\ Final(stored[i])
      BY <1>2, <1>3, <1>4, <2>1, <2>3 DEF Final
    <3>3. stored'[i].outcome = "success"
      BY <1>5, <2>1, <3>1, <3>2
    <3>4. QED BY <2>1, <3>3 DEF Successes
  <2>4. QED BY <2>2, <2>3
<1>8. ASSUME NEW r \in m.runs, r.id \in ArchivedIds, \A q \in m.runs : q.outcome = "success"
      PROVE  r.id \in Successes'
  <2> DEFINE i == r.id
  <2>1. i \in ids
    BY DEF ids, RunIds
  <2>2. new(i) \in m.runs /\ new(i).id = i /\ new(i).outcome = "success" /\ RunIsTrue(new(i))
    BY <1>2, <1>3, <1>8, <2>1
  <2> HIDE DEF i
  <2>3. CASE i \notin DOMAIN stored
    BY <1>1, <2>1, <2>2, <2>3 DEF Successes, i
  <2>4. CASE i \in DOMAIN stored
    <3>1. stored'[i] = Updated(stored[i], new(i)) /\ i \in DOMAIN stored'
      BY <1>1, <2>1, <2>4
    <3>2. RunIsTrue(stored[i]) /\ stored[i].id = i
      BY <1>4, <2>4
    <3>3. Final(stored[i]) => stored[i].outcome = "success"
      BY <1>8, <3>2 DEF RunIsTrue, i
    <3>4. stored'[i].outcome = "success"
      BY <1>5, <2>2, <3>1, <3>2, <3>3
    <3>5. QED BY <3>1, <3>4 DEF Successes, i
  <2>5. QED BY <2>3, <2>4
<1>9. QED BY <1>6, <1>7, <1>8

LEMMA SendingStaysTrue ==
  ASSUME BackupInv, BackupsNext PROVE SendingInv'
<1> USE DEF BackupInv
<1>1. CASE ReportSuccess
  <2>1. /\ sending' = Message(BuildRuns) /\ sent' = sent + 1 /\ sent \in Nat /\ requests' = requests
        /\ reports' = reports \cup {sending'} /\ sending'.nonce = sent + 1 /\ sending'.runs = BuildRuns
    BY <1>1 DEF ReportSuccess, SendReport, Message, BackupHostInv, db
  <2>2. \A r \in BuildRuns : r.id \in ArchivedIds' /\ r.outcome = "success"
    <3>1. ASSUME NEW r \in BuildRuns PROVE r.id \in ArchivedIds /\ r.outcome = "success"
      <4>1. PICK a \in pending : r = Run(a.id, a.started, a.completed, "success", TRUE, now, None)
        BY DEF BuildRuns
      <4>2. a \in archived /\ r.id = a.id /\ r.outcome = "success"
        BY <4>1 DEF Run, BackupHostInv
      <4>3. QED BY <4>2 DEF ArchivedIds
    <3>2. ArchivedIds \subseteq ArchivedIds'
      BY BackupHostStep DEF ArchivedIds
    <3>3. QED BY <3>1, <3>2
  <2>3. \A m \in reports : m.nonce # sent + 1
    BY <2>1 DEF ReportsInv
  <2>4. sent + 1 \notin requests
    BY <2>1 DEF ReportsInv
  <2> HIDE DEF BackupInv
  <2>5. QED BY <2>1, <2>2, <2>3, <2>4 DEF SendingInv
<1>2. CASE sending' = None
  BY <1>2 DEF SendingInv
<1>3. CASE UNCHANGED sending /\ sending # None
  <2>1. /\ sending.nonce \in 1..sent /\ sent \in Nat
        /\ \A r \in sending.runs : r.id \in ArchivedIds /\ r.outcome = "success"
        /\ \A m \in reports : m.nonce = sending.nonce => m = sending
        /\ sending.nonce \in requests => RunIds(sending.runs) \subseteq Successes
    BY <1>3 DEF SendingInv, BackupHostInv
  <2>2. ArchivedIds \subseteq ArchivedIds'
    BY BackupHostStep DEF ArchivedIds
  <2>3. sending.nonce \in 1..sent' /\ \A m \in reports' : m.nonce = sending.nonce => m = sending
    <3>1. CASE reports' \subseteq reports /\ sent' = sent
      BY <2>1, <3>1
    <3>2. CASE \E rs : SendReport(rs)
      BY <2>1, <3>2 DEF SendReport, Message
    <3>3. QED BY <3>1, <3>2, OnlyTrueReports
  <2>4. sending.nonce \in requests' => RunIds(sending.runs) \subseteq Successes'
    <3>1. CASE UNCHANGED <<requests, stored>>
      BY <2>1, <3>1 DEF Successes
    <3>2. ASSUME NEW m \in reports, ReceiveReport(m), sending.nonce \in requests'
          PROVE  RunIds(sending.runs) \subseteq Successes'
      <4>1. requests' = requests \cup {m.nonce} /\ Successes \subseteq Successes'
        BY <3>2, StoringAReport DEF ReceiveReport
      <4>2. CASE sending.nonce \in requests
        BY <2>1, <4>1, <4>2
      <4>3. CASE sending.nonce = m.nonce
        <5>1. m = sending
          BY <2>1, <4>3
        <5>2. \A r \in sending.runs : r.id \in Successes'
          BY <2>1, <3>2, <5>1, StoringAReport
        <5>3. QED BY <5>2 DEF RunIds
      <4>4. QED BY <3>2, <4>1, <4>2, <4>3
    <3>3. UNCHANGED <<requests, stored>> \/ \E m \in reports : ReceiveReport(m)
      BY DEF BackupsNext, Begin, ReportRunning, Archive, EndAndReport, Reboot, ReportSuccess, Finished,
         GivenUp, Verify, RestoreTest, BackupsTick, db
    <3>4. QED BY <3>1, <3>2, <3>3
  <2>5. QED BY <1>3, <2>1, <2>2, <2>3, <2>4 DEF SendingInv
<1>4. ReportSuccess \/ sending' = None \/ UNCHANGED sending
  BY DEF BackupsNext, Begin, ReportRunning, Archive, EndAndReport, Reboot, Finished,
     GivenUp, Verify, RestoreTest, ReceiveReport, BackupsTick
<1>5. QED BY <1>1, <1>2, <1>3, <1>4

LEMMA StoredStaysTrue ==
  ASSUME BackupInv, BackupsNext PROVE StoredInv' /\ Successes \subseteq Successes'
<1>1. CASE UNCHANGED stored
  <2>1. StoredInv'
    BY <1>1, TrueStaysTrue DEF BackupInv, StoredInv
  <2>2. QED BY <1>1, <2>1 DEF Successes
<1>2. ASSUME NEW m \in reports, ReceiveReport(m) PROVE StoredInv' /\ Successes \subseteq Successes'
  <2>1. \A i \in DOMAIN stored' : stored'[i].id = i /\ RunIsTrue(stored'[i])
    BY <1>2, StoringAReport
  <2>2. UNCHANGED <<count, current, archived>>
    BY <1>2 DEF ReceiveReport, host
  <2>3. StoredInv'
    BY <2>1, <2>2 DEF StoredInv, RunIsTrue, Final, ArchivedIds
  <2>4. QED BY <1>2, <2>3, StoringAReport
<1>3. UNCHANGED stored \/ \E m \in reports : ReceiveReport(m)
  BY DEF BackupsNext, Begin, ReportRunning, Archive, EndAndReport, Reboot, ReportSuccess, Finished,
     GivenUp, Verify, RestoreTest, BackupsTick, db
<1>4. QED BY <1>1, <1>2, <1>3

LEMMA ReportsStayTrue ==
  ASSUME BackupInv, BackupsNext PROVE ReportsInv'
<1>1. sent \in Nat /\ requests \subseteq 1..sent
      /\ \A m \in reports : m.nonce \in 1..sent /\ \A r \in m.runs : RunIsTrue(r)
  BY DEF BackupInv, BackupHostInv, ReportsInv
<1>2. \A m \in reports : \A r \in m.runs : RunIsTrue(r)'
  BY <1>1, TrueStaysTrue
<1>3. sent' \in {sent, sent + 1} /\ \A m \in reports' : m.nonce \in 1..sent' /\ \A r \in m.runs : RunIsTrue(r)'
  <2>1. CASE reports' \subseteq reports /\ sent' = sent
    BY <1>1, <1>2, <2>1
  <2>2. ASSUME NEW rs, SendReport(rs), \A r \in rs : RunIsTrue(r)'
        PROVE  sent' = sent + 1
               /\ \A m \in reports' : m.nonce \in 1..sent' /\ \A r \in m.runs : RunIsTrue(r)'
    <3>1. sent' = sent + 1 /\ reports' = reports \cup {Message(rs)}
          /\ Message(rs).nonce = sent + 1 /\ Message(rs).runs = rs
      BY <2>2 DEF SendReport, Message
    <3>2. 1..sent \subseteq 1..sent' /\ sent + 1 \in 1..sent'
      BY <1>1, <3>1
    <3>3. QED BY <1>1, <1>2, <2>2, <3>1, <3>2
  <2>3. QED BY <2>1, <2>2, OnlyTrueReports
<1>4. requests' = requests \/ \E m \in reports : requests' = requests \cup {m.nonce}
  BY DEF BackupsNext, Begin, ReportRunning, Archive, EndAndReport, Reboot, ReportSuccess, Finished,
     GivenUp, Verify, RestoreTest, BackupsTick, ReceiveReport, db
<1>5. requests' \subseteq 1..sent'
  <2>1. 1..sent \subseteq 1..sent'
    <3>1. sent <= sent'
      BY <1>1, <1>3
    <3>2. sent' \in Nat
      BY <1>1, <1>3
    <3>3. QED BY <1>1, <3>1, <3>2
  <2>2. CASE requests' = requests
    BY <1>1, <2>1, <2>2
  <2>3. ASSUME NEW m \in reports, requests' = requests \cup {m.nonce} PROVE requests' \subseteq 1..sent'
    <3>1. m.nonce \in 1..sent /\ requests \subseteq 1..sent
      BY <1>1
    <3>2. QED BY <2>1, <2>3, <3>1
  <2>4. QED BY <1>4, <2>2, <2>3
<1>6. QED BY <1>3, <1>5 DEF ReportsInv

LEMMA NothingIsForgotten ==
  ASSUME BackupInv, BackupsNext PROVE NoBackupForgotten'
<1>1. Successes \subseteq Successes'
  BY StoredStaysTrue
<1>2. CASE Finished
  <2>1. /\ archived' = archived /\ RunIds(sending.runs) \subseteq Successes
        /\ pending' = {a \in pending : a.id \notin RunIds(sending.runs)}
    BY <1>2 DEF Finished, BackupInv, SendingInv
  <2>2. QED BY <1>1, <2>1 DEF BackupInv, NoBackupForgotten
<1>3. ASSUME NEW a, archived' = archived \cup {a}, pending' = pending \cup {a} PROVE NoBackupForgotten'
  BY <1>1, <1>3 DEF BackupInv, NoBackupForgotten
<1>4. CASE UNCHANGED <<archived, pending>>
  BY <1>1, <1>4 DEF BackupInv, NoBackupForgotten
<1>5. Archive => \E a : archived' = archived \cup {a} /\ pending' = pending \cup {a}
  BY DEF Archive
<1>6. Finished \/ Archive \/ UNCHANGED <<archived, pending>>
  BY DEF BackupsNext, Begin, ReportRunning, EndAndReport, Reboot, ReportSuccess,
     GivenUp, Verify, RestoreTest, ReceiveReport, BackupsTick, host
<1>7. QED BY <1>2, <1>3, <1>4, <1>5, <1>6

LEMMA BackupStep == BackupInv /\ [BackupsNext]_backupsVars => BackupInv'
<1>1. ASSUME BackupInv, BackupsNext PROVE BackupInv'
  BY <1>1, BackupHostStep, ReportsStayTrue, SendingStaysTrue, StoredStaysTrue, NothingIsForgotten DEF BackupInv
<1>2. ASSUME BackupInv, UNCHANGED backupsVars PROVE BackupInv'
  BY <1>2 DEF BackupInv, BackupHostInv, ReportsInv, SendingInv, StoredInv, NoBackupForgotten, RunIsTrue,
     Final, ArchivedIds, Successes, backupsVars, host, db, wire
<1>3. QED BY <1>1, <1>2

\* Whatever reports are lost, late or repeated, and whenever the host restarts,
\* an archive keeps its marker until its run is stored as a success
\* (ivrm-backup-report-success.py and ingest_backup_report_v1).
THEOREM ArchivesAreNeverForgotten == BackupsSpec => []NoBackupForgotten
<1>1. BackupsSpec => []BackupInv
  BY BackupStart, BackupStep, PTL DEF BackupsSpec
<1>2. BackupInv => NoBackupForgotten
  BY DEF BackupInv
<1>3. QED BY <1>1, <1>2, PTL
=============================================================================
