------------------------------ MODULE Backups ------------------------------
(***************************************************************************)
(* The backups of one target: the runs on the host, the reports about them *)
(* over an unreliable network, the rows the ingest RPC keeps, and what the *)
(* Backup Center and the Incident Center read out of the rows.             *)
(*                                                                         *)
(* The backup service is a oneshot unit, so the runs of the target follow  *)
(* one another.  An archive stays marked as pending until a report of it   *)
(* was accepted; every other result is reported once.                      *)
(***************************************************************************)
EXTENDS Clock, Integers, FiniteSets, SequencesExt

CONSTANTS
  BatchSize,          \* runs in one success report (20)
  ReportSkew,         \* MAX_CLOCK_SKEW_SECONDS (300)
  WarningAfter, CriticalAfter, RemoteSyncWarning, RestoreTestWarning, \* the policy's SLAs
  Retention,          \* how long a tested archive is kept
  MaxBackups,         \* bound: backup runs
  MaxReports          \* bound: reports

ASSUME BackupsAssumption ==
  /\ BatchSize \in Nat \ {0} /\ Retention \in Nat \ {0}
  /\ \A c \in {ReportSkew, WarningAfter, CriticalAfter, RemoteSyncWarning,
               RestoreTestWarning, MaxTime, MaxBackups, MaxReports} : c \in Nat

Outcome == {"success", "failed", "running", "unknown"}
FailureCode == {"checksum_failed", "other"}

VARIABLES
  count,      \* runs begun: the number of a run stands for its id
  current,    \* the run under way: [id, started], or None
  ended,      \* when the last run ended
  pending,    \* archives with a .pending marker: [id, started, completed]
  evidence,   \* the pending archives with verified evidence in /run
  archived,   \* history: every archive that got its marker
  sending,    \* the report the success reporter waits for, or None
  sent,       \* reports sent: the number of a report stands for its nonce
  reports,    \* the reports sent that are not expired; one can arrive late, twice or never
  requests,   \* backup_ingest_requests: the nonces
  recent,     \* a report was accepted less than the rate limit's second ago
  stored      \* backup_runs, by run id: (host_id, run_id) is unique

host == <<count, current, ended, pending, evidence, archived>>
db == <<requests, recent, stored>>
wire == <<sent, reports>>
backupsVars == <<now, host, sending, wire, db>>

BackupsInit ==
  /\ now = 0 /\ count = 0 /\ current = None /\ ended = -1
  /\ pending = {} /\ evidence = {} /\ archived = {}
  /\ sending = None /\ sent = 0 /\ reports = {} /\ requests = {} /\ recent = FALSE /\ stored = <<>>

-----------------------------------------------------------------------------
(* Reports *)

Run(id, started, completed, outcome, sha, synced, code) ==
  [id |-> id, started |-> started, completed |-> completed, outcome |-> outcome, sha |-> sha,
   synced |-> synced, restored |-> None, retention |-> None, code |-> code]

\* send_report signs the body with a fresh nonce and the time.
Message(runs) == [nonce |-> sent + 1, at |-> now, runs |-> runs]

\* ivrm-backup-reporter.py --input: one attempt, whatever the answer.
SendReport(runs) == sent < MaxReports /\ sent' = sent + 1 /\ reports' = reports \cup {Message(runs)}

\* One run of normalizeRun and backup_run_is_valid_v1, as far as the times go.
RunIsValid(r, reported) ==
  /\ r.started <= reported + ReportSkew
  /\ (r.outcome \in {"success", "failed"}) = (r.completed # None)
  /\ (r.outcome = "failed") = (r.code # None)
  /\ r.completed # None => r.started <= r.completed /\ r.completed <= reported + ReportSkew
  /\ \A t \in {r.synced, r.restored} \ {None} :
       r.completed # None /\ r.completed <= t /\ t <= reported + ReportSkew
  /\ r.retention # None => r.completed # None /\ r.completed < r.retention

Final(r) == r.outcome \in {"success", "failed"}
Coalesce(a, b) == IF a # None THEN a ELSE b

\* on conflict (host_id, run_id) do update: a final result stands, evidence is added.
Updated(old, new) ==
  LET result == IF Final(old) THEN old ELSE new
  IN [id |-> old.id, started |-> old.started, completed |-> result.completed,
      outcome |-> result.outcome, code |-> result.code,
      sha |-> Coalesce(new.sha, old.sha), synced |-> Coalesce(new.synced, old.synced),
      restored |-> Coalesce(new.restored, old.restored),
      retention |-> Coalesce(new.retention, old.retention)]

\* The table after a report, which names no run twice.
RunIds(runs) == {r.id : r \in runs}
Reported(runs, id) == CHOOSE r \in runs : r.id = id
Upsert(runs) ==
  [id \in DOMAIN stored \cup RunIds(runs) |->
     IF id \notin RunIds(runs) THEN stored[id]
     ELSE IF id \notin DOMAIN stored THEN Reported(runs, id)
     ELSE Updated(stored[id], Reported(runs, id))]

\* parseBackupReport, then ingest_backup_report_v1: the report as a whole or not at all.
Accepts(m) ==
  /\ now - m.at <= ReportSkew
  /\ \A r \in m.runs : RunIsValid(r, m.at)
  /\ ~recent /\ m.nonce \notin requests

ReceiveReport(m) ==
  /\ m \in reports /\ Accepts(m)
  /\ requests' = requests \cup {m.nonce} /\ recent' = TRUE
  /\ stored' = Upsert(m.runs)
  /\ UNCHANGED <<now, host, sending, wire>>

-----------------------------------------------------------------------------
(* The host *)

Begin ==
  /\ current = None /\ ended < now /\ count < MaxBackups
  /\ count' = count + 1
  /\ current' = [id |-> count + 1, started |-> now]
  /\ UNCHANGED <<now, ended, pending, evidence, archived, sending, wire, db>>

\* A wrapper can report the run while it is under way.
ReportRunning ==
  /\ current # None
  /\ SendReport({Run(current.id, current.started, None, "running", None, None, None)})
  /\ UNCHANGED <<now, host, sending, db>>

Ended == current # None /\ current.started <= now /\ ended' = now /\ current' = None

\* mc-backup moves the archive to its place, then touches its marker.  A run that is cut off
\* between the two ends in Reboot: its archive stays without a marker and nothing reports it.
\* One whose touch fails removes the archive again and ends as a failed run.
Archive ==
  /\ Ended
  /\ LET a == [id |-> current.id, started |-> current.started, completed |-> now]
     IN pending' = pending \cup {a} /\ archived' = archived \cup {a}
  /\ UNCHANGED <<now, count, evidence, sending, wire, db>>

\* A run that failed, or one whose checksum could not be confirmed, is reported once.
EndAndReport(outcome, sha, code) ==
  /\ Ended
  /\ SendReport({Run(current.id, current.started, now, outcome, sha, None, code)})
  /\ UNCHANGED <<now, count, pending, evidence, archived, sending, db>>

\* The checks of ivrm-backup-evidence: archive, upload, remote object.
Verify(a) ==
  /\ a \in pending \ evidence
  /\ evidence' = evidence \cup {a}
  /\ UNCHANGED <<now, count, current, ended, pending, archived, sending, wire, db>>

\* /run does not survive a restart of the host, and neither do the run under way, whichever
\* step it had reached, and the reporter.
Reboot ==
  /\ evidence # {} \/ sending # None \/ current # None
  /\ evidence' = {} /\ sending' = None /\ current' = None
  /\ ended' = IF current = None THEN ended ELSE now
  /\ UNCHANGED <<now, count, pending, archived, wire, db>>

\* build_runs: the newest verified archives among the pending ones.
BuildRuns ==
  LET verified == pending \cap evidence
      newest == {a \in verified : Cardinality({b \in verified : b.completed > a.completed}) < BatchSize}
  IN {Run(a.id, a.started, a.completed, "success", TRUE, now, None) : a \in newest}

ReportSuccess ==
  /\ sending = None /\ BuildRuns # {}
  /\ SendReport(BuildRuns)
  /\ sending' = Message(BuildRuns)
  /\ UNCHANGED <<now, host, db>>

\* The answer 202 removes the markers of the runs in the report.
Finished ==
  /\ sending # None
  /\ sending.nonce \in requests
  /\ pending' = {a \in pending : a.id \notin RunIds(sending.runs)}
  /\ evidence' = evidence \cap pending' /\ sending' = None
  /\ UNCHANGED <<now, count, current, ended, archived, wire, db>>

\* Mutant: the markers go whatever the reporter returned.
GivenUpForgets ==
  /\ sending # None
  /\ pending' = {a \in pending : a.id \notin RunIds(sending.runs)}
  /\ evidence' = evidence \cap pending' /\ sending' = None
  /\ UNCHANGED <<now, count, current, ended, archived, wire, db>>

\* Any other answer, and none at all, keeps them.
GivenUp ==
  /\ sending # None
  /\ sending' = None
  /\ UNCHANGED <<now, host, wire, db>>

\* A restore test adds its evidence to a stored run.
RestoreTest(i) ==
  /\ stored[i].outcome = "success" /\ stored[i].completed < now
  /\ SendReport({[stored[i] EXCEPT !.sha = TRUE, !.restored = now, !.retention = now + Retention]})
  /\ UNCHANGED <<now, host, sending, db>>

BackupsTick ==
  /\ now < MaxTime
  /\ now' = now + 1 /\ recent' = FALSE
  /\ reports' = {m \in reports : now' - m.at <= ReportSkew}
  /\ UNCHANGED <<host, sending, sent, requests, stored>>

BackupsNext ==
  \/ Begin \/ ReportRunning \/ Archive \/ Reboot \/ ReportSuccess \/ Finished \/ GivenUp \/ BackupsTick
  \/ \E code \in FailureCode : EndAndReport("failed", None, code)
  \/ \E sha \in {FALSE, None} : EndAndReport("success", sha, None)
  \/ \E a \in pending : Verify(a)
  \/ \E i \in DOMAIN stored : RestoreTest(i)
  \/ \E m \in reports : ReceiveReport(m)

BackupsSpec == BackupsInit /\ [][BackupsNext]_backupsVars

-----------------------------------------------------------------------------
(* Backup Center *)

\* The row of a set with the greatest key.  Where two can tie, only the key is used.
Greatest(I, Key(_)) ==
  IF I = {} THEN None ELSE stored[CHOOSE i \in I : \A j \in I : Key(stored[j]) <= Key(stored[i])]

Successes == {i \in DOMAIN stored : stored[i].outcome = "success"}

\* Mutant: the runs are ordered by their start the other way round.
LatestAscending == Greatest(DOMAIN stored, LAMBDA r : 0 - r.started)

\* get_backup_center_v1: by start, by completion, by restore test.
LatestRun == Greatest(DOMAIN stored, LAMBDA r : r.started)
LatestSuccess == Greatest(Successes, LAMBDA r : r.completed)
RestoreEvidence ==
  Greatest({i \in Successes : stored[i].restored # None}, LAMBDA r : r.restored)

Unsettled == LatestRun # None /\ LatestRun.outcome \in {"running", "unknown"}

\* evaluateTarget.
Critical(paused) ==
  \/ LatestRun # None /\ LatestRun.outcome = "failed"
  \/ /\ LatestSuccess # None
     /\ \/ ~paused /\ now - LatestSuccess.completed > CriticalAfter
        \/ LatestSuccess.sha = FALSE
        \/ LatestSuccess.retention # None /\ LatestSuccess.retention <= now

RestoreFresh ==
  /\ RestoreEvidence # None
  /\ now - RestoreEvidence.restored \in 0..RestoreTestWarning

Warning(paused) ==
  /\ LatestSuccess # None
  /\ \/ ~paused /\ now - LatestSuccess.completed > WarningAfter
     \/ LatestSuccess.sha = None
     \/ LatestSuccess.retention = None
     \/ Unsettled
     \/ LatestSuccess.synced = None /\ now - LatestSuccess.completed > RemoteSyncWarning
     \/ ~RestoreFresh

Health(paused) ==
  IF Critical(paused) THEN "critical" ELSE IF Warning(paused) THEN "warning"
  ELSE IF LatestSuccess = None THEN "unknown" ELSE "healthy"

-----------------------------------------------------------------------------
(* Incident Center *)

NoSignals == [signals |-> {}, start |-> None, severity |-> None, failures |-> 0, recovered |-> {}]

ChecksumFailed(r) == r.code = "checksum_failed" \/ (r.outcome = "success" /\ r.sha = FALSE)

\* One run of deriveRunEpisodes.
EpisodeStep(s, r) ==
  LET failed == r.outcome = "failed"
      failures == IF failed THEN s.failures + 1 ELSE 0
      raised == (IF failed THEN {"run_failure"} ELSE {})
                \cup (IF ChecksumFailed(r) THEN {"checksum"} ELSE {})
      cleared == (IF failed THEN {} ELSE {"run_failure"})
                 \cup (IF ~failed /\ r.sha = TRUE THEN {"checksum"} ELSE {})
      signals == (s.signals \cup raised) \ cleared
      start == IF s.start = None /\ raised # {} THEN r.completed ELSE s.start
      severity == IF ChecksumFailed(r) \/ failures >= 2 \/ s.severity = "critical"
                  THEN "critical" ELSE IF start # None THEN "warning" ELSE None
      over == start # None /\ signals = {} /\ ~failed
  IN [signals |-> signals, failures |-> failures,
      start |-> IF over THEN None ELSE start,
      severity |-> IF over THEN None ELSE severity,
      recovered |-> s.recovered \cup
        (IF over THEN {[start |-> start, at |-> r.completed, severity |-> severity]} ELSE {})]

\* The completed runs among some rows, in the order of their completion.
InOrder(I) ==
  SetToSortSeq({stored[i] : i \in {j \in I : Final(stored[j])}}, LAMBDA q, r : q.completed < r.completed)

SetMin(S) == IF S = {} THEN None ELSE CHOOSE t \in S : \A u \in S : t <= u
SetMax(S) == IF S = {} THEN -1 ELSE CHOOSE t \in S : \A u \in S : u <= t

\* Mutant: any success ends a checksum signal.
ContextAnySuccess(before) ==
  LET past == {i \in DOMAIN stored : Final(stored[i]) /\ stored[i].completed < before}
      lastSuccess == SetMax({stored[i].completed : i \in past \cap Successes})
      failures == {i \in past : stored[i].outcome = "failed" /\ stored[i].completed > lastSuccess}
      checksums == {i \in past : ChecksumFailed(stored[i]) /\ stored[i].completed > lastSuccess}
  IN [failureStart |-> SetMin({stored[i].completed : i \in failures}),
      failures |-> Cardinality(failures),
      checksumStart |-> SetMin({stored[i].completed : i \in checksums})]

\* get_backup_incident_context_v1: the signals still open before a time.
Context(before) ==
  LET past == {i \in DOMAIN stored : Final(stored[i]) /\ stored[i].completed < before}
      lastSuccess == SetMax({stored[i].completed : i \in past \cap Successes})
      lastVerified == SetMax({stored[i].completed : i \in {j \in past \cap Successes :
                                                             stored[j].sha = TRUE}})
      failures == {i \in past : stored[i].outcome = "failed" /\ stored[i].completed > lastSuccess}
      checksums == {i \in past : ChecksumFailed(stored[i]) /\ stored[i].completed > lastVerified}
  IN [failureStart |-> SetMin({stored[i].completed : i \in failures}),
      failures |-> Cardinality(failures),
      checksumStart |-> SetMin({stored[i].completed : i \in checksums})]

\* seedSignalState.
Seed(c) ==
  LET start == SetMin({c.failureStart, c.checksumStart} \ {None})
  IN [signals |-> (IF c.failureStart # None THEN {"run_failure"} ELSE {})
                  \cup (IF c.checksumStart # None THEN {"checksum"} ELSE {}),
      start |-> start,
      severity |-> IF start = None THEN None
                   ELSE IF c.checksumStart # None \/ c.failures >= 2 THEN "critical" ELSE "warning",
      failures |-> IF start = None THEN 0 ELSE c.failures, recovered |-> {}]

\* get_backup_runs_v2, backupContextBoundary and the replay over a window.
History(since) == {i \in DOMAIN stored : Coalesce(stored[i].completed, stored[i].started) >= since}
Boundary(since) == Coalesce(SetMin({stored[i].started : i \in History(since)}), now)
Episodes(since) == FoldLeft(EpisodeStep, Seed(Context(Boundary(since))), InOrder(History(since)))

\* The same from the first run on.
AllEpisodes == FoldLeft(EpisodeStep, NoSignals, InOrder(DOMAIN stored))

-----------------------------------------------------------------------------
(* Properties *)

\* An archive is never forgotten: until its run is stored as a success its marker stays, so
\* that a later report can carry it.  (ivrm-backup-report-success.py and the ingest RPC.)
NoBackupForgotten ==
  \A a \in archived : a \in pending \/ a.id \in Successes

\* Reading from any time on gives the incidents the full history gives: the same recoveries
\* with the same severity, the same open signals, and no start before the true one; the start
\* differs only for an incident that one signal handed to the other before the window.
ContextReplaysHistory ==
  LET all == AllEpisodes IN
  \A since \in 0..now :
    LET w == Episodes(since)
        recoveries == {e \in all.recovered : e.at >= since}
    IN /\ w.signals = all.signals /\ w.severity = all.severity
       /\ {<<e.at, e.severity>> : e \in w.recovered} = {<<e.at, e.severity>> : e \in recoveries}
       /\ \A e \in recoveries, f \in w.recovered : e.at = f.at =>
            e.start = f.start \/ (e.start < f.start /\ e.severity = "critical")

\* An open incident of a target that ever succeeded shows in its health, so that a recovery
\* the Incident Center lists was an active incident before.
OpenEpisodeShows ==
  AllEpisodes.signals # {} /\ LatestSuccess # None =>
    \A paused \in BOOLEAN : Health(paused) \in {"warning", "critical"}
=============================================================================
