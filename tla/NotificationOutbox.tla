------------------------- MODULE NotificationOutbox -------------------------
(***************************************************************************)
(* The Notification Center for one signal key: the signal's state, the     *)
(* outbox rows its changes leave, and the dispatchers that claim rows and  *)
(* post them to Discord.  Signals meet only in the claim's transaction.    *)
(*                                                                         *)
(* A dispatcher makes several RPCs for one row, and everything else may    *)
(* happen in between: the signal recovers, the channel is switched off,    *)
(* another dispatcher runs.  An RPC is one step, but for the claim, which  *)
(* is a sequence of statements under READ COMMITTED: two of them look for  *)
(* rows and write them later without looking again, and what the claim     *)
(* wrote before such a wait is seen at once.                               *)
(***************************************************************************)
EXTENDS Integers, Sequences, FiniteSets

CONSTANTS
  Dispatcher,     \* runs of the edge function that overlap
  Deescalates,    \* TRUE for burn-rate signals, whose severity may fall
  Retirement,     \* how the signal is retired: "host_disabled", "backup_policy_disabled"
  MaxAttempts,    \* deliveries that may fail before a row does (5)
  AttemptLimit,   \* what the attempts column may hold (20)
  MaxRows,        \* bound: outbox rows
  MaxTime,        \* bound: occurred_at
  Opening,        \* bound: severities an incident opens with, of 1 (warning) and 2 (critical)
  Backdated,      \* bound: FALSE if what is observed after a retirement is younger than all
                  \* that was observed before
  MaxTroubles     \* bound: dispatchers lost or slow, answers lost, gates that failed, and
                  \* changes of the channel, of the maintenance and by retirement

None == "none"          \* null

ASSUME OutboxAssumption ==
  /\ IsFiniteSet(Dispatcher) /\ Dispatcher \cap {None, "lost"} = {}
  /\ Deescalates \in BOOLEAN
  /\ Retirement \subseteq {"host_disabled", "backup_policy_disabled"}
  /\ MaxAttempts \in Nat \ {0} /\ AttemptLimit \in Nat
  /\ MaxRows \in Nat /\ MaxTime \in Nat /\ MaxTroubles \in Nat
  /\ Opening \subseteq 1..2 /\ Backdated \in BOOLEAN

VARIABLES
  signal,     \* notification_signal_state of the key, with exists = FALSE for no row
  rows,       \* notification_outbox, by id; due: a claim is older than five minutes,
              \* the backoff of a retry is over; for the properties only: since, the
              \* opening of the row's episode; released, put back after a
              \* suppression; recalled, taken from the dispatcher that had claimed it
  ready,      \* notification_channel_ready_v1
  muted,      \* a maintenance, an age pause or a suppression covers the signal
  disp,       \* what each dispatcher is doing
  looked,     \* what the statement its claim has reached found, and has yet to write
  troubles,
  \* History, for the properties only.
  posted,     \* the row of every message Discord accepted, in order
  disturbed   \* per row: posts whose outcome the outbox could not learn or has forgotten

vars == <<signal, rows, ready, muted, disp, looked, troubles, posted, disturbed>>

Alert == {"opened", "escalated"}
Waiting == {"pending", "retry"}
Undelivered == Waiting \cup {"sending"}
Row == 1..Len(rows)
NoSignal == [exists |-> FALSE, active |-> FALSE, severity |-> 1, openedAt |-> 0, lastSeen |-> 0]
Idle == [pc |-> "idle", row |-> 0, reason |-> None, ok |-> FALSE]
Nothing == [at |-> None, rows |-> {}, reason |-> None]

Init ==
  /\ signal = NoSignal
  /\ rows = <<>>
  /\ ready \in BOOLEAN /\ muted \in BOOLEAN
  /\ disp = [d \in Dispatcher |-> Idle]
  /\ looked = [d \in Dispatcher |-> Nothing]
  /\ troubles = 0
  /\ posted = <<>>
  /\ disturbed = [r \in 1..MaxRows |-> 0]

\* notification_suppression_reason_v1, of the conditions that are evaluated at
\* the time of the call.
SuppressionReason ==
  IF ~ready THEN "channel_disabled" ELSE IF muted THEN "maintenance" ELSE None

\* Take a set of rows out of delivery.
Suppress(rs, S, reason) ==
  [r \in DOMAIN rs |-> IF r \in S THEN [rs[r] EXCEPT !.status = "suppressed", !.reason = reason,
                                         !.token = None, !.due = TRUE,
                                         !.recalled = @ \/ rs[r].status = "sending"]
                                  ELSE rs[r]]
InStatus(rs, S) == {r \in DOMAIN rs : rs[r].status \in S}
IsAlert(row) == row.transition \in Alert

\* Rows whose message may be on its way while the outbox forgets the claim.
Disturb(S) == disturbed' = [r \in 1..MaxRows |->
                              IF r \in S THEN disturbed[r] + 1 ELSE disturbed[r]]
TakenBack(S) == Disturb(S \cap InStatus(rows, {"sending"}))

-----------------------------------------------------------------------------
(* Signals *)

\* enqueue_notification_v1; the dedupe key is the transition and its time.
Enqueue(rs, transition, severity, at) ==
  IF \E r \in DOMAIN rs : rs[r].transition = transition /\ rs[r].occurred = at
  THEN rs
  ELSE Append(rs, [transition |-> transition, severity |-> severity, occurred |-> at,
                   status |-> IF SuppressionReason = None THEN "pending" ELSE "suppressed",
                   reason |-> SuppressionReason, attempts |-> 0, token |-> None,
                   due |-> TRUE, since |-> signal'.openedAt, released |-> FALSE, recalled |-> FALSE])

SignalFrame == UNCHANGED <<ready, muted, disp, looked, troubles, posted>>

\* An observation older than the last one is ignored.
Current(at) == ~signal.exists \/ at >= signal.lastSeen

\* apply_notification_signal_v1 with p_active, when the signal was not active.
Open(severity, at) ==
  /\ severity \in Opening
  /\ signal.exists \/ Backdated \/ \A r \in Row : rows[r].occurred < at
  /\ Current(at) /\ ~signal.active
  /\ Len(rows) < MaxRows
  /\ signal' = [exists |-> TRUE, active |-> TRUE, severity |-> severity,
                openedAt |-> at, lastSeen |-> at]
  /\ rows' = Enqueue(rows, "opened", severity, at)
  /\ UNCHANGED disturbed /\ SignalFrame

Escalate(severity, at) ==
  /\ Current(at) /\ signal.active
  /\ severity > signal.severity
  /\ Len(rows) < MaxRows
  /\ signal' = [signal EXCEPT !.severity = severity, !.lastSeen = at]
  /\ rows' = Enqueue(rows, "escalated", severity, at)
  /\ UNCHANGED disturbed /\ SignalFrame

\* Still active and no worse.  Only a burn-rate signal becomes milder, and takes
\* its undelivered critical rows back.
Repeat(severity, at) ==
  /\ Current(at) /\ signal.active
  /\ severity <= signal.severity
  /\ LET milder == Deescalates /\ severity < signal.severity
         old == {r \in InStatus(rows, Undelivered) :
                   milder /\ rows[r].severity = 2 /\ rows[r].occurred >= signal.openedAt}
     IN /\ signal' = [signal EXCEPT !.severity = IF milder THEN severity ELSE @, !.lastSeen = at]
        /\ rows' = Suppress(rows, old, "signal_deescalated_before_delivery")
        /\ TakenBack(old)
  /\ SignalFrame

OpenAlerts == {r \in InStatus(rows, Undelivered) :
                 IsAlert(rows[r]) /\ rows[r].occurred >= signal.openedAt}

\* A recovery first takes back the alerts of the episode that are not delivered.
Recover(at) ==
  /\ Current(at) /\ signal.active
  /\ Len(rows) < MaxRows
  /\ signal' = [signal EXCEPT !.active = FALSE, !.lastSeen = at]
  /\ rows' = Enqueue(Suppress(rows, OpenAlerts, "signal_recovered_before_delivery"),
                     "recovered", 0, at)
  /\ TakenBack(OpenAlerts)
  /\ SignalFrame

-----------------------------------------------------------------------------
(* The operator *)

Trouble == troubles < MaxTroubles /\ troubles' = troubles + 1

\* set_notification_channel_v1
SetChannel(on) ==
  /\ Trouble
  /\ ready' = on
  /\ rows' = IF on THEN rows ELSE Suppress(rows, InStatus(rows, Undelivered), "channel_disabled")
  /\ TakenBack(IF on THEN {} ELSE Row)
  /\ UNCHANGED <<signal, muted, disp, looked, posted>>

SetMuted(on) ==
  /\ Trouble
  /\ muted' = on
  /\ UNCHANGED <<signal, rows, ready, disp, looked, posted, disturbed>>

\* notification_host_disable_retire_v1, notification_backup_policy_retire_v1:
\* the signal is forgotten and none of its rows is left to deliver.  What is
\* observed after the host or the policy is enabled again opens it anew.
Retire(reason) ==
  /\ Trouble
  /\ signal' = NoSignal
  /\ rows' = Suppress(rows, InStatus(rows, Undelivered \cup {"suppressed"}), reason)
  /\ TakenBack(Row)
  /\ UNCHANGED <<ready, muted, disp, looked, posted>>

-----------------------------------------------------------------------------
(* claim_notification_outbox_v1: one statement after the other *)

\* The mutation: every claim is taken for a dead one.
TimedOutAll(rs) ==
  [r \in DOMAIN rs |-> IF rs[r].status = "sending"
                       THEN [rs[r] EXCEPT !.status = "retry", !.token = None, !.due = TRUE]
                       ELSE rs[r]]

\* Claims older than five minutes are given back, whoever holds them.
TimedOut(rs) ==
  [r \in DOMAIN rs |-> IF rs[r].status = "sending" /\ rs[r].due
                       THEN [rs[r] EXCEPT !.status = "retry", !.token = None,
                                          !.recalled = @ \/ rs[r].token \in Dispatcher]
                       ELSE rs[r]]
Overtaken == {r \in InStatus(rows, {"sending"}) : rows[r].due /\ rows[r].token \in Dispatcher}

Muted(rs) ==
  IF SuppressionReason = None THEN rs
  ELSE Suppress(rs, InStatus(rs, Waiting), SuppressionReason)

\* An alert whose episode is over is not delivered.
OfCurrentEpisode(row) == signal.exists /\ signal.active /\ row.occurred >= signal.openedAt
WithoutOldAlerts(rs) ==
  Suppress(rs, {r \in InStatus(rs, Waiting) :
                  IsAlert(rs[r]) /\ ~OfCurrentEpisode(rs[r])},
           "signal_recovered_before_delivery")

\* The mutation: an attempted delivery is good enough.
AttemptedBefore(rs, row) ==
  {k \in DOMAIN rs : IsAlert(rs[k]) /\ rs[k].attempts > 0 /\ rs[k].occurred <= row.occurred}

\* The mutation: only the opening counts as the report of an incident.
OpeningDeliveredBefore(rs, row) ==
  {k \in DOMAIN rs : /\ rs[k].transition = "opened" /\ rs[k].status = "sent"
                     /\ rs[k].occurred <= row.occurred}

DeliveredBefore(rs, row) ==
  {k \in DOMAIN rs : IsAlert(rs[k]) /\ rs[k].status = "sent" /\ rs[k].occurred <= row.occurred}

\* A recovery is delivered only after an alert of its episode.
LoneRecovery(rs, row) ==
  \A k \in DeliveredBefore(rs, row) :
    /\ signal.exists
    /\ rs[k].occurred < signal.openedAt
    /\ row.occurred >= signal.openedAt
WithoutLoneRecoveries(rs) ==
  LET lone == {r \in InStatus(rs, Waiting) :
                 rs[r].transition = "recovered" /\ LoneRecovery(rs, rs[r])}
      superseded == {r \in lone : signal.exists /\ signal.active
                                    /\ rs[r].occurred < signal.openedAt}
  IN Suppress(Suppress(rs, superseded, "superseded_by_new_incident"),
              lone \ superseded, "recovered_before_first_delivery")

Permanent == {"signal_recovered_before_delivery", "signal_deescalated_before_delivery",
              "backup_policy_disabled", "superseded_by_new_incident"}

\* Of the suppressed alerts of the current episode the latest one.
Before(rs, k, r) == \/ rs[k].occurred < rs[r].occurred
                    \/ rs[k].occurred = rs[r].occurred /\ k < r
Releasable(rs) ==
  LET candidates == {r \in InStatus(rs, {"suppressed"}) :
                       /\ IsAlert(rs[r]) /\ OfCurrentEpisode(rs[r])
                       /\ rs[r].reason \notin Permanent}
  IN {r \in candidates : \A k \in candidates \ {r} : Before(rs, k, r)}

\* The mutation: what was suppressed stays so.
FreedNever(rs, S) == rs

\* The rows found are put back, whatever has become of them since.
Freed(rs, S) ==
  [r \in DOMAIN rs |-> IF r \in S THEN [rs[r] EXCEPT !.status = "pending", !.reason = None,
                                         !.token = None, !.due = TRUE, !.released = TRUE]
                       ELSE rs[r]]
Released(rs) == IF SuppressionReason = None THEN Freed(rs, Releasable(rs)) ELSE rs

\* The mutation: a row does not wait for the earlier ones of its signal.
DeliverableAny(rs) == {r \in InStatus(rs, Waiting) : rs[r].due}

Deliverable(rs) ==
  {r \in InStatus(rs, Waiting) :
     /\ rs[r].due
     /\ \A k \in InStatus(rs, Undelivered) \ {r} : ~Before(rs, k, r)}

\* The rows after one more statement (the set makes TLC evaluate rs only once).
Then(rs, Statement(_)) == CHOOSE after \in {Statement(before) : before \in {rs}} : TRUE

\* The first four statements, or what is left of them, and the one that puts back.
Cleared(d) ==
  LET quiet == IF looked[d].at = "mute"
               THEN Suppress(rows, looked[d].rows, looked[d].reason)
               ELSE Then(TimedOut(rows), Muted)
  IN Then(Then(quiet, WithoutOldAlerts), WithoutLoneRecoveries)
Prepared(d) == IF looked[d].at = "release" THEN Freed(rows, looked[d].rows)
               ELSE Then(Cleared(d), Released)

\* Rows whose delivery the claim forgets: another claim held them too long, or has
\* taken or sent them since this one looked.
Forgotten(d) == IF looked[d].at = None THEN Overtaken
                ELSE looked[d].rows \cap InStatus(rows, {"sending", "sent"})

Claiming(d) == /\ disp[d].pc = "idle"
               /\ looked[d].at = None => ready
               /\ Disturb(Forgotten(d))
ClaimFrame == UNCHANGED <<signal, ready, muted, troubles, posted>>

\* The second statement has found the rows to mute and waits for one of them.
ClaimLooks(d) ==
  /\ Claiming(d)
  /\ looked[d].at = None
  /\ SuppressionReason # None
  /\ rows' = TimedOut(rows)
  /\ InStatus(rows', Waiting) # {}
  /\ looked' = [looked EXCEPT ![d] = [at |-> "mute", rows |-> InStatus(rows', Waiting),
                                      reason |-> SuppressionReason]]
  /\ ClaimFrame /\ UNCHANGED disp

\* The fifth statement has found the row to put back and waits for it.
ClaimFrees(d) ==
  /\ Claiming(d)
  /\ looked[d].at # "release"
  /\ SuppressionReason = None
  /\ rows' = Cleared(d)
  /\ Releasable(rows') # {}
  /\ looked' = [looked EXCEPT ![d] = [at |-> "release", rows |-> Releasable(rows'), reason |-> None]]
  /\ ClaimFrame /\ UNCHANGED disp

\* The last statement picks a row.  One whose attempts column is full makes the
\* claim raise: no step.
Claim(d) ==
  /\ Claiming(d)
  /\ \E rs \in {Prepared(d)} :
       IF Deliverable(rs) = {}
       THEN rows' = rs /\ UNCHANGED disp
       ELSE \E r \in Deliverable(rs) :
              /\ rs[r].attempts < AttemptLimit
              /\ rows' = [rs EXCEPT ![r].status = "sending", ![r].token = d, ![r].due = FALSE,
                                    ![r].attempts = @ + 1]
              /\ disp' = [disp EXCEPT ![d] = [Idle EXCEPT !.pc = "gate", !.row = r]]
  /\ looked' = [looked EXCEPT ![d] = Nothing]
  /\ ClaimFrame

-----------------------------------------------------------------------------
(* deliverLegacyRow *)

Mine(d) == rows[disp[d].row].status = "sending" /\ rows[disp[d].row].token = d
DispFrame == UNCHANGED <<signal, ready, muted, looked>>

\* notification_delivery_block_reason_v1
BlockReason(d) ==
  LET row == rows[disp[d].row] IN
  CASE ~Mine(d) -> "claim_mismatch"
    [] Mine(d) /\ SuppressionReason # None -> SuppressionReason
    [] Mine(d) /\ SuppressionReason = None /\ IsAlert(row) ->
         IF OfCurrentEpisode(row) THEN None ELSE "signal_recovered_before_delivery"
    [] OTHER ->
         IF signal.exists /\ row.occurred < signal.openedAt THEN "superseded_by_new_incident"
         ELSE IF LoneRecovery(rows, row) THEN "recovered_before_first_delivery" ELSE None

Gate(d) ==
  /\ disp[d].pc = "gate"
  /\ disp' = [disp EXCEPT ![d].pc = IF BlockReason(d) = None THEN "post" ELSE "suppress",
                          ![d].reason = BlockReason(d)]
  /\ DispFrame /\ UNCHANGED <<rows, troubles, posted, disturbed>>

GateFails(d) ==
  /\ disp[d].pc = "gate"
  /\ Trouble
  /\ disp' = [disp EXCEPT ![d].pc = "suppress", ![d].reason = "delivery_gate_failed"]
  /\ DispFrame /\ UNCHANGED <<rows, posted, disturbed>>

\* suppress_notification_delivery_v1
SuppressRow(d) ==
  /\ disp[d].pc = "suppress"
  /\ rows' = IF Mine(d) THEN Suppress(rows, {disp[d].row}, disp[d].reason) ELSE rows
  /\ disp' = [disp EXCEPT ![d] = Idle]
  /\ DispFrame /\ UNCHANGED <<troubles, posted, disturbed>>

\* Discord accepts the message or refuses it.
Post(d) ==
  /\ disp[d].pc = "post"
  /\ \E ok \in BOOLEAN :
       /\ posted' = IF ok THEN Append(posted, disp[d].row) ELSE posted
       /\ disp' = [disp EXCEPT ![d].pc = "complete", ![d].ok = ok]
  /\ DispFrame /\ UNCHANGED <<rows, troubles, disturbed>>

\* It accepts the message and the answer comes too late.
PostTimesOut(d) ==
  /\ disp[d].pc = "post"
  /\ Trouble
  /\ posted' = Append(posted, disp[d].row)
  /\ Disturb({disp[d].row})
  /\ disp' = [disp EXCEPT ![d].pc = "complete", ![d].ok = FALSE]
  /\ DispFrame /\ UNCHANGED rows

\* complete_notification_delivery_v1
Completed(row, ok) ==
  IF ok THEN [row EXCEPT !.status = "sent", !.token = None, !.due = TRUE]
  ELSE IF row.attempts >= MaxAttempts
       THEN [row EXCEPT !.status = "failed", !.token = None, !.due = TRUE]
       ELSE [row EXCEPT !.status = "retry", !.token = None, !.due = FALSE]

Complete(d) ==
  /\ disp[d].pc = "complete"
  /\ rows' = IF Mine(d) THEN [rows EXCEPT ![disp[d].row] = Completed(@, disp[d].ok)] ELSE rows
  /\ disp' = [disp EXCEPT ![d] = Idle]
  /\ DispFrame /\ UNCHANGED <<troubles, posted, disturbed>>

\* The dispatcher is lost, or an RPC of it fails: its claim stays behind.
Lost(d) ==
  /\ disp[d].pc # "idle"
  /\ Trouble
  /\ rows' = IF Mine(d) THEN [rows EXCEPT ![disp[d].row].token = "lost"] ELSE rows
  /\ Disturb({disp[d].row})
  /\ disp' = [disp EXCEPT ![d] = Idle]
  /\ DispFrame /\ UNCHANGED posted

-----------------------------------------------------------------------------
(* Time *)

\* Five minutes after the claim of a dispatcher that is lost, or that still waits
\* for the answer of an RPC; and after the backoff of a retry.
ClaimAges(r) ==
  /\ r \in Row /\ rows[r].status = "sending" /\ ~rows[r].due
  /\ IF rows[r].token = "lost" THEN UNCHANGED troubles ELSE Trouble
  /\ rows' = [rows EXCEPT ![r].due = TRUE]
  /\ UNCHANGED <<signal, ready, muted, disp, looked, posted, disturbed>>

BackoffEnds(r) ==
  /\ r \in Row /\ rows[r].status = "retry" /\ ~rows[r].due
  /\ rows' = [rows EXCEPT ![r].due = TRUE]
  /\ UNCHANGED <<signal, ready, muted, disp, looked, troubles, posted, disturbed>>

Work(d) == Claim(d) \/ Gate(d) \/ SuppressRow(d) \/ Post(d) \/ Complete(d)
Looks(d) == ClaimLooks(d) \/ ClaimFrees(d)
Passes(r) == ClaimAges(r) \/ BackoffEnds(r)

Next ==
  \/ \E at \in 1..MaxTime :
       \/ \E severity \in 1..2 : Open(severity, at) \/ Escalate(severity, at) \/ Repeat(severity, at)
       \/ Recover(at)
  \/ \E on \in BOOLEAN : SetChannel(on) \/ SetMuted(on)
  \/ \E reason \in Retirement : Retire(reason)
  \/ \E d \in Dispatcher : Work(d) \/ Looks(d) \/ GateFails(d) \/ PostTimesOut(d) \/ Lost(d)
  \/ \E r \in 1..MaxRows : Passes(r)

Spec == Init /\ [][Next]_vars

\* The scheduler kicks a dispatcher every minute, and time passes.
FairSpec == /\ Spec
            /\ \A d \in Dispatcher : WF_vars(Work(d))
            /\ \A r \in 1..MaxRows : WF_vars(Passes(r))

-----------------------------------------------------------------------------
(* Properties *)

Posts(r) == Cardinality({i \in 1..Len(posted) : posted[i] = r})

\* A row is sent twice only if the outbox could not know, or has forgotten, what
\* became of a delivery: its outcome was lost, its claim was taken back or has
\* become older than five minutes, or another claim looked at the row before
\* this one took it and wrote it afterwards.
NoDoubleSend == \A r \in Row : Posts(r) <= 1 + disturbed[r]

Tells(alert, recovery) == IsAlert(alert) /\ alert.occurred \in recovery.since..recovery.occurred

\* Discord never hears of a recovery whose incident it has not heard of, however
\* alerts were suppressed, retried or overtaken by the recovery.
RecoveryFollowsAlert ==
  \A i \in 1..Len(posted) :
    rows[posted[i]].transition = "recovered" =>
      \E k \in 1..(i - 1) : Tells(rows[posted[k]], rows[posted[i]])

\* The messages of a signal arrive in the order of its transitions, through
\* retries, backoffs and lost dispatchers.  Out of order come only a row that
\* was put back after a suppression and one recalled when already under way.
PostedInOrder ==
  \A i, k \in 1..Len(posted) :
    i < k => \/ posted[i] <= posted[k]
             \/ rows[posted[k]].released
             \/ rows[posted[k]].recalled

\* An incident that lasts, on a channel that is on and outside maintenance, is
\* reported or its delivery has failed for good, whatever suppressed it before:
\* maintenance, a channel switched off, a failed gate, a retired host.  It must
\* not have opened in the very instant of a recovery, whose rows it would share.
Lasting == /\ signal.active /\ ready /\ ~muted
           /\ \A r \in Row : rows[r].transition = "recovered" => rows[r].occurred # signal.openedAt
Reported == \E r \in Row : /\ IsAlert(rows[r]) /\ rows[r].occurred >= signal.openedAt
                           /\ rows[r].status \in {"sent", "failed"} \/ Posts(r) > 0
PersistingIncidentIsReported == <>[]Lasting => []<>Reported

\* The end of a reported incident is not dropped by the rule on lone recoveries,
\* and not left waiting either: it is sent, fails for good, or an operator or a
\* gate that failed suppresses it.
Over == /\ signal.exists /\ ~signal.active /\ ready /\ ~muted
        /\ signal.lastSeen > signal.openedAt
EndSettled ==
  \E r \in Row : /\ rows[r].transition = "recovered" /\ rows[r].occurred >= signal.openedAt
                 /\ rows[r].status \in {"sent", "failed", "suppressed"}
                 /\ rows[r].reason # "recovered_before_first_delivery"
Told == \E r \in Row : IsAlert(rows[r]) /\ rows[r].occurred >= signal.openedAt /\ rows[r].status = "sent"
RecoveryIsReported == <>[](Over /\ Told) => []<>EndSettled
=============================================================================
