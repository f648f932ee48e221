--------------------------- MODULE StatusCenter ---------------------------
(***************************************************************************)
(* One item of the public Status Center (an incident, a maintenance notice *)
(* or an announcement): its administrators' forms, the RPCs they submit,   *)
(* the public feed, and the delivery of its lifecycle events to Discord.   *)
(*                                                                         *)
(* An RPC takes its time stamp first and waits for the row's lock after,   *)
(* so several may be under way and commit in another order.  From the lock *)
(* on it is one step, the event its trigger writes included.               *)
(***************************************************************************)
EXTENDS Integers, Sequences, FiniteSets

CONSTANTS
  None,          \* null
  Kinds,         \* kinds of the item
  Schedules,     \* [from, to]: started_at, starts_at .. ends_at, publish_at .. expires_at
  Dispatcher,    \* runs of the edge function that overlap
  Stages,        \* the lifecycle states the updates use
  Lead,          \* how far in the future an incident may start (5 min)
  MaxAttempts,   \* deliveries that may fail before a row does (5)
  AttemptLimit,  \* what the attempts column may hold (20)
  FeedUpdates,   \* updates of an incident the feed's reader accepts (500)
  MaxTime,       \* bound: the clock, by kind
  MaxForms,      \* bound: forms the page renders
  MaxSubmits,    \* bound: submissions
  MaxToggles,    \* bound: changes of the channel and of the global suppression
  MaxFaults      \* bound: dispatchers lost, answers lost, gates that failed

Kind == {"incident", "maintenance", "announcement"}
Resolved == 4
Lifecycle == 1..Resolved   \* investigating, identified, monitoring, resolved
FeedStatus == {"unavailable", "active", "resolved", "scheduled", "in_progress", "completed", "cancelled", "past"}

ASSUME StatusAssumption ==
  /\ Kinds \subseteq Kind /\ Stages \subseteq Lifecycle /\ MaxTime \in [Kind -> Nat]
  /\ IsFiniteSet(Dispatcher) /\ Dispatcher \cap {None, "lost", "overdue"} = {}
  /\ None \notin {"lost", "overdue"} \cup FeedStatus
  /\ \A s \in Schedules : s.from \in Nat /\ s.to \in Nat \cup {None}
  /\ \A c \in {Lead, MaxAttempts, AttemptLimit, FeedUpdates, MaxForms, MaxSubmits,
               MaxToggles, MaxFaults} : c \in Nat

VARIABLES
  now,
  item,        \* its row; state "absent" before it is created
  updates,     \* status_incident_updates, in the order of their ids
  ledger,      \* the requests recorded for a maintenance notice or an announcement
  forms,       \* what the page offered, by request id
  submits,
  calls,       \* RPCs past their time stamp
  ready,       \* the channel is enabled and configured
  muted,       \* a global suppression is on
  deliveries,  \* events with their delivery, by id; recalled is history
  disp,        \* what each dispatcher is doing
  toggles, faults,
  \* History, for the properties only.
  answer,      \* the last submission answered with success: [req, life], or None
  posted,      \* the delivery of every message Discord accepted, in order
  disturbed    \* per delivery: posts whose outcome was not recorded

content == <<item, updates, ledger>>
admin == <<forms, submits, calls, answer>>
channel == <<ready, muted, toggles>>
sending == <<disp, faults, posted, disturbed>>
vars == <<now, content, admin, channel, deliveries, sending>>

Idle == [pc |-> "idle", row |-> 0, ok |-> FALSE]
MaxEvents == MaxForms

Init ==
  /\ now = 0
  /\ \E k \in Kinds : item = [kind |-> k, state |-> "absent", life |-> 1, from |-> 0, to |-> None,
                              archivedAt |-> None]
  /\ updates = <<>> /\ ledger = {}
  /\ forms = <<>> /\ submits = 0 /\ calls = {}
  /\ ready = TRUE /\ muted = FALSE /\ toggles = 0
  /\ deliveries = <<>>
  /\ disp = [d \in Dispatcher |-> Idle] /\ faults = 0
  /\ answer = None /\ posted = <<>> /\ disturbed = [r \in 1..MaxEvents |-> 0]

-----------------------------------------------------------------------------
(* Forms and requests *)

\* The schedules a create accepts at this instant: the route's check and the RPC's.
MayCreateIncident(s) == s.from <= now + Lead
MayCreateMaintenance(s) == s.to # None /\ s.to > s.from /\ s.to > now
MayCreateAnnouncement(s) == s.to # None => s.to > s.from /\ s.to > now

\* create_status_*_v1.  A repeated create finds the row of its key and changes nothing.
Create(s) ==
  /\ item.state = "absent"
  /\ item.kind = "incident" => MayCreateIncident(s)
  /\ item.kind = "maintenance" => MayCreateMaintenance(s)
  /\ item.kind = "announcement" => MayCreateAnnouncement(s)
  /\ item' = [item EXCEPT !.state = "draft", !.from = s.from, !.to = s.to]
  /\ UNCHANGED <<now, updates, ledger, admin, channel, deliveries, sending>>

\* What the page offers for the item it was rendered with.
OfferedForIncident ==
  CASE item.state = "draft" -> "publish"
    [] item.state = "published" /\ item.life # Resolved -> "update"
    [] OTHER -> None

OfferedForMaintenance ==
  CASE item.state = "draft" -> "publish"
    [] item.state = "published" /\ item.from > now -> "cancel"
    [] OTHER -> None

OfferedForAnnouncement ==
  CASE item.state = "draft" -> "publish"
    [] item.state = "published" -> "archive"
    [] OTHER -> None

Offered == CASE item.kind = "incident" -> OfferedForIncident
             [] item.kind = "maintenance" -> OfferedForMaintenance
             [] item.kind = "announcement" -> OfferedForAnnouncement

\* Every form carries a request id of its own.
OpenForm ==
  /\ Len(forms) < MaxForms /\ Offered # None
  /\ forms' = Append(forms, [op |-> Offered, life |-> item.life])
  /\ UNCHANGED <<now, content, submits, calls, answer, channel, deliveries, sending>>

\* The states the form's list offers; the text of an update goes with its state.
Choices(form) == IF form.op = "update" THEN {l \in Stages : l >= form.life} ELSE {form.life}

Recorded(q) == {i \in 1..Len(updates) : updates[i].req = q}

Submit == submits < MaxSubmits /\ submits' = submits + 1
Call(q, life) == calls' = calls \cup {[req |-> q, life |-> life, at |-> now]} /\ UNCHANGED answer
SubmitFrame == UNCHANGED <<now, content, forms, channel, deliveries, sending>>

\* A submission reaches its RPC, which takes the time; an update that finds its
\* request recorded answers at once, without the lock.
SubmitIncident(q, life) ==
  /\ item.kind = "incident" /\ Submit
  /\ life \in Choices(forms[q])
  /\ IF forms[q].op = "update" /\ Recorded(q) # {}
     THEN /\ answer' = IF \E i \in Recorded(q) : updates[i].life = life
                       THEN [req |-> q, life |-> life] ELSE None
          /\ UNCHANGED calls
     ELSE Call(q, life)
  /\ SubmitFrame

SubmitMaintenance(q) ==
  /\ item.kind = "maintenance" /\ Submit
  /\ forms[q].op \in {"publish", "cancel"} /\ Call(q, item.life)
  /\ SubmitFrame

SubmitAnnouncement(q) ==
  /\ item.kind = "announcement" /\ Submit
  /\ forms[q].op \in {"publish", "archive"} /\ Call(q, item.life)
  /\ SubmitFrame

-----------------------------------------------------------------------------
(* The RPCs, from the row's lock to the commit *)

\* create_status_notification_event_v1: the event and its one delivery.
Event(type, at) ==
  deliveries' = Append(deliveries,
    [type |-> type, occurred |-> at, status |-> IF ready /\ ~muted THEN "pending" ELSE "suppressed",
     attempts |-> 0, due |-> TRUE, token |-> None, recalled |-> FALSE])

Answer(c, ok) ==
  /\ calls' = calls \ {c}
  /\ answer' = IF ok THEN [req |-> c.req, life |-> c.life] ELSE None
  /\ UNCHANGED <<now, forms, submits, channel, sending>>

\* The request changes nothing: it was applied before, or it is refused.
Reply(c, ok) == Answer(c, ok) /\ UNCHANGED <<content, deliveries>>

\* publish_status_incident_v1.  A repeat whose incident has moved on is a conflict.
PublishIncident(c) ==
  \/ /\ item.state = "draft"
     /\ item' = [item EXCEPT !.state = "published"]
     /\ updates' = Append(updates, [req |-> c.req, life |-> item.life, at |-> c.at])
     /\ Event("published", c.at)
     /\ Answer(c, TRUE) /\ UNCHANGED ledger
  \/ /\ item.state = "published"
     /\ Reply(c, \A i \in Recorded(c.req) : updates[i].life = item.life)

\* Mutant: the request id of an update is not unique.
MayAppendTwice(c) ==
  /\ item.state = "published" /\ item.life # Resolved
  /\ c.life >= item.life
  /\ c.life = Resolved => c.at >= item.from

\* append_status_incident_update_v1 once it has the lock: forward only, not before
\* the incident's start, and the request id is unique.
MayAppend(c) ==
  /\ item.state = "published" /\ item.life # Resolved
  /\ c.life >= item.life
  /\ c.life = Resolved => c.at >= item.from
  /\ Recorded(c.req) = {}

AppendUpdate(c) ==
  IF MayAppend(c)
  THEN /\ item' = [item EXCEPT !.life = c.life]
       /\ updates' = Append(updates, [req |-> c.req, life |-> c.life, at |-> c.at])
       /\ Event(IF c.life = Resolved THEN "resolved" ELSE "update", c.at)
       /\ Answer(c, TRUE) /\ UNCHANGED ledger
  ELSE Reply(c, FALSE)

\* Publish, cancel and archive of the other kinds share their shape: a recorded
\* request is answered, a refused one changes nothing, any other is recorded and
\* makes its change unless the item has it already.
Refused(c) ==
  CASE forms[c.req].op = "publish" ->
         \/ item.state \in {"cancelled", "archived"}
         \/ item.kind = "maintenance" /\ item.to <= c.at
         \/ item.kind = "announcement" /\ item.state = "draft" /\ item.to # None /\ item.to <= c.at
    [] forms[c.req].op = "cancel" ->
         item.state = "draft" \/ (item.state = "published" /\ c.at >= item.from)
    [] forms[c.req].op = "archive" -> item.state = "draft"

Target(op) == CASE op = "publish" -> "published" [] op = "cancel" -> "cancelled"
                [] op = "archive" -> "archived"

Changed(c) == [item EXCEPT !.state = Target(forms[c.req].op),
                           !.archivedAt = IF forms[c.req].op = "archive" THEN c.at ELSE @]

\* The triggers on publication_state.  An announcement's event waits for publish_at.
Announce(c) ==
  CASE forms[c.req].op = "archive" -> UNCHANGED deliveries
    [] forms[c.req].op = "cancel" -> Event("cancelled", c.at)
    [] forms[c.req].op = "publish" ->
         Event("published", IF item.kind = "announcement" THEN item.from ELSE c.at)

Change(c) ==
  \/ c.req \in ledger /\ Reply(c, TRUE)
  \/ c.req \notin ledger /\ Refused(c) /\ Reply(c, FALSE)
  \/ /\ c.req \notin ledger /\ ~Refused(c)
     /\ ledger' = ledger \cup {c.req}
     /\ IF item.state = Target(forms[c.req].op)
        THEN UNCHANGED <<item, deliveries>>
        ELSE item' = Changed(c) /\ Announce(c)
     /\ Answer(c, TRUE) /\ UNCHANGED updates

Commit(c) ==
  IF item.kind # "incident" THEN Change(c)
  ELSE IF forms[c.req].op = "publish" THEN PublishIncident(c) ELSE AppendUpdate(c)

-----------------------------------------------------------------------------
(* The public feed *)

\* Mutant: the feed shows every archived announcement whose time has come.
AnnouncementShownAlways ==
  item.state \in {"published", "archived"} /\ item.from <= now

\* An announcement archived before its time was cancelled, and is never shown.
AnnouncementShown ==
  /\ item.state \in {"published", "archived"} /\ item.from <= now
  /\ item.state = "archived" => item.archivedAt >= item.from

\* What getPublicStatusFeed shows of an item that is public: None when it is not
\* listed, "unavailable" when the reader refuses the whole feed.
IncidentInFeed ==
  IF Len(updates) > FeedUpdates THEN "unavailable"
  ELSE IF item.life = Resolved THEN "resolved" ELSE "active"

MaintenanceInFeed ==
  IF item.state = "cancelled" THEN "cancelled"
  ELSE IF now < item.from THEN "scheduled"
  ELSE IF now < item.to THEN "in_progress" ELSE "completed"

AnnouncementInFeed ==
  IF ~AnnouncementShown THEN None
  ELSE IF item.state = "published" /\ (item.to = None \/ item.to > now) THEN "active" ELSE "past"

\* get_status_public_feed_v1
Feed ==
  IF item.state \in {"absent", "draft"} THEN None
  ELSE CASE item.kind = "incident" -> IncidentInFeed
         [] item.kind = "maintenance" -> MaintenanceInFeed
         [] item.kind = "announcement" -> AnnouncementInFeed

-----------------------------------------------------------------------------
(* The channel *)

Undelivered == {"pending", "retry", "sending"}
Row == 1..Len(deliveries)
InStatus(rs, S) == {r \in DOMAIN rs : rs[r].status \in S}
Disturb(S) == disturbed' = [r \in 1..MaxEvents |-> IF r \in S THEN disturbed[r] + 1 ELSE disturbed[r]]

Suppress(rs, S) ==
  [r \in DOMAIN rs |-> IF r \in S THEN [rs[r] EXCEPT !.status = "suppressed", !.token = None,
                                         !.recalled = @ \/ rs[r].status = "sending"]
                                  ELSE rs[r]]

Toggle == toggles < MaxToggles /\ toggles' = toggles + 1

\* set_notification_channel_v1
SetChannel(on) ==
  /\ Toggle
  /\ ready' = on
  /\ deliveries' = IF on THEN deliveries ELSE Suppress(deliveries, InStatus(deliveries, Undelivered))
  /\ Disturb(IF on THEN {} ELSE InStatus(deliveries, {"sending"}))
  /\ UNCHANGED <<now, content, admin, muted, disp, faults, posted>>

SetMuted(on) ==
  /\ Toggle
  /\ muted' = on
  /\ UNCHANGED <<now, content, admin, ready, deliveries, sending>>

-----------------------------------------------------------------------------
(* claim_notification_deliveries_v1 *)

\* Claims older than five minutes are given back; what waits for a channel that is
\* off or muted is given up.
Prepared ==
  LET back == [r \in Row |-> IF deliveries[r].token = "overdue"
                             THEN [deliveries[r] EXCEPT !.status = "retry", !.token = None, !.due = TRUE]
                             ELSE deliveries[r]]
  IN IF ready /\ ~muted THEN back ELSE Suppress(back, InStatus(back, {"pending", "retry"}))

\* Mutant: the claim as it was before the ordering migration.
DeliverableAny(rs) ==
  {r \in InStatus(rs, {"pending", "retry"}) : rs[r].due /\ rs[r].occurred <= now}

Earlier(rs, k, r) == \/ rs[k].occurred < rs[r].occurred
                     \/ rs[k].occurred = rs[r].occurred /\ k < r

\* A delivery waits for the earlier ones of its item.
Deliverable(rs) ==
  {r \in InStatus(rs, {"pending", "retry"}) :
     /\ rs[r].due /\ rs[r].occurred <= now
     /\ \A k \in InStatus(rs, Undelivered) \ {r} : ~Earlier(rs, k, r)}

\* A row whose attempts column is full makes the claim raise: no step.
Claim(d) ==
  /\ disp[d].pc = "idle"
  /\ \E rs \in {Prepared} :
       IF Deliverable(rs) = {}
       THEN deliveries' = rs /\ UNCHANGED disp
       ELSE \E r \in Deliverable(rs) :
              /\ rs[r].attempts < AttemptLimit
              /\ deliveries' = [rs EXCEPT ![r].status = "sending", ![r].token = d, ![r].attempts = @ + 1]
              /\ disp' = [disp EXCEPT ![d] = [Idle EXCEPT !.pc = "gate", !.row = r]]
  /\ UNCHANGED <<now, content, admin, channel, faults, posted, disturbed>>

-----------------------------------------------------------------------------
(* deliverEventRow *)

Mine(d) == deliveries[disp[d].row].token = d
DispFrame == UNCHANGED <<now, content, admin, channel>>

\* The event still tells what is true of the item.
StillTrue(type) ==
  CASE item.kind = "incident" -> type \in {"published", "update"} => item.life # Resolved
    [] item.kind = "maintenance" -> type = "published" => item.state # "cancelled"
    [] item.kind = "announcement" ->
         item.state = "published" /\ item.from <= now /\ (item.to = None \/ item.to > now)

\* notification_event_delivery_block_reason_v1
MayPost(d) == Mine(d) /\ ready /\ ~muted /\ StillTrue(deliveries[disp[d].row].type)

Gate(d) ==
  /\ disp[d].pc = "gate"
  /\ disp' = [disp EXCEPT ![d].pc = IF MayPost(d) THEN "post" ELSE "suppress"]
  /\ DispFrame /\ UNCHANGED <<deliveries, faults, posted, disturbed>>

Fault == faults < MaxFaults /\ faults' = faults + 1

GateFails(d) ==
  /\ disp[d].pc = "gate" /\ Fault
  /\ disp' = [disp EXCEPT ![d].pc = "suppress"]
  /\ DispFrame /\ UNCHANGED <<deliveries, posted, disturbed>>

\* suppress_notification_event_delivery_v1
SuppressRow(d) ==
  /\ disp[d].pc = "suppress"
  /\ deliveries' = IF Mine(d) THEN Suppress(deliveries, {disp[d].row}) ELSE deliveries
  /\ disp' = [disp EXCEPT ![d] = Idle]
  /\ DispFrame /\ UNCHANGED <<faults, posted, disturbed>>

\* Discord accepts the message or refuses it; late: it accepts, and the answer times out.
Post(d, late) ==
  /\ disp[d].pc = "post"
  /\ \E accepted \in IF late THEN {TRUE} ELSE BOOLEAN :
       /\ posted' = IF accepted THEN Append(posted, disp[d].row) ELSE posted
       /\ disp' = [disp EXCEPT ![d].pc = "complete", ![d].ok = accepted /\ ~late]
  /\ IF late THEN Fault /\ Disturb({disp[d].row}) ELSE UNCHANGED <<faults, disturbed>>
  /\ DispFrame /\ UNCHANGED deliveries

\* complete_notification_event_delivery_v1
Completed(row, ok) ==
  IF ok THEN [row EXCEPT !.status = "sent", !.token = None]
  ELSE IF row.attempts >= MaxAttempts THEN [row EXCEPT !.status = "failed", !.token = None]
  ELSE [row EXCEPT !.status = "retry", !.token = None, !.due = FALSE]

Complete(d) ==
  /\ disp[d].pc = "complete"
  /\ deliveries' = IF Mine(d) THEN [deliveries EXCEPT ![disp[d].row] = Completed(@, disp[d].ok)]
                   ELSE deliveries
  /\ disp' = [disp EXCEPT ![d] = Idle]
  /\ DispFrame /\ UNCHANGED <<faults, posted, disturbed>>

\* The dispatcher is lost, or an RPC of it fails: its claim stays behind.
Lost(d) ==
  /\ disp[d].pc # "idle" /\ Fault
  /\ deliveries' = IF Mine(d) THEN [deliveries EXCEPT ![disp[d].row].token = "lost"] ELSE deliveries
  /\ Disturb({disp[d].row})
  /\ disp' = [disp EXCEPT ![d] = Idle]
  /\ DispFrame /\ UNCHANGED posted

-----------------------------------------------------------------------------
(* Time *)

Tick ==
  /\ now < MaxTime[item.kind]
  /\ now' = now + 1
  /\ UNCHANGED <<content, admin, channel, deliveries, sending>>

\* Five minutes after a claim was left behind, and after the backoff of a retry.
ClaimAges(r) ==
  /\ r \in Row /\ deliveries[r].token = "lost"
  /\ deliveries' = [deliveries EXCEPT ![r].token = "overdue"]
  /\ UNCHANGED <<now, content, admin, channel, sending>>

BackoffEnds(r) ==
  /\ r \in Row /\ deliveries[r].status = "retry" /\ ~deliveries[r].due
  /\ deliveries' = [deliveries EXCEPT ![r].due = TRUE]
  /\ UNCHANGED <<now, content, admin, channel, sending>>

Next ==
  \/ \E s \in Schedules : Create(s)
  \/ OpenForm
  \/ \E q \in 1..Len(forms) : \/ \E life \in Lifecycle : SubmitIncident(q, life)
                              \/ SubmitMaintenance(q) \/ SubmitAnnouncement(q)
  \/ \E c \in calls : Commit(c)
  \/ \E on \in BOOLEAN : SetChannel(on) \/ SetMuted(on)
  \/ \E d \in Dispatcher : \/ Claim(d) \/ Gate(d) \/ GateFails(d) \/ SuppressRow(d) \/ Complete(d) \/ Lost(d)
                           \/ \E late \in BOOLEAN : Post(d, late)
  \/ \E r \in 1..MaxEvents : ClaimAges(r) \/ BackoffEnds(r)
  \/ Tick

Spec == Init /\ [][Next]_vars

-----------------------------------------------------------------------------
(* Properties *)

Transitions ==
  CASE item.kind = "incident" -> Len(updates)
    [] item.kind = "maintenance" -> CASE item.state = "published" -> 1 [] item.state = "cancelled" -> 2 [] OTHER -> 0
    [] item.kind = "announcement" -> IF item.state \in {"published", "archived"} THEN 1 ELSE 0

\* However often a form is submitted, and whoever else submits meanwhile, a request
\* takes effect at most once, and a request answered with success has taken effect.
\* Every public transition has one event; an incident never moves backwards in the
\* order of its updates, and is where the last of them left it.
RequestsTakeEffectOnce ==
  /\ \A i, k \in 1..Len(updates) : i < k => /\ updates[i].req # updates[k].req
                                            /\ updates[i].life <= updates[k].life
  /\ updates # <<>> => item.life = updates[Len(updates)].life
  /\ Len(deliveries) = Transitions
  /\ answer # None =>
       CASE forms[answer.req].op = "update" -> \E i \in Recorded(answer.req) : updates[i].life = answer.life
         [] forms[answer.req].op = "publish" -> item.state \notin {"absent", "draft"}
         [] OTHER -> item.state = Target(forms[answer.req].op)

\* The feed never takes back the end of an item: what was resolved, cancelled or
\* past stays so, what was completed is at most cancelled by an RPC that waited
\* since before the start, and an announcement withdrawn before its time never
\* appears, however the archive raced with that time.
FeedNeverRevives ==
  [][/\ Feed \in {"resolved", "cancelled", "past"} => Feed' \in {Feed, None}
     /\ Feed = "completed" => Feed' \in {"completed", "cancelled"}
     /\ item.state = "archived" /\ Feed = None => Feed' = None]_vars

Posts(r) == Cardinality({i \in 1..Len(posted) : posted[i] = r})

\* Concurrent dispatchers post a message once, except for a delivery whose outcome
\* was lost or whose claim was taken away, and no message comes after one that is
\* later both by its time and by its commit, unless it was recalled when under way.
PostedOnceInOrder ==
  /\ \A r \in Row : Posts(r) <= 1 + disturbed[r]
  /\ \A i, k \in 1..Len(posted) :
       i < k /\ posted[k] < posted[i] /\ Earlier(deliveries, posted[k], posted[i])
         => deliveries[posted[k]].recalled
=============================================================================
